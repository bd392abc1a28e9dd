-------------------------- MODULE UsbCameraProofs --------------------------
(***************************************************************************)
(* Theorems about UsbCamera for every number of passes and of failed       *)
(* grabs, and their proofs.                                                *)
(***************************************************************************)
EXTENDS UsbCamera, TLAPS

LEMMA UsbInit == Init => UsbInv
BY MaxCaptureAssumption, MaxFaultsAssumption, EmptyAssumption
   DEF Init, UsbInv, TypeOK, LockInv, AgeInv, Ages, NotNewer, PassInv,
       SkewHeals, CopyInv, Capture, NoCapture

(* What a failed grab changes. *)
LEMMA FaultStep ==
  ASSUME TypeOK, NEW camera \in {"l", "r"}, Fault(camera)
  PROVE  /\ faults' \in 0 .. MaxFaults /\ faults' # 0 /\ clean' = FALSE
         /\ grabbed' \in [l : Capture \union {Empty}, r : Capture \union {Empty}]
         /\ grabbed'.l \in {grabbed.l, Empty}
         /\ grabbed'.r \in {grabbed.r, Empty}
BY MaxFaultsAssumption DEF TypeOK, Fault

(* The main thread touches neither the frames nor the images. *)
LEMMA MainStep ==
  /\ UsbInv
  /\ InitializeCameras \/ StartCapture \/ GetImages \/ Quit
  => UsbInv'
<1> SUFFICES ASSUME UsbInv,
                    InitializeCameras \/ StartCapture \/ GetImages \/ Quit
             PROVE  UsbInv'
  OBVIOUS
<1> USE DEF UsbInv, TypeOK, LockInv, CopyInv
<1>1. UNCHANGED <<buf_img_l, buf_img_r, grabbed, pass, faults, clean>>
  BY DEF InitializeCameras, StartCapture, GetImages, GetImagesLock,
         GetImagesCopyL, GetImagesCopyR, GetImagesFaults, GetImagesReturn,
         Quit, bufVars, grabVars
<1>2. CASE InitializeCameras \/ StartCapture
  BY <1>1, <1>2 DEF InitializeCameras, StartCapture, AgeInv, Ages, NotNewer,
                    PassInv, SkewHeals, readerVars
<1>3. CASE GetImagesLock \/ GetImagesFaults \/ Quit
  BY <1>1, <1>3 DEF GetImagesLock, GetImagesFaults, Quit, AgeInv, Ages,
                    NotNewer, PassInv, SkewHeals, readerVars
<1>4. CASE GetImagesCopyL \/ GetImagesCopyR
  BY <1>1, <1>4 DEF GetImagesCopyL, GetImagesCopyR, AgeInv, Ages, NotNewer,
                    PassInv, SkewHeals
<1>5. CASE GetImagesReturn
  <2>1. returned'.l = buf_img_l /\ returned'.r = buf_img_r
    BY <1>5 DEF GetImagesReturn
  <2>2. AgeInv'
    BY <1>1, <1>5, <2>1, EmptyAssumption
       DEF GetImagesReturn, AgeInv, Ages, NotNewer, Capture
  <2> QED
    BY <1>1, <1>5, <2>2 DEF GetImagesReturn, PassInv, SkewHeals
<1> QED
  BY <1>2, <1>3, <1>4, <1>5 DEF GetImages

(* The capture thread decodes only while the main thread is not copying. *)
LEMMA ThreadStep == UsbInv /\ CaptureThread => UsbInv'
<1> SUFFICES ASSUME UsbInv, CaptureThread
             PROVE  UsbInv'
  OBVIOUS
<1> USE MaxCaptureAssumption, EmptyAssumption
    DEF UsbInv, TypeOK, LockInv, PassInv, SkewHeals, CopyInv, Capture,
        Step, bufVars, readerVars, grabVars
<1>1. CASE GrabL
  <2>1. pass' \in Capture /\ pass' = pass + 1
    BY <1>1 DEF GrabL
  <2>2. /\ thread = "grab_l" /\ thread' = "grab_r"
        /\ UNCHANGED <<main, mutex, buf_img_l, buf_img_r, img, returned>>
    BY <1>1 DEF GrabL
  <2>3. CASE Fault("l")
    <3>1. /\ faults' \in 0 .. MaxFaults /\ faults' # 0 /\ clean' = FALSE
          /\ grabbed' \in [l : Capture \union {Empty}, r : Capture \union {Empty}]
          /\ grabbed'.l \in {grabbed.l, Empty}
          /\ grabbed'.r \in {grabbed.r, Empty}
      BY <2>3, FaultStep
    <3>2. AgeInv'
      BY <2>1, <2>2, <3>1 DEF AgeInv, Ages, NotNewer
    <3>3. TypeOK' /\ LockInv' /\ CopyInv' /\ SkewHeals'
      BY <2>1, <2>2, <3>1
    <3>4. PassInv'
      BY <2>1, <2>2, <3>1
    <3> QED
      BY <3>2, <3>3, <3>4
  <2>4. CASE ~Fault("l")
    <3>1. /\ grabbed' = [grabbed EXCEPT !.l = pass + 1]
          /\ clean' = TRUE /\ faults' = faults
      BY <1>1, <2>4 DEF GrabL
    <3>2. /\ grabbed' \in [l : Capture \union {Empty}, r : Capture \union {Empty}]
          /\ grabbed'.l = pass' /\ grabbed'.r = grabbed.r
      BY <2>1, <3>1
    <3>3. AgeInv'
      BY <2>1, <2>2, <3>2 DEF AgeInv, Ages, NotNewer
    <3> QED
      BY <2>1, <2>2, <3>1, <3>2, <3>3
  <2> QED
    BY <2>3, <2>4
<1>2. CASE GrabR
  <2>1. CASE Fault("r")
    <3>1. /\ faults' \in 0 .. MaxFaults /\ faults' # 0 /\ clean' = FALSE
          /\ grabbed' \in [l : Capture \union {Empty}, r : Capture \union {Empty}]
          /\ grabbed'.l \in {grabbed.l, Empty}
          /\ grabbed'.r \in {grabbed.r, Empty}
      BY <2>1, FaultStep
    <3>2. UNCHANGED <<main, mutex, buf_img_l, buf_img_r, img, returned, pass>>
      BY <1>2 DEF GrabR
    <3>3. AgeInv'
      BY <3>1, <3>2 DEF AgeInv, Ages, NotNewer
    <3> QED
      BY <1>2, <3>1, <3>2, <3>3 DEF GrabR
  <2>2. CASE ~Fault("r")
    <3>1. AgeInv'
      BY <1>2, <2>2 DEF GrabR, AgeInv, Ages, NotNewer
    <3> QED
      BY <1>2, <2>2, <3>1 DEF GrabR
  <2> QED
    BY <2>1, <2>2
<1>3. CASE ThreadLock
  BY <1>3 DEF ThreadLock, AgeInv, Ages, NotNewer
<1>4. CASE RetrieveL
  <2>1. AgeInv'
    BY <1>4 DEF RetrieveL, AgeInv, Ages, NotNewer
  <2> QED
    BY <1>4, <2>1 DEF RetrieveL
<1>5. CASE RetrieveR
  <2>1. AgeInv'
    BY <1>5 DEF RetrieveR, AgeInv, Ages, NotNewer
  <2> QED
    BY <1>5, <2>1 DEF RetrieveR
<1>6. CASE ThreadUnlock
  BY <1>6 DEF ThreadUnlock, AgeInv, Ages, NotNewer
<1> QED
  BY <1>1, <1>2, <1>3, <1>4, <1>5, <1>6 DEF CaptureThread

LEMMA UsbStep == UsbInv /\ [Next]_vars => UsbInv'
<1>1. UsbInv /\ UNCHANGED vars => UsbInv'
  BY DEF UsbInv, TypeOK, LockInv, AgeInv, Ages, NotNewer, PassInv, SkewHeals,
         CopyInv, vars, bufVars, readerVars, grabVars
<1> QED
  BY <1>1, MainStep, ThreadStep DEF Next

(* The inductive invariant of the two threads of the USB camera set holds  *)
(* in every reachable state; the types of its variables with it.           *)
THEOREM UsbInvariant == Spec => []UsbInv
BY UsbInit, UsbStep, PTL DEF Spec

(* A pass of the capture thread without failed grabs leaves two images of  *)
(* that pass, whatever grabs failed before.                                *)
THEOREM SkewAlwaysHeals == Spec => []SkewHeals
<1>1. UsbInv => SkewHeals
  BY DEF UsbInv
<1> QED
  BY <1>1, UsbInvariant, PTL

(* Of two calls of get_images that return, the second returns neither      *)
(* image of an older frame, whatever grabs failed and whether retrieve     *)
(* then decoded an old frame or gave an empty image: an image that is      *)
(* copied is not empty, and what was returned before is not newer than it. *)
THEOREM ReturnsNeverGoBack == Spec => PairsNeverGoBack
<1>1. UsbInv /\ [Next]_vars
        => [returned'.l >= returned.l /\ returned'.r >= returned.r]_returned
  <2> SUFFICES ASSUME UsbInv, [Next]_vars
               PROVE  \/ returned'.l >= returned.l /\ returned'.r >= returned.r
                      \/ UNCHANGED returned
    OBVIOUS
  <2>1. CASE GetImagesReturn
    <3>1. returned'.l = buf_img_l /\ returned'.r = buf_img_r
      BY <2>1 DEF GetImagesReturn, UsbInv, CopyInv
    <3>2. buf_img_l \in Capture /\ buf_img_r \in Capture
      BY <2>1 DEF GetImagesReturn, UsbInv, CopyInv, TypeOK
    <3> QED
      BY <3>1, <3>2, EmptyAssumption
         DEF UsbInv, TypeOK, AgeInv, Ages, NotNewer, Capture
  <2>2. CASE ~GetImagesReturn
    BY <2>2 DEF Next, InitializeCameras, StartCapture, GetImages,
         GetImagesLock, GetImagesCopyL, GetImagesCopyR, GetImagesFaults, Quit,
         CaptureThread, GrabL, GrabR, ThreadLock, RetrieveL, RetrieveR,
         ThreadUnlock, Step, readerVars, vars
  <2> QED
    BY <2>1, <2>2
<1> QED
  BY <1>1, UsbInvariant, PTL DEF Spec, PairsNeverGoBack

(* As long as no grab fails the camera set implements the pair register:   *)
(* RetrieveR publishes, GetImagesReturn returns what was published last,   *)
(* and every other step of the two threads is a stutter.                   *)
THEOREM UsbImplementsPair == Spec => Pair!Init /\ ImplementsPair
<1>1. Init => Pair!Init
  BY DEF Init, Pair!Init, NoCapture, Pair!NoCapture
<1>2. UsbInv /\ [Next]_vars => PairStep
  <2> SUFFICES ASSUME UsbInv, [Next]_vars, faults' = 0
               PROVE  [Pair!Next]_(Pair!vars)
    BY DEF PairStep
  <2> USE DEF UsbInv, TypeOK, Pair!vars
  <2>1. faults = 0 /\ clean
    BY DEF PassInv, Next, InitializeCameras, StartCapture, GetImages,
         GetImagesLock, GetImagesCopyL, GetImagesCopyR, GetImagesFaults,
         GetImagesReturn, Quit, CaptureThread, GrabL, GrabR, Fault,
         ThreadLock, RetrieveL, RetrieveR, ThreadUnlock, vars, grabVars
  <2>2. CASE GetImagesReturn
    <3>1. returned' = [l |-> buf_img_r, r |-> buf_img_r]
      BY <2>1, <2>2 DEF GetImagesReturn, LockInv, PassInv, CopyInv
    <3> QED
      BY <2>2, <3>1 DEF GetImagesReturn, bufVars, Pair!Next, Pair!GetImages
  <2>3. CASE RetrieveR
    <3>1. buf_img_r' \in Capture /\ buf_img_r' >= buf_img_r
      BY <2>1, <2>3, EmptyAssumption
         DEF RetrieveR, Step, AgeInv, Ages, NotNewer, PassInv, Capture
    <3>2. returned' = returned
      BY <2>3 DEF RetrieveR, Step, readerVars
    <3> QED
      BY <3>1, <3>2, MaxCaptureAssumption
         DEF Capture, Pair!Next, Pair!Publish, Pair!Capture
  <2>4. CASE ~GetImagesReturn /\ ~RetrieveR
    <3>1. UNCHANGED <<buf_img_r, returned>>
      BY <2>4 DEF Next, InitializeCameras, StartCapture, GetImages,
           GetImagesLock, GetImagesCopyL, GetImagesCopyR, GetImagesFaults,
           Quit, CaptureThread, GrabL, GrabR, ThreadLock, RetrieveL,
           ThreadUnlock, Step, vars, bufVars, readerVars
    <3> QED
      BY <3>1
  <2> QED
    BY <2>2, <2>3, <2>4
<1> QED
  BY <1>1, <1>2, UsbInvariant, PTL DEF Spec, ImplementsPair
=============================================================================
