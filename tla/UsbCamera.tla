------------------------------ MODULE UsbCamera ------------------------------
(***************************************************************************)
(* StereoUSBCameraSet (camera_usb.cpp): two USB cameras, read through      *)
(* OpenCV by a thread of the camera set.  Each pass of the thread grabs a  *)
(* frame of the left and one of the right camera, decodes both into        *)
(* buf_img_l and buf_img_r under the mutex, and sleeps.  get_images copies *)
(* both images under the same mutex.                                       *)
(*                                                                         *)
(* A frame is the number of the pass that grabbed it.  The results of grab *)
(* and retrieve are ignored by the code.  When a grab fails, the retrieve  *)
(* that follows decodes the frame of an earlier pass again, or leaves an   *)
(* empty image, which is what OpenCV documents (videoio.hpp 812-818);      *)
(* copying an empty image ends the process.                                *)
(***************************************************************************)
EXTENDS Naturals

CONSTANTS
  MaxCapture,    \* bound on the passes of the capture thread
  MaxFaults,     \* bound on the grabs that fail
  Empty          \* no frame, and the image without data retrieved from it

ASSUME MaxCaptureAssumption == MaxCapture \in Nat
ASSUME MaxFaultsAssumption == MaxFaults \in Nat
ASSUME EmptyAssumption == Empty \notin Nat

VARIABLES
  main,        \* where the main thread is
  thread,      \* where the capture thread is
  mutex,       \* who holds the mutex
  grabbed,     \* [l, r]: the frames the two VideoCapture objects hold, if any
  buf_img_l,   \* the decoded left image
  buf_img_r,   \* the decoded right image
  img,         \* [l, r]: img_l and img_r of the caller of get_images
  returned,    \* [l, r]: the pair the last get_images returned
  pass,        \* passes of the capture thread so far
  faults,      \* failed grabs so far
  clean        \* no grab of the current pass failed

bufVars == <<buf_img_l, buf_img_r>>
readerVars == <<img, returned>>
grabVars == <<grabbed, pass, faults, clean>>
vars == <<main, thread, mutex, bufVars, readerVars, grabVars>>

Capture == 0 .. MaxCapture
NoCapture == 0    \* memory that no frame was decoded into

Init ==
  /\ main = "initialize" /\ thread = "none" /\ mutex = "free"
  /\ grabbed = [l |-> Empty, r |-> Empty]
  /\ buf_img_l = NoCapture /\ buf_img_r = NoCapture
  /\ img = [l |-> NoCapture, r |-> NoCapture]
  /\ returned = [l |-> NoCapture, r |-> NoCapture]
  /\ pass = 0 /\ faults = 0 /\ clean = TRUE

(* Open and configure the left, then the right camera; the first step that *)
(* fails makes main() return.                                              *)
InitializeCameras ==
  /\ main = "initialize"
  /\ main' \in {"start", "exited"}
  /\ UNCHANGED <<thread, mutex, bufVars, readerVars, grabVars>>

(* start_capture ignores the result of pthread_create and returns 0. *)
StartCapture ==
  /\ main = "start"
  /\ thread' \in {"grab_l", "none"}
  /\ main' = "running"
  /\ UNCHANGED <<mutex, bufVars, readerVars, grabVars>>

(* Mutant of GetImagesLock: the images are copied without the mutex. *)
GetImagesLock_NoLock ==
  /\ main = "running"
  /\ main' = "copy_l"
  /\ UNCHANGED <<thread, mutex, bufVars, readerVars, grabVars>>

GetImagesLock ==
  /\ main = "running" /\ mutex = "free"
  /\ mutex' = "main"
  /\ main' = "copy_l"
  /\ UNCHANGED <<thread, bufVars, readerVars, grabVars>>

(* Mutant of GetImagesCopyL: an empty image is copied as one without       *)
(* contents.                                                               *)
GetImagesCopyL_Clears ==
  /\ main = "copy_l"
  /\ img' = [img EXCEPT !.l = IF buf_img_l = Empty THEN NoCapture
                                                  ELSE buf_img_l]
  /\ main' = "copy_r"
  /\ UNCHANGED <<thread, mutex, bufVars, returned, grabVars>>

GetImagesCopyL ==
  /\ main = "copy_l"
  /\ buf_img_l # Empty
  /\ img' = [img EXCEPT !.l = buf_img_l]
  /\ main' = "copy_r"
  /\ UNCHANGED <<thread, mutex, bufVars, returned, grabVars>>

GetImagesCopyR ==
  /\ main = "copy_r"
  /\ buf_img_r # Empty
  /\ img' = [img EXCEPT !.r = buf_img_r]
  /\ main' = "unlock"
  /\ UNCHANGED <<thread, mutex, bufVars, returned, grabVars>>

(* The copy of an image faults and the process dies: an empty image has no *)
(* data, and until the first retrieve a buffer has one byte per pixel      *)
(* (lines 23-24) where three are read, which may or may not fault.         *)
GetImagesFaults ==
  /\ \/ main = "copy_l" /\ buf_img_l \in {Empty, NoCapture}
     \/ main = "copy_r" /\ buf_img_r \in {Empty, NoCapture}
  /\ main' = "crashed"
  /\ UNCHANGED <<thread, mutex, bufVars, readerVars, grabVars>>

(* Mutant of GetImagesReturn: the mutex is not released. *)
GetImagesReturn_KeepsLock ==
  /\ main = "unlock"
  /\ returned' = img
  /\ main' = "running"
  /\ UNCHANGED <<thread, mutex, bufVars, img, grabVars>>

GetImagesReturn ==
  /\ main = "unlock"
  /\ mutex' = "free"
  /\ returned' = img
  /\ main' = "running"
  /\ UNCHANGED <<thread, bufVars, img, grabVars>>

(* Escape leaves the main loop and ends the process; stop_capture would do *)
(* nothing.                                                                *)
Quit ==
  /\ main = "running"
  /\ main' = "exited"
  /\ UNCHANGED <<thread, mutex, bufVars, readerVars, grabVars>>

-----------------------------------------------------------------------------
(* The capture thread; it dies with the process. *)
Step(from, to) ==
  /\ main \notin {"exited", "crashed"}
  /\ thread = from
  /\ thread' = to
  /\ UNCHANGED <<main, readerVars>>

(* The grab of a camera fails: the frame it held is decoded again, or      *)
(* there is none.                                                          *)
Fault(camera) ==
  /\ faults < MaxFaults
  /\ faults' = faults + 1
  /\ clean' = FALSE
  /\ grabbed' \in {grabbed, [grabbed EXCEPT ![camera] = Empty]}

GrabL ==
  /\ Step("grab_l", "grab_r")
  /\ pass < MaxCapture
  /\ pass' = pass + 1
  /\ \/ /\ grabbed' = [grabbed EXCEPT !.l = pass + 1]
        /\ clean' = TRUE
        /\ UNCHANGED faults
     \/ Fault("l")
  /\ UNCHANGED <<mutex, bufVars>>

GrabR ==
  /\ Step("grab_r", "lock")
  /\ \/ /\ grabbed' = [grabbed EXCEPT !.r = pass]
        /\ UNCHANGED <<clean, faults>>
     \/ Fault("r")
  /\ UNCHANGED <<mutex, bufVars, pass>>

(* Mutant of ThreadLock: the thread decodes without waiting for the mutex. *)
ThreadLock_NoWait ==
  /\ Step("lock", "retrieve_l")
  /\ mutex' = "thread"
  /\ UNCHANGED <<bufVars, grabVars>>

ThreadLock ==
  /\ Step("lock", "retrieve_l")
  /\ mutex = "free"
  /\ mutex' = "thread"
  /\ UNCHANGED <<bufVars, grabVars>>

RetrieveL ==
  /\ Step("retrieve_l", "retrieve_r")
  /\ buf_img_l' = grabbed.l
  /\ UNCHANGED <<mutex, buf_img_r, grabVars>>

(* Mutant of RetrieveR: the right image is not decoded. *)
RetrieveR_Skipped ==
  /\ Step("retrieve_r", "unlock")
  /\ UNCHANGED <<mutex, bufVars, grabVars>>

RetrieveR ==
  /\ Step("retrieve_r", "unlock")
  /\ buf_img_r' = grabbed.r
  /\ UNCHANGED <<mutex, buf_img_l, grabVars>>

(* pthread_mutex_unlock, and the sleep at the end of the pass. *)
ThreadUnlock ==
  /\ Step("unlock", "grab_l")
  /\ mutex' = "free"
  /\ UNCHANGED <<bufVars, grabVars>>

GetImages ==
  GetImagesLock \/ GetImagesCopyL \/ GetImagesCopyR \/ GetImagesFaults
    \/ GetImagesReturn

CaptureThread ==
  GrabL \/ GrabR \/ ThreadLock \/ RetrieveL \/ RetrieveR \/ ThreadUnlock

Next == InitializeCameras \/ StartCapture \/ GetImages \/ Quit \/ CaptureThread

Spec == Init /\ [][Next]_vars

(* Both threads run.  The capture thread gets the mutex: the main thread   *)
(* leaves it free for an inference, a stereo match and waitKey(10).        *)
Fairness ==
  /\ WF_vars(InitializeCameras) /\ WF_vars(StartCapture)
  /\ SF_vars(GetImagesLock)
  /\ WF_vars(GetImagesCopyL \/ GetImagesCopyR \/ GetImagesFaults
               \/ GetImagesReturn)
  /\ SF_vars(ThreadLock) /\ WF_vars(CaptureThread)

FairSpec == Spec /\ Fairness

-----------------------------------------------------------------------------
(* The variables hold values of their types: a camera or a buffer may have *)
(* no frame, but the caller's images are never copied from an empty one.   *)
(* (camera_usb.h 16-43)                                                    *)
TypeOK ==
  /\ main \in {"initialize", "start", "running", "copy_l", "copy_r", "unlock",
               "exited", "crashed"}
  /\ thread \in {"none", "grab_l", "grab_r", "lock", "retrieve_l",
                 "retrieve_r", "unlock"}
  /\ mutex \in {"free", "main", "thread"}
  /\ grabbed \in [l : Capture \union {Empty}, r : Capture \union {Empty}]
  /\ buf_img_l \in Capture \union {Empty}
  /\ buf_img_r \in Capture \union {Empty}
  /\ img \in [l : Capture, r : Capture]
  /\ returned \in [l : Capture, r : Capture]
  /\ pass \in Capture /\ faults \in 0 .. MaxFaults /\ clean \in BOOLEAN

(* As long as no grab fails, every step is one of the pair register or a   *)
(* stutter: the pair a caller gets is of one pass and never older than the *)
(* pair it got before.  The right image is decoded last.  (lines 117-150)  *)
Pair == INSTANCE StereoPair WITH latest <- buf_img_r

PairStep == faults' = 0 => [Pair!Next]_(Pair!vars)

ImplementsPair == [][PairStep]_vars

(* A failed grab costs the pairs of its own pass only: when a pass without *)
(* failures has decoded both images they are again of one pass, its own.   *)
SkewHeals ==
  thread = "unlock" /\ clean => buf_img_l = pass /\ buf_img_r = pass

(* Whatever grabs fail, and whether retrieve then decodes an old frame or  *)
(* gives an empty image, a call of get_images that returns returns neither *)
(* image of an older frame than the call before it.  (lines 123-150)       *)
PairsNeverGoBack ==
  [][returned'.l >= returned.l /\ returned'.r >= returned.r]_returned

(* Why it works, as an inductive invariant: the thread starts last and the *)
(* mutex is held exactly in the two critical sections, and by a main       *)
(* thread that died in its own; of what was returned, what a buffer holds, *)
(* the frame its camera holds and the pass, none is newer than the next;   *)
(* what a pass without failed grabs has done so far is of that pass; and   *)
(* what get_images has copied stays what the buffers hold.  (lines 88-150) *)
LockInv ==
  /\ main \in {"initialize", "start"} => thread = "none"
  /\ main \in {"copy_l", "copy_r", "unlock"} => mutex = "main"
  /\ mutex = "main" => main \in {"copy_l", "copy_r", "unlock", "crashed"}
  /\ thread \in {"retrieve_l", "retrieve_r", "unlock"} <=> mutex = "thread"

NotNewer(frame, other) == frame # Empty /\ other # Empty => frame <= other

Ages(copy, buffer, frame) ==
  /\ NotNewer(copy, buffer) /\ NotNewer(copy, frame) /\ copy <= pass
  /\ NotNewer(buffer, frame) /\ NotNewer(buffer, pass)
  /\ NotNewer(frame, pass)

AgeInv ==
  /\ Ages(returned.l, buf_img_l, grabbed.l)
  /\ Ages(returned.r, buf_img_r, grabbed.r)

PassInv ==
  /\ faults = 0 => clean
  /\ thread \notin {"none", "grab_l"} => pass > 0
  /\ clean /\ pass > 0 => grabbed.l = pass
  /\ clean /\ pass > 0 /\ thread # "grab_r" => grabbed.r = pass
  /\ clean /\ thread \in {"retrieve_r", "unlock"} => buf_img_l = pass
  /\ faults = 0 => buf_img_l # Empty /\ buf_img_r # Empty
  /\ faults = 0 /\ thread # "retrieve_r" => buf_img_l = buf_img_r

CopyInv ==
  /\ main \in {"copy_r", "unlock"} => img.l = buf_img_l
  /\ main = "unlock" => img.r = buf_img_r

UsbInv == TypeOK /\ LockInv /\ AgeInv /\ PassInv /\ SkewHeals /\ CopyInv

(* If the thread was created and no copy faults, it finishes its passes    *)
(* although the main loop keeps taking the mutex.                          *)
PassesEnd ==
  thread # "none"
    ~> \/ main \in {"exited", "crashed"}
       \/ pass = MaxCapture /\ thread = "grab_l"
=============================================================================
