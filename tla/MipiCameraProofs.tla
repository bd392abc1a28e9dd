-------------------------- MODULE MipiCameraProofs --------------------------
(***************************************************************************)
(* Theorems about MipiCamera for every set of buffers and callbacks, every *)
(* number of captures and of faults, and their proofs.                     *)
(***************************************************************************)
EXTENDS MipiCamera, FiniteSetTheorems, TLAPS

(* The pool has at most as many buffers as there are. *)
LEMMA PoolBound == Cardinality(Pool) \in 0 .. Cardinality(Buffers)
<1>1. Pool \subseteq Buffers
  BY DEF Pool
<1>2. /\ IsFiniteSet(Pool) /\ Cardinality(Pool) <= Cardinality(Buffers)
  BY <1>1, BuffersAssumption, FS_Subset
<1>3. Cardinality(Pool) \in Nat /\ Cardinality(Buffers) \in Nat
  BY <1>2, BuffersAssumption, FS_CardinalityType
<1> QED
  BY <1>2, <1>3

LEMMA TypeOKInit == Init => TypeOK
<1>1. Cardinality(Buffers) \in Nat
  BY BuffersAssumption, FS_CardinalityType
<1>2. 0 \in Capture /\ NoCapture \in Capture /\ 0 \in 0 .. MaxFaults
  BY MaxCaptureAssumption, MaxFaultsAssumption DEF Capture, NoCapture
<1>3. Init => /\ where \in [Buffers -> {"unallocated", "pool", "port",
                                        "callback", "lost"}]
              /\ callback \in [Threads -> CallbackSteps]
  BY DEF Init, CallbackSteps
<1>4. Init => content \in [Buffers -> Capture]
  BY <1>2 DEF Init
<1>5. Init => /\ buffer \in [Threads -> Buffers \cup {NoBuffer}]
              /\ newBuffer \in [Threads -> Buffers \cup {NoBuffer}]
  BY DEF Init
<1>6. Init => /\ main \in MainSteps
              /\ portEnabled \in BOOLEAN /\ camEnabled \in BOOLEAN
              /\ userdata \in BOOLEAN
              /\ mutex \in {"free", "main"} \cup Threads
  BY DEF Init, MainSteps
<1>7. Init => /\ toSend \in 0 .. Cardinality(Buffers)
              /\ captures \in Capture /\ faults \in 0 .. MaxFaults
  BY <1>1, <1>2 DEF Init
<1>8. Init => /\ image0 \in Capture /\ image1 \in Capture
              /\ img \in [l : Capture, r : Capture]
              /\ returned \in [l : Capture, r : Capture]
  BY <1>2 DEF Init
<1> QED
  BY <1>3, <1>4, <1>5, <1>6, <1>7, <1>8 DEF TypeOK

LEMMA TypeOKStep == TypeOK /\ BufferInv /\ [Next]_vars => TypeOK'
<1> SUFFICES ASSUME TypeOK, BufferInv, [Next]_vars
             PROVE  TypeOK'
  OBVIOUS
<1> USE MaxCaptureAssumption, MaxFaultsAssumption
    DEF TypeOK, MainSteps, CallbackSteps, Capture, vars, mmalVars, bufferVars,
        imageVars, readerVars
<1>0. Cardinality(Buffers) \in Nat
  BY BuffersAssumption, FS_CardinalityType
<1>1. CASE Configure
  BY <1>1 DEF Configure
<1>2. CASE CreatePool
  BY <1>2 DEF CreatePool
<1>3. CASE EnablePort
  BY <1>3 DEF EnablePort
<1>4. CASE EnableCamera
  BY <1>4, PoolBound DEF EnableCamera
<1>5. CASE SendToPort
  <2>1. toSend' \in 0 .. Cardinality(Buffers)
    BY <1>0, <1>5 DEF SendToPort
  <2> QED
    BY <2>1, <1>5 DEF SendToPort, Pool
<1>6. CASE SentAll
  BY <1>6 DEF SentAll
<1>7. CASE SetRotation
  BY <1>7 DEF SetRotation
<1>8. CASE StartCapture
  BY <1>8 DEF StartCapture
<1>9. CASE Fail
  BY <1>9 DEF Fail
<1>10. CASE Quit
  BY <1>10 DEF Quit
<1>11. CASE GetImagesLock
  BY <1>11 DEF GetImagesLock
<1>12. CASE GetImagesCopyL
  BY <1>12 DEF GetImagesCopyL
<1>13. CASE GetImagesCopyR
  BY <1>13 DEF GetImagesCopyR
<1>14. CASE GetImagesReturn
  BY <1>14 DEF GetImagesReturn
<1>15. ASSUME NEW t \in Threads, Deliver(t)
       PROVE  TypeOK'
  <2>1. captures' \in Capture /\ captures + 1 \in Capture
    BY <1>15 DEF Deliver
  <2> QED
    BY <1>15, <2>1 DEF Deliver
<1>16. ASSUME NEW t \in Threads, Callback(t)
       PROVE  TypeOK'
  <2> USE DEF Step
  <2>1. CASE CallbackLock(t)
    BY <2>1 DEF CallbackLock
  <2>2. CASE CallbackUnlock(t)
    BY <2>2 DEF CallbackUnlock
  <2>3. CASE CallbackRelease(t)
    BY <2>3 DEF CallbackRelease
  <2>4. CASE CallbackCheckPort(t)
    BY <2>4 DEF CallbackCheckPort
  <2>5. CASE CallbackGet(t)
    <3>1. CASE Pool = {}
      BY <2>5, <3>1 DEF CallbackGet
    <3>2. CASE Pool # {}
      BY <2>5, <3>2 DEF CallbackGet, Pool
    <3> QED
      BY <3>1, <3>2
  <2>6. CASE CallbackSend(t)
    <3>1. where' \in [Buffers -> {"unallocated", "pool", "port", "callback",
                                  "lost"}]
      BY <2>6 DEF CallbackSend
    <3> QED
      BY <2>6, <3>1 DEF CallbackSend
  <2>7. CASE CallbackSendFails(t)
    <3>1. where' \in [Buffers -> {"unallocated", "pool", "port", "callback",
                                  "lost"}]
      BY <2>7 DEF CallbackSendFails
    <3>2. faults' \in 0 .. MaxFaults
      BY <2>7 DEF CallbackSendFails
    <3> QED
      BY <2>7, <3>1, <3>2 DEF CallbackSendFails
  <2>8. CASE CallbackCopy0(t)
    BY <2>8 DEF CallbackCopy0, BufferInv, Reading
  <2>9. CASE CallbackCopy1(t)
    BY <2>9 DEF CallbackCopy1, BufferInv, Reading
  <2> QED
    BY <1>16, <2>1, <2>2, <2>3, <2>4, <2>5, <2>6, <2>7, <2>8, <2>9 DEF Callback
<1>17. CASE EnableCameraCrashes
  BY <1>17 DEF EnableCameraCrashes
<1>18. CASE UNCHANGED vars
  BY <1>18
<1> QED
  BY <1>1, <1>2, <1>3, <1>4, <1>5, <1>6, <1>7, <1>8, <1>9, <1>10, <1>11, <1>12,
     <1>13, <1>14, <1>15, <1>16, <1>17, <1>18 DEF Next, Main

-----------------------------------------------------------------------------
(* The actions that leave every variable of the callbacks alone. *)
LEMMA MainFrame ==
  (Configure \/ EnablePort \/ EnableCamera \/ EnableCameraCrashes \/ SentAll
     \/ SetRotation \/ StartCapture \/ Fail \/ Quit \/ GetImagesLock
     \/ GetImagesCopyL \/ GetImagesCopyR \/ GetImagesReturn \/ UNCHANGED vars)
  => UNCHANGED <<bufferVars, imageVars>>
BY DEF Configure, EnablePort, EnableCamera, EnableCameraCrashes, SentAll,
       SetRotation, StartCapture, Fail, Quit, GetImagesLock, GetImagesCopyL, GetImagesCopyR,
       GetImagesReturn, vars, mmalVars, bufferVars, imageVars, readerVars

(* Nothing runs before the pool and userdata are there. *)
LEMMA StartStep == TypeOK /\ StartInv /\ [Next]_vars => StartInv'
<1> SUFFICES ASSUME TypeOK, StartInv, [Next]_vars
             PROVE  StartInv'
  OBVIOUS
<1> USE DEF TypeOK, MainSteps, CallbackSteps, StartInv, CallbackFindsUserdata
<1>1. CASE Main \/ UNCHANGED vars
  BY <1>1 DEF Main, Configure, CreatePool, EnablePort, EnableCamera,
       EnableCameraCrashes, SendToPort, SentAll, SetRotation, StartCapture, Fail, Quit, GetImagesLock,
       GetImagesCopyL, GetImagesCopyR, GetImagesReturn, vars, mmalVars,
       bufferVars
<1>2. ASSUME NEW t \in Threads, Deliver(t)
      PROVE  StartInv'
  BY <1>2 DEF Deliver, mmalVars
<1>3. ASSUME NEW t \in Threads, Callback(t)
      PROVE  StartInv'
  <2>1. /\ UNCHANGED <<main, mmalVars>>
        /\ callback[t] # "idle"
        /\ \A u \in Threads : u # t => callback'[u] = callback[u]
    BY <1>3 DEF Callback, Step, CallbackLock, CallbackCopy0, CallbackCopy1,
         CallbackUnlock, CallbackRelease, CallbackCheckPort, CallbackGet,
         CallbackSend, CallbackSendFails
  <2> QED
    BY <2>1 DEF mmalVars
<1> QED
  BY <1>1, <1>2, <1>3 DEF Next

(* What a buffer does: a callback that reads or is about to send a buffer  *)
(* owns it, and no two callbacks own the same one.                         *)
LEMMA BufferStep ==
  TypeOK /\ StartInv /\ BufferInv /\ BufferOwnedOnce /\ [Next]_vars
    => BufferInv' /\ BufferOwnedOnce'
<1> SUFFICES ASSUME TypeOK, StartInv, BufferInv, BufferOwnedOnce, [Next]_vars
             PROVE  BufferInv' /\ BufferOwnedOnce'
  OBVIOUS
<1> USE BuffersAssumption DEF TypeOK, CallbackSteps, BufferInv,
                              BufferOwnedOnce, Reading
<1>1. CASE Configure \/ EnablePort \/ EnableCamera \/ EnableCameraCrashes
             \/ SentAll \/ SetRotation \/ StartCapture \/ Fail \/ Quit \/ GetImagesLock
             \/ GetImagesCopyL \/ GetImagesCopyR \/ GetImagesReturn
             \/ UNCHANGED vars
  <2>1. UNCHANGED <<where, callback, buffer, newBuffer>>
    BY <1>1, MainFrame DEF bufferVars
  <2> QED
    BY <2>1
<1>2. CASE CreatePool
  BY <1>2 DEF CreatePool, StartInv
<1>3. CASE SendToPort
  BY <1>3 DEF SendToPort, Pool
<1>4. ASSUME NEW t \in Threads, Deliver(t)
      PROVE  BufferInv' /\ BufferOwnedOnce'
  BY <1>4 DEF Deliver
<1>5. ASSUME NEW t \in Threads, Callback(t)
      PROVE  BufferInv' /\ BufferOwnedOnce'
  <2> USE DEF Step
  <2>1. CASE CallbackLock(t) \/ CallbackCopy0(t) \/ CallbackCopy1(t)
               \/ CallbackUnlock(t) \/ CallbackCheckPort(t)
    BY <2>1 DEF CallbackLock, CallbackCopy0, CallbackCopy1, CallbackUnlock,
                CallbackCheckPort
  <2>2. CASE CallbackRelease(t)
    BY <2>2 DEF CallbackRelease
  <2>3. CASE CallbackGet(t)
    BY <2>3 DEF CallbackGet, Pool
  <2>4. CASE CallbackSend(t)
    BY <2>4 DEF CallbackSend
  <2>5. CASE CallbackSendFails(t)
    BY <2>5 DEF CallbackSendFails
  <2> QED
    BY <1>5, <2>1, <2>2, <2>3, <2>4, <2>5 DEF Callback
<1> QED
  BY <1>1, <1>2, <1>3, <1>4, <1>5 DEF Next, Main

(* Who holds the mutex. *)
LEMMA LockStep == TypeOK /\ LockInv /\ [Next]_vars => LockInv'
<1> SUFFICES ASSUME TypeOK, LockInv, [Next]_vars
             PROVE  LockInv'
  OBVIOUS
<1> USE ThreadsAssumption DEF TypeOK, MainSteps, CallbackSteps, LockInv, Locked
<1>1. CASE Configure \/ CreatePool \/ EnablePort \/ EnableCamera
             \/ EnableCameraCrashes \/ SendToPort \/ SentAll \/ SetRotation \/ StartCapture \/ Fail \/ Quit
             \/ GetImagesCopyL \/ GetImagesCopyR \/ UNCHANGED vars
  <2>1. UNCHANGED <<callback, mutex>>
    BY <1>1 DEF Configure, CreatePool, EnablePort, EnableCamera,
                EnableCameraCrashes, SendToPort, SentAll, SetRotation, StartCapture, Fail, Quit,
                GetImagesCopyL, GetImagesCopyR, vars, bufferVars
  <2>2. main \in {"copy_l", "copy_r", "unlock"}
          <=> main' \in {"copy_l", "copy_r", "unlock"}
    BY <1>1 DEF Configure, CreatePool, EnablePort, EnableCamera,
                EnableCameraCrashes, SendToPort, SentAll, SetRotation, StartCapture, Fail, Quit,
                GetImagesCopyL, GetImagesCopyR, vars
  <2> QED
    BY <2>1, <2>2
<1>2. CASE GetImagesLock
  BY <1>2 DEF GetImagesLock, bufferVars
<1>3. CASE GetImagesReturn
  BY <1>3 DEF GetImagesReturn, bufferVars
<1>4. ASSUME NEW t \in Threads, Deliver(t)
      PROVE  LockInv'
  BY <1>4 DEF Deliver
<1>5. ASSUME NEW t \in Threads, Callback(t)
      PROVE  LockInv'
  <2> USE DEF Step
  <2>1. CASE CallbackLock(t)
    BY <2>1 DEF CallbackLock
  <2>2. CASE CallbackUnlock(t)
    BY <2>2 DEF CallbackUnlock
  <2>3. CASE CallbackCopy0(t) \/ CallbackCopy1(t) \/ CallbackRelease(t)
               \/ CallbackCheckPort(t) \/ CallbackGet(t) \/ CallbackSend(t)
               \/ CallbackSendFails(t)
    BY <2>3 DEF CallbackCopy0, CallbackCopy1, CallbackRelease,
                CallbackCheckPort, CallbackGet, CallbackSend, CallbackSendFails
  <2> QED
    BY <1>5, <2>1, <2>2, <2>3 DEF Callback
<1> QED
  BY <1>1, <1>2, <1>3, <1>4, <1>5 DEF Next, Main

(* The two images, and what get_images has copied of them. *)
LEMMA ImageStep ==
  /\ TypeOK /\ BufferInv /\ LockInv /\ ImageInv /\ SameCapture
  /\ [Next]_vars
  => ImageInv' /\ SameCapture'
<1> SUFFICES ASSUME TypeOK, BufferInv, LockInv, ImageInv, SameCapture,
                    [Next]_vars
             PROVE  ImageInv' /\ SameCapture'
  OBVIOUS
<1> USE ThreadsAssumption DEF TypeOK, MainSteps, CallbackSteps, ImageInv,
                              SameCapture
<1>1. CASE Configure \/ CreatePool \/ EnablePort \/ EnableCamera
             \/ EnableCameraCrashes \/ SendToPort \/ SentAll \/ SetRotation \/ StartCapture \/ Fail \/ Quit
             \/ GetImagesLock \/ UNCHANGED vars
  <2>1. /\ UNCHANGED <<callback, buffer, content, imageVars, readerVars>>
        /\ main' \notin {"copy_r", "unlock"} \/ main' = main
    BY <1>1 DEF Configure, CreatePool, EnablePort, EnableCamera,
                EnableCameraCrashes, SendToPort, SentAll, SetRotation, StartCapture, Fail, Quit, GetImagesLock,
                vars, bufferVars
  <2> QED
    BY <2>1 DEF imageVars, readerVars
<1>2. CASE GetImagesCopyL \/ GetImagesCopyR
  <2>1. \A t \in Threads : callback[t] # "copy1"
    BY <1>2 DEF GetImagesCopyL, GetImagesCopyR, LockInv, Locked
  <2>2. image0 = image1
    BY <2>1
  <2> QED
    BY <1>2, <2>1, <2>2
       DEF GetImagesCopyL, GetImagesCopyR, bufferVars, imageVars
<1>3. CASE GetImagesReturn
  BY <1>3 DEF GetImagesReturn, bufferVars, imageVars
<1>4. ASSUME NEW t \in Threads, Deliver(t)
      PROVE  ImageInv' /\ SameCapture'
  <2>1. \A u \in Threads : callback'[u] = "copy1" =>
          /\ callback[u] = "copy1"
          /\ buffer'[u] = buffer[u]
          /\ content'[buffer[u]] = content[buffer[u]]
    BY <1>4 DEF Deliver, BufferInv, Reading
  <2>2. UNCHANGED <<main, imageVars, readerVars>>
    BY <1>4 DEF Deliver
  <2>3. (\A u \in Threads : callback'[u] # "copy1")
          => \A u \in Threads : callback[u] # "copy1"
    BY <1>4 DEF Deliver
  <2> QED
    BY <2>1, <2>2, <2>3 DEF imageVars, readerVars
<1>5. ASSUME NEW t \in Threads, Callback(t)
      PROVE  ImageInv' /\ SameCapture'
  <2> USE DEF Step, imageVars, readerVars, LockInv, Locked
  <2>1. CASE CallbackCopy0(t)
    BY <2>1 DEF CallbackCopy0
  <2>2. CASE CallbackCopy1(t)
    BY <2>2 DEF CallbackCopy1
  <2>3. CASE CallbackLock(t) \/ CallbackUnlock(t) \/ CallbackRelease(t)
               \/ CallbackCheckPort(t) \/ CallbackGet(t) \/ CallbackSend(t)
               \/ CallbackSendFails(t)
    <3>1. /\ UNCHANGED <<main, buffer, content, image0, image1, img, returned>>
          /\ \A u \in Threads : callback'[u] = "copy1" <=> callback[u] = "copy1"
      BY <2>3 DEF CallbackLock, CallbackUnlock, CallbackRelease,
                  CallbackCheckPort, CallbackGet, CallbackSend,
                  CallbackSendFails
    <3> QED
      BY <3>1
  <2> QED
    BY <1>5, <2>1, <2>2, <2>3 DEF Callback
<1> QED
  BY <1>1, <1>2, <1>3, <1>4, <1>5 DEF Next, Main

(* The inductive invariant holds in every reachable state. *)
THEOREM PairInvariant == Spec => []PairInv
<1>1. Init => PairInv
  <2>1. Init => /\ StartInv /\ BufferInv /\ BufferOwnedOnce /\ LockInv
                /\ ImageInv /\ SameCapture
    BY ThreadsAssumption, BuffersAssumption
       DEF Init, StartInv, CallbackFindsUserdata, BufferInv, BufferOwnedOnce,
           Reading, LockInv, Locked, ImageInv, SameCapture
  <2> QED
    BY <2>1, TypeOKInit DEF PairInv
<1>2. PairInv /\ [Next]_vars => PairInv'
  BY TypeOKStep, StartStep, BufferStep, LockStep, ImageStep DEF PairInv
<1> QED
  BY <1>1, <1>2, PTL DEF Spec

(* TypeOK of MipiCamera, for every instance. *)
THEOREM TypeCorrect == Spec => []TypeOK
BY PairInvariant, PTL DEF PairInv

(* get_images never returns images of two captures: the copies of          *)
(* video_buffer_callback and those of get_images exclude each other.       *)
THEOREM PairsAreOfOneCapture == Spec => []SameCapture
BY PairInvariant, PTL DEF PairInv

(* No buffer is at the port while a callback reads it, and no two callbacks *)
(* have the same buffer.                                                    *)
THEOREM BuffersAreOwnedOnce == Spec => []BufferOwnedOnce
BY PairInvariant, PTL DEF PairInv

(* The callback never runs before port->userdata is set. *)
THEOREM UserdataIsSet == Spec => []CallbackFindsUserdata
BY PairInvariant, PTL DEF PairInv, StartInv

-----------------------------------------------------------------------------
(* Only the callback that copies to image1, Deliver and GetImagesReturn    *)
(* change what the pair register, or NewerInv, look at.                    *)
LEMMA NewerStep ==
  /\ OneAtATime
  /\ PairInv /\ NewerInv /\ [Next]_vars
  => NewerInv'
<1> SUFFICES ASSUME OneAtATime, PairInv, NewerInv, [Next]_vars
             PROVE  NewerInv'
  OBVIOUS
<1> USE MaxCaptureAssumption
    DEF PairInv, TypeOK, CallbackSteps, Capture, NewerInv
(* At most one callback is between its call and its release of the buffer. *)
<1>0. \A t, u \in Threads : Reading(t) /\ Reading(u) => t = u
  BY DEF OneAtATime, BufferInv, BufferOwnedOnce
<1>1. CASE Main \/ UNCHANGED vars
  <2>1. UNCHANGED <<callback, buffer, content, image1, captures>>
    BY <1>1 DEF Main, Configure, CreatePool, EnablePort, EnableCamera,
         EnableCameraCrashes, SendToPort, SentAll, SetRotation, StartCapture, Fail, Quit,
         GetImagesLock, GetImagesCopyL, GetImagesCopyR, GetImagesReturn, vars,
         bufferVars, imageVars
  <2> QED
    BY <2>1
<1>2. ASSUME NEW t \in Threads, Deliver(t)
      PROVE  NewerInv'
  <2>1. \A u \in Threads : u # t /\ callback'[u] \in {"lock", "copy0", "copy1"}
          => /\ callback[u] \in {"lock", "copy0", "copy1"}
             /\ buffer'[u] = buffer[u]
             /\ content'[buffer[u]] = content[buffer[u]]
    BY <1>2 DEF Deliver, BufferInv, Reading
  <2>2. image1' = image1 /\ captures' = captures + 1
    BY <1>2 DEF Deliver, imageVars
  <2>3. content'[buffer'[t]] = captures + 1
    BY <1>2 DEF Deliver
  <2>4. /\ image1 < captures + 1 /\ image1' <= captures'
        /\ \A b \in Buffers : content'[b] <= captures'
    BY <1>2, <2>2 DEF Deliver
  <2> QED
    BY <2>1, <2>2, <2>3, <2>4
<1>3. ASSUME NEW t \in Threads, Callback(t)
      PROVE  NewerInv'
  <2> USE DEF Step, imageVars
  <2>1. CASE CallbackCopy1(t)
    <3>1. content[buffer[t]] \in Capture /\ content[buffer[t]] <= captures
      <4>1. buffer[t] \in Buffers
        BY <2>1 DEF CallbackCopy1, BufferInv, Reading
      <4> QED
        BY <4>1, <2>1
    <3>2. \A u \in Threads : callback'[u] \notin {"lock", "copy0", "copy1"}
      BY <2>1, <1>0 DEF CallbackCopy1, Reading
    <3> QED
      BY <2>1, <3>1, <3>2 DEF CallbackCopy1
  <2>2. CASE ~CallbackCopy1(t)
    <3>1. /\ UNCHANGED <<buffer, content, image1, captures>>
          /\ \A u \in Threads : callback'[u] \in {"lock", "copy0", "copy1"}
                => callback[u] \in {"lock", "copy0", "copy1"}
      BY <1>3, <2>2 DEF Callback, CallbackLock, CallbackCopy0, CallbackUnlock,
           CallbackRelease, CallbackCheckPort, CallbackGet, CallbackSend,
           CallbackSendFails
    <3> QED
      BY <3>1
  <2> QED
    BY <2>1, <2>2
<1> QED
  BY <1>1, <1>2, <1>3 DEF Next

(* With one callback at a time, or with the one buffer of the code, the    *)
(* camera set implements the pair register: get_images returns pairs of    *)
(* one capture, and never one older than a pair it returned before.        *)
THEOREM CameraImplementsPair ==
  ASSUME OneAtATime
  PROVE  Spec => ImplementsPair
<1> DEFINE IInv == PairInv /\ NewerInv
<1>1. Init => IInv /\ Pair!Init
  <2>1. Init => PairInv
    <3>1. Init => /\ StartInv /\ BufferInv /\ BufferOwnedOnce /\ LockInv
                  /\ ImageInv /\ SameCapture
      BY ThreadsAssumption, BuffersAssumption
         DEF Init, StartInv, CallbackFindsUserdata, BufferInv, BufferOwnedOnce,
             Reading, LockInv, Locked, ImageInv, SameCapture
    <3> QED
      BY <3>1, TypeOKInit DEF PairInv
  <2>2. Init => NewerInv
    BY DEF Init, NewerInv, NoCapture
  <2>3. Init => Pair!Init
    BY DEF Init, Pair!Init, NoCapture, Pair!NoCapture
  <2> QED
    BY <2>1, <2>2, <2>3
<1>2. IInv /\ [Next]_vars => IInv'
  BY NewerStep, TypeOKStep, StartStep, BufferStep, LockStep, ImageStep
     DEF PairInv
<1>3. IInv /\ [Next]_vars => [Pair!Next]_(Pair!vars)
  <2> SUFFICES ASSUME IInv, [Next]_vars
               PROVE  [Pair!Next]_(Pair!vars)
    OBVIOUS
  <2> USE DEF PairInv, TypeOK, Pair!vars, imageVars, readerVars
  <2>1. CASE GetImagesReturn
    <3>1. returned' = [l |-> image1, r |-> image1] /\ image1' = image1
      BY <2>1 DEF GetImagesReturn, ImageInv
    <3> QED
      BY <3>1 DEF Pair!Next, Pair!GetImages
  <2>2. ASSUME NEW t \in Threads, CallbackCopy1(t)
        PROVE  [Pair!Next]_(Pair!vars)
    <3>1. /\ image1' = content[buffer[t]] /\ returned' = returned
          /\ image1 < content[buffer[t]]
      BY <2>2 DEF CallbackCopy1, Step, NewerInv
    <3>2. content[buffer[t]] \in Capture
      BY <2>2 DEF CallbackCopy1, Step, BufferInv, Reading
    <3> QED
      BY <3>1, <3>2, MaxCaptureAssumption
         DEF Pair!Next, Pair!Publish, Pair!Capture, Capture
  <2>3. ASSUME NEW t \in Threads, Callback(t), ~CallbackCopy1(t)
        PROVE  UNCHANGED <<image1, returned>>
    BY <2>3 DEF Callback, Step, CallbackLock, CallbackCopy0, CallbackUnlock,
         CallbackRelease, CallbackCheckPort, CallbackGet, CallbackSend,
         CallbackSendFails
  <2>4. ASSUME NEW t \in Threads, Deliver(t)
        PROVE  UNCHANGED <<image1, returned>>
    BY <2>4 DEF Deliver
  <2>5. CASE (Main /\ ~GetImagesReturn) \/ UNCHANGED vars
    <3>1. UNCHANGED <<image1, returned>>
      BY <2>5 DEF Main, Configure, CreatePool, EnablePort, EnableCamera,
           EnableCameraCrashes, SendToPort, SentAll, SetRotation, StartCapture, Fail, Quit,
           GetImagesLock, GetImagesCopyL, GetImagesCopyR, vars
    <3> QED
      BY <3>1
  <2> QED
    BY <2>1, <2>2, <2>3, <2>4, <2>5 DEF Next
<1> QED
  BY <1>1, <1>2, <1>3, PTL DEF Spec, ImplementsPair, Pair!Spec
-----------------------------------------------------------------------------
(* The sets that PoolNeverEmpty and NoBufferStranded count are finite. *)
LEMMA CountsAreNat ==
  /\ IsFiniteSet(Pool) /\ Cardinality(Pool) \in Nat
  /\ IsFiniteSet(Lost) /\ Cardinality(Lost) \in Nat
  /\ IsFiniteSet(Waiting) => Cardinality(Waiting) \in Nat
<1>1. Pool \subseteq Buffers /\ Lost \subseteq Buffers
  BY DEF Pool, Lost
<1>2. IsFiniteSet(Pool) /\ IsFiniteSet(Lost)
  BY <1>1, BuffersAssumption, FS_Subset
<1> QED
  BY <1>2, FS_CardinalityType

(* Every step changes the pool and the callbacks on their way to it in the *)
(* same way: both gain one, both lose one, or the main thread takes one.   *)
LEMMA CountStep == PairInv /\ CountInv /\ [Next]_vars => CountInv'
<1> SUFFICES ASSUME PairInv, CountInv, [Next]_vars
             PROVE  CountInv'
  OBVIOUS
<1> USE DEF Starting
<1>0. /\ TypeOK /\ StartInv /\ BufferInv
      /\ Cardinality(Pool) \in Nat /\ Cardinality(Waiting) \in Nat
      /\ IsFiniteSet(Pool) /\ IsFiniteSet(Waiting)
      /\ toSend \in Nat
  <2>1. Cardinality(Buffers) \in Nat
    BY BuffersAssumption, FS_CardinalityType
  <2> QED
    BY <2>1, CountsAreNat DEF PairInv, CountInv, TypeOK
(* A step that moves no buffer to or from the pool, nor a callback to or   *)
(* from its two steps between, keeps the invariant.                        *)
<1>A. ASSUME Pool' = Pool, Waiting' = Waiting, toSend' = toSend,
             \/ main' = main
             \/ main' = "exited"
             \/ main \in Starting /\ main' \in Starting
             \/ main = "send" /\ toSend = 0 /\ main' = "rotate"
             \/ /\ main \notin Starting \cup {"send", "exited"}
                /\ main' \notin Starting \cup {"send", "exited"},
             camEnabled' = camEnabled, portEnabled => portEnabled',
             \A t \in Threads : callback'[t] # "idle" =>
                callback[t] # "idle" \/ (portEnabled /\ camEnabled)
      PROVE  CountInv'
  BY <1>0, <1>A DEF CountInv
<1>1. CASE Configure \/ EnablePort \/ SentAll \/ SetRotation \/ StartCapture
             \/ Fail \/ Quit \/ GetImagesLock \/ GetImagesCopyL
             \/ GetImagesCopyR \/ GetImagesReturn \/ UNCHANGED vars
  <2>1. UNCHANGED <<where, callback, toSend, camEnabled>>
    BY <1>1 DEF Configure, EnablePort, SentAll, SetRotation, StartCapture,
         Fail, Quit, GetImagesLock, GetImagesCopyL, GetImagesCopyR,
         GetImagesReturn, vars, mmalVars, bufferVars
  <2>2. portEnabled => portEnabled'
    BY <1>1 DEF Configure, EnablePort, SentAll, SetRotation, StartCapture,
         Fail, Quit, GetImagesLock, GetImagesCopyL, GetImagesCopyR,
         GetImagesReturn, vars, mmalVars
  <2>3. \/ main' = main
        \/ main' = "exited"
        \/ main \in Starting /\ main' \in Starting
        \/ main = "send" /\ toSend = 0 /\ main' = "rotate"
        \/ /\ main \notin Starting \cup {"send", "exited"}
           /\ main' \notin Starting \cup {"send", "exited"}
    BY <1>1 DEF Configure, EnablePort, SentAll, SetRotation, StartCapture,
         Fail, Quit, GetImagesLock, GetImagesCopyL, GetImagesCopyR,
         GetImagesReturn, vars
  <2>4. Pool' = Pool /\ Waiting' = Waiting
    BY <2>1 DEF Pool, Waiting
  <2> QED
    BY <1>A, <2>1, <2>2, <2>3, <2>4
<1>2. CASE CreatePool
  <2>1. Pool' \in {Buffers, Pool} /\ Waiting' = Waiting
    BY <1>2, <1>0 DEF CreatePool, Pool, Waiting, TypeOK
  <2>2. /\ UNCHANGED <<toSend, callback, portEnabled, camEnabled>>
        /\ main = "pool" /\ main' = "enable_port"
    BY <1>2 DEF CreatePool
  <2>3. Waiting = {} /\ toSend + 0 <= Cardinality(Buffers)
    <3>1. Waiting = {}
      BY <2>2, <1>0 DEF StartInv, Waiting
    <3> QED
      BY <3>1, <1>0, BuffersAssumption, FS_CardinalityType DEF TypeOK
  <2>4. Cardinality(Waiting) = 0
    BY <2>3, FS_EmptySet
  <2> QED
    BY <2>1, <2>2, <2>3, <2>4 DEF CountInv
<1>3. CASE EnableCamera
  <2>1. /\ UNCHANGED <<where, callback, portEnabled>>
        /\ main = "enable_camera" /\ main' = "send"
        /\ toSend' = Cardinality(Pool) /\ camEnabled' = TRUE
    BY <1>3 DEF EnableCamera, bufferVars
  <2>2. Pool' = Pool /\ Waiting' = Waiting
    BY <2>1 DEF Pool, Waiting
  <2>3. Waiting = {} /\ \A t \in Threads : callback[t] = "idle"
    BY <2>1, <1>0 DEF CountInv, Waiting
  <2>4. Cardinality(Waiting) = 0
    BY <2>3, FS_EmptySet
  <2> QED
    BY <2>1, <2>2, <2>3, <2>4, <1>0 DEF CountInv
<1>7. CASE EnableCameraCrashes
  <2>1. /\ UNCHANGED <<where, callback, toSend, portEnabled>>
        /\ main' = "exited" /\ camEnabled' = TRUE
    BY <1>7 DEF EnableCameraCrashes, bufferVars
  <2>2. Pool' = Pool /\ Waiting' = Waiting
    BY <2>1 DEF Pool, Waiting
  <2> QED
    BY <2>1, <2>2 DEF CountInv, Starting
<1>4. CASE SendToPort
  <2>1. PICK b \in Pool : where' = [where EXCEPT ![b] = "port"]
    BY <1>4 DEF SendToPort
  <2>2. /\ UNCHANGED <<callback, portEnabled, camEnabled, main>>
        /\ main = "send" /\ toSend' = toSend - 1 /\ toSend > 0
    BY <1>4 DEF SendToPort, mmalVars
  <2>3. Pool' = Pool \ {b} /\ Waiting' = Waiting
    BY <2>1, <2>2, <1>0 DEF Pool, Waiting, TypeOK
  <2>4. Cardinality(Pool') = Cardinality(Pool) - 1
    BY <2>1, <2>3, <1>0, FS_RemoveElement
  <2> QED
    BY <2>2, <2>3, <2>4, <1>0 DEF CountInv
<1>5. ASSUME NEW t \in Threads, Deliver(t)
      PROVE  CountInv'
  <2>1. /\ UNCHANGED <<toSend, main, portEnabled, camEnabled>>
        /\ portEnabled /\ camEnabled
    BY <1>5 DEF Deliver, mmalVars
  <2>2. Pool' = Pool /\ Waiting' = Waiting
    BY <1>5, <1>0 DEF Deliver, Pool, Waiting, TypeOK
  <2> QED
    BY <1>A, <2>1, <2>2
<1>6. ASSUME NEW t \in Threads, Callback(t)
      PROVE  CountInv'
  <2> USE DEF Step
  <2>1. /\ UNCHANGED <<toSend, main, portEnabled, camEnabled>>
        /\ callback[t] # "idle" /\ portEnabled /\ camEnabled
        /\ main \notin Starting
    <3>1. /\ UNCHANGED <<toSend, main, portEnabled, camEnabled>>
          /\ callback[t] # "idle"
      BY <1>6 DEF Callback, CallbackLock, CallbackCopy0, CallbackCopy1,
           CallbackUnlock, CallbackRelease, CallbackCheckPort, CallbackGet,
           CallbackSend, CallbackSendFails, mmalVars
    <3> QED
      BY <3>1 DEF CountInv
  <2>2. CASE CallbackLock(t) \/ CallbackCopy0(t) \/ CallbackCopy1(t)
               \/ CallbackUnlock(t) \/ CallbackCheckPort(t)
    <3>1. Pool' = Pool
      BY <2>2 DEF Pool, CallbackLock, CallbackCopy0, CallbackCopy1,
           CallbackUnlock, CallbackCheckPort
    <3>2. Waiting' = Waiting
      BY <2>1, <2>2, <1>0 DEF Waiting, TypeOK, CallbackLock, CallbackCopy0,
           CallbackCopy1, CallbackUnlock, CallbackCheckPort
    <3> QED
      BY <1>A, <2>1, <3>1, <3>2
  <2>3. CASE CallbackSend(t) \/ CallbackSendFails(t)
    <3>1. newBuffer[t] \in Buffers /\ where[newBuffer[t]] = "callback"
      BY <2>3, <1>0 DEF CallbackSend, CallbackSendFails, BufferInv
    <3>2. Pool' = Pool /\ Waiting' = Waiting
      BY <2>3, <3>1, <1>0 DEF Pool, Waiting, TypeOK, CallbackSend,
           CallbackSendFails
    <3> QED
      BY <1>A, <2>1, <3>2
  <2>4. CASE CallbackRelease(t)
    <3>1. buffer[t] \in Buffers /\ where[buffer[t]] = "callback"
      BY <2>4, <1>0 DEF CallbackRelease, BufferInv, Reading
    <3>2. Pool' = Pool \cup {buffer[t]} /\ buffer[t] \notin Pool
      BY <2>4, <3>1, <1>0 DEF CallbackRelease, Pool, TypeOK
    <3>3. Waiting' = Waiting \cup {t} /\ t \notin Waiting
      BY <2>4, <1>0 DEF CallbackRelease, Waiting, TypeOK
    <3>4. /\ Cardinality(Pool') = Cardinality(Pool) + 1
          /\ Cardinality(Waiting') = Cardinality(Waiting) + 1
          /\ IsFiniteSet(Waiting')
      BY <3>2, <3>3, <1>0, FS_AddElement
    <3> QED
      BY <2>1, <3>4, <1>0 DEF CountInv
  <2>5. CASE CallbackGet(t)
    <3>1. t \in Waiting
      BY <2>5 DEF CallbackGet, Waiting
    <3>2. Cardinality(Waiting) # 0
      BY <3>1, <1>0, FS_EmptySet
    <3>3. Pool # {}
      BY <3>2, <1>0, FS_EmptySet DEF CountInv
    <3>4. /\ callback[t] = "get"
          /\ callback' = [callback EXCEPT ![t] = "send"]
          /\ \E b \in Pool : where' = [where EXCEPT ![b] = "callback"]
      BY <2>5, <3>3 DEF CallbackGet
    <3>5. PICK b \in Pool : where' = [where EXCEPT ![b] = "callback"]
      BY <3>4
    <3>6. Pool' = Pool \ {b}
      BY <3>5, <1>0 DEF Pool, TypeOK
    <3>7. Waiting' = Waiting \ {t}
      BY <3>4, <1>0 DEF Waiting, TypeOK
    <3>8. /\ Cardinality(Pool') = Cardinality(Pool) - 1
          /\ Cardinality(Waiting') = Cardinality(Waiting) - 1
          /\ IsFiniteSet(Waiting')
      BY <3>1, <3>5, <3>6, <3>7, <1>0, FS_RemoveElement
    <3> QED
      BY <2>1, <3>8, <1>0 DEF CountInv
  <2> QED
    BY <1>6, <2>2, <2>3, <2>4, <2>5 DEF Callback
<1> QED
  BY <1>1, <1>2, <1>3, <1>4, <1>5, <1>6, <1>7 DEF Next, Main
(* A buffer leaves the pool and the port only into the hands of a callback, *)
(* and those only by its release, its send, or a failed send.               *)
LEMMA LossStep == PairInv /\ CountInv /\ LossInv /\ [Next]_vars => LossInv'
<1> SUFFICES ASSUME PairInv, CountInv, LossInv, [Next]_vars
             PROVE  LossInv'
  OBVIOUS
<1>0. TypeOK /\ StartInv /\ BufferInv /\ BufferOwnedOnce
  BY DEF PairInv
<1>1. CASE Configure \/ EnablePort \/ EnableCamera \/ EnableCameraCrashes
             \/ SentAll \/ SetRotation \/ StartCapture \/ Fail \/ Quit \/ GetImagesLock
             \/ GetImagesCopyL \/ GetImagesCopyR \/ GetImagesReturn
             \/ UNCHANGED vars
  <2>1. UNCHANGED <<where, callback, buffer, newBuffer, faults>>
    BY <1>1, MainFrame DEF bufferVars
  <2>2. ASSUME main \in Starting \cup {"exited"},
               NEW b \in Buffers, where[b] = "unallocated"
        PROVE  main' \in Starting \cup {"exited"}
    BY <1>1, <2>2 DEF Starting, Configure, EnablePort, EnableCamera,
         EnableCameraCrashes, SentAll, SetRotation, StartCapture, Fail, Quit, GetImagesLock, GetImagesCopyL,
         GetImagesCopyR, GetImagesReturn, vars
  <2>3. Lost' = Lost
    BY <2>1 DEF Lost
  <2> QED
    BY <2>1, <2>2, <2>3 DEF LossInv, Reading
<1>2. CASE CreatePool
  <2>1. Lost' = {} /\ Lost = {} /\ faults' = faults
    BY <1>2, <1>0 DEF CreatePool, StartInv, Lost, TypeOK
  <2>2. \A b \in Buffers : where'[b] \in {"pool", "unallocated"}
    BY <1>2, <1>0 DEF CreatePool, StartInv
  <2>3. main' \in Starting
    BY <1>2 DEF CreatePool, Starting
  <2> QED
    BY <2>1, <2>2, <2>3 DEF LossInv
<1>3. CASE SendToPort
  <2>1. PICK b \in Pool : where' = [where EXCEPT ![b] = "port"]
    BY <1>3 DEF SendToPort
  <2>2. UNCHANGED <<main, callback, buffer, newBuffer, faults>>
    BY <1>3 DEF SendToPort
  <2>3. Lost' = Lost
    BY <2>1, <1>0 DEF Lost, Pool, TypeOK
  <2> QED
    BY <2>1, <2>2, <2>3, <1>0 DEF LossInv, Reading, TypeOK
<1>4. ASSUME NEW t \in Threads, Deliver(t)
      PROVE  LossInv'
  <2>1. PICK b \in Buffers :
          /\ where[b] = "port"
          /\ where' = [where EXCEPT ![b] = "callback"]
          /\ buffer' = [buffer EXCEPT ![t] = b]
    BY <1>4 DEF Deliver
  <2>2. /\ UNCHANGED <<main, newBuffer, faults>>
        /\ callback[t] = "idle" /\ callback' = [callback EXCEPT ![t] = "lock"]
    BY <1>4 DEF Deliver
  <2>3. Lost' = Lost
    BY <2>1, <1>0 DEF Lost, TypeOK
  <2>4. Reading(t)' /\ buffer'[t] = b
    BY <2>1, <2>2, <1>0 DEF Reading, TypeOK
  <2>5. \A u \in Threads : Reading(u) => Reading(u)' /\ buffer'[u] = buffer[u]
    BY <2>1, <2>2, <1>0 DEF Reading, TypeOK
  <2> QED
    BY <2>1, <2>2, <2>3, <2>4, <2>5, <1>0 DEF LossInv, TypeOK
<1>5. ASSUME NEW t \in Threads, Callback(t)
      PROVE  LossInv'
  <2> USE DEF Step
  <2>1. main' = main /\ buffer' = buffer
    BY <1>5 DEF Callback, CallbackLock, CallbackCopy0, CallbackCopy1,
         CallbackUnlock, CallbackRelease, CallbackCheckPort, CallbackGet,
         CallbackSend, CallbackSendFails
  <2>2. CASE CallbackLock(t) \/ CallbackCopy0(t) \/ CallbackCopy1(t)
               \/ CallbackUnlock(t) \/ CallbackCheckPort(t)
    <3>1. UNCHANGED <<where, newBuffer, faults>>
      BY <2>2 DEF CallbackLock, CallbackCopy0, CallbackCopy1, CallbackUnlock,
           CallbackCheckPort
    <3>2. \A u \in Threads : Reading(u) => Reading(u)'
      BY <2>2, <1>0 DEF CallbackLock, CallbackCopy0, CallbackCopy1,
           CallbackUnlock, CallbackCheckPort, Reading, TypeOK
    <3>3. Lost' = Lost
      BY <3>1 DEF Lost
    <3> QED
      BY <2>1, <3>1, <3>2, <3>3 DEF LossInv
  <2>3. CASE CallbackRelease(t)
    <3>1. /\ buffer[t] \in Buffers /\ where[buffer[t]] = "callback"
          /\ where' = [where EXCEPT ![buffer[t]] = "pool"]
          /\ UNCHANGED <<newBuffer, faults>>
      BY <2>3, <1>0 DEF CallbackRelease, BufferInv, Reading
    <3>2. \A u \in Threads : u # t /\ Reading(u) => Reading(u)'
      BY <2>3, <1>0 DEF CallbackRelease, Reading, TypeOK
    <3>3. Lost' = Lost
      BY <3>1, <1>0 DEF Lost, TypeOK
    <3>4. \A b \in Buffers :
            /\ b # buffer[t] => where'[b] = where[b]
            /\ b = buffer[t] => where'[b] = "pool"
      BY <3>1, <1>0 DEF TypeOK
    <3> QED
      BY <2>1, <3>1, <3>2, <3>3, <3>4 DEF LossInv
  <2>4. CASE CallbackGet(t)
    <3>1. CASE Pool = {}
      <4>1. UNCHANGED <<where, newBuffer, faults>>
        BY <2>4, <3>1 DEF CallbackGet
      <4>2. \A u \in Threads : Reading(u) => Reading(u)'
        BY <2>4, <3>1, <1>0 DEF CallbackGet, Reading, TypeOK
      <4>3. Lost' = Lost
        BY <4>1 DEF Lost
      <4> QED
        BY <2>1, <4>1, <4>2, <4>3 DEF LossInv
    <3>2. CASE Pool # {}
      <4>1. /\ callback[t] = "get"
            /\ callback' = [callback EXCEPT ![t] = "send"]
            /\ faults' = faults
            /\ \E b \in Pool :
                 /\ where' = [where EXCEPT ![b] = "callback"]
                 /\ newBuffer' = [newBuffer EXCEPT ![t] = b]
        BY <2>4, <3>2 DEF CallbackGet
      <4>2. PICK b \in Pool :
              /\ where' = [where EXCEPT ![b] = "callback"]
              /\ newBuffer' = [newBuffer EXCEPT ![t] = b]
        BY <4>1
      <4>3. newBuffer[t] = NoBuffer
        BY <4>1, <1>0 DEF BufferInv
      <4>4. \A u \in Threads : Reading(u) => Reading(u)'
        BY <4>1, <1>0 DEF Reading, TypeOK
      <4>5. \A u \in Threads : newBuffer[u] \in Buffers
              => newBuffer'[u] = newBuffer[u]
        BY <4>2, <4>3, <1>0, BuffersAssumption DEF TypeOK
      <4>6. Lost' = Lost
        BY <4>2, <1>0 DEF Lost, Pool, TypeOK
      <4>7. newBuffer'[t] = b
        BY <4>2, <1>0 DEF TypeOK
      <4>8. \A c \in Buffers : c # b => where'[c] = where[c]
        BY <4>2, <1>0 DEF TypeOK
      <4>9. where'[b] = "callback"
        BY <4>2, <1>0 DEF TypeOK, Pool
      <4> QED
        BY <2>1, <4>1, <4>4, <4>5, <4>6, <4>7, <4>8, <4>9 DEF LossInv
    <3> QED
      BY <3>1, <3>2
  <2>5. CASE CallbackSend(t) \/ CallbackSendFails(t)
    <3>1. /\ newBuffer[t] \in Buffers /\ where[newBuffer[t]] = "callback"
          /\ callback[t] = "send" /\ callback' = [callback EXCEPT ![t] = "idle"]
          /\ newBuffer' = [newBuffer EXCEPT ![t] = NoBuffer]
      BY <2>5, <1>0 DEF CallbackSend, CallbackSendFails, BufferInv
    <3>2. \A u \in Threads : Reading(u) => Reading(u)'
      BY <3>1, <1>0 DEF Reading, TypeOK
    <3>3. \A u \in Threads : u # t => newBuffer'[u] = newBuffer[u]
      BY <3>1, <1>0 DEF TypeOK
    <3>4. \A c \in Buffers :
            IF c = newBuffer[t] THEN where'[c] \in {"port", "lost"}
                                ELSE where'[c] = where[c]
      BY <2>5, <1>0 DEF CallbackSend, CallbackSendFails, TypeOK
    <3>5. Cardinality(Lost') = faults'
      <4>1. CASE CallbackSend(t)
        <5>1. Lost' = Lost /\ faults' = faults
          BY <4>1, <3>1, <1>0 DEF CallbackSend, Lost, TypeOK
        <5> QED
          BY <5>1 DEF LossInv
      <4>2. CASE CallbackSendFails(t)
        <5>1. /\ Lost' = Lost \cup {newBuffer[t]} /\ newBuffer[t] \notin Lost
              /\ faults' = faults + 1
          BY <4>2, <3>1, <1>0 DEF CallbackSendFails, Lost, TypeOK
        <5> QED
          BY <5>1, CountsAreNat, FS_AddElement DEF LossInv
      <4> QED
        BY <2>5, <4>1, <4>2
    <3>6. ASSUME NEW c \in Buffers
          PROVE  /\ where'[c] = "unallocated"
                      => main' \in Starting \cup {"exited"}
                 /\ where'[c] = "callback" =>
                      \E u \in Threads :
                        (Reading(u)' /\ buffer'[u] = c) \/ newBuffer'[u] = c
      <4>1. CASE c = newBuffer[t]
        BY <4>1, <3>4
      <4>2. CASE c # newBuffer[t]
        BY <4>2, <2>1, <3>2, <3>3, <3>4 DEF LossInv
      <4> QED
        BY <4>1, <4>2
    <3> QED
      BY <3>5, <3>6 DEF LossInv
  <2> QED
    BY <1>5, <2>2, <2>3, <2>4, <2>5 DEF Callback
<1> QED
  BY <1>1, <1>2, <1>3, <1>4, <1>5 DEF Next, Main

(* The inductive invariant of the buffers holds in every reachable state,  *)
(* however many buffers the pool has and callbacks run.                    *)
THEOREM PoolInvariant == Spec => []PoolInv
<1>1. Init => CountInv /\ LossInv
  <2> SUFFICES ASSUME Init
               PROVE  CountInv /\ LossInv
    OBVIOUS
  <2>1. Pool = {} /\ Waiting = {} /\ Lost = {}
    BY DEF Init, Pool, Waiting, Lost
  <2>2. Cardinality({}) = 0 /\ IsFiniteSet({})
    BY FS_EmptySet
  <2> QED
    BY <2>1, <2>2 DEF Init, CountInv, LossInv, Starting
<1>2. CountInv /\ LossInv /\ PairInv /\ [Next]_vars => CountInv' /\ LossInv'
  BY CountStep, LossStep
<1>3. Spec => [](CountInv /\ LossInv)
  BY <1>1, <1>2, PairInvariant, PTL DEF Spec
<1> QED
  BY <1>3, PairInvariant, PTL DEF PoolInv

(* Neither the loop that first sends the buffers nor a callback that wants *)
(* one to send finds the pool empty, although they take from it            *)
(* concurrently.                                                           *)
THEOREM PoolIsNeverEmpty == Spec => []PoolNeverEmpty
<1>1. PoolInv => PoolNeverEmpty
  <2> SUFFICES ASSUME PoolInv, Pool = {},
                      \/ main = "send" /\ toSend > 0
                      \/ \E t \in Threads : callback[t] = "get"
               PROVE  FALSE
    BY DEF PoolNeverEmpty
  <2>1. toSend \in Nat /\ Cardinality(Waiting) \in Nat /\ IsFiniteSet(Waiting)
    <3>1. Cardinality(Buffers) \in Nat
      BY BuffersAssumption, FS_CardinalityType
    <3> QED
      BY <3>1, CountsAreNat DEF PoolInv, PairInv, CountInv, TypeOK
  <2>2. Cardinality(Pool) = 0
    BY FS_EmptySet
  <2>3. toSend = 0 /\ Cardinality(Waiting) = 0
    BY <2>1, <2>2 DEF PoolInv, CountInv
  <2>4. Waiting = {}
    BY <2>1, <2>3, FS_EmptySet
  <2> QED
    BY <2>3, <2>4 DEF Waiting
<1> QED
  BY <1>1, PoolInvariant, PTL

(* The capture loses no buffer but those whose send failed: between two    *)
(* callbacks all the others wait at the port for the camera.               *)
THEOREM NoBufferIsStranded == Spec => []NoBufferStranded
<1>1. PoolInv => NoBufferStranded
  <2> DEFINE Port == {b \in Buffers : where[b] = "port"}
  <2> SUFFICES ASSUME PoolInv,
                      main \notin Starting \cup {"send", "exited"},
                      \A t \in Threads : callback[t] = "idle"
               PROVE  Cardinality(Port) = Cardinality(Buffers) - faults
    BY DEF NoBufferStranded, Starting
  <2>1. Waiting = {} /\ toSend = 0
    BY DEF Waiting, PoolInv, CountInv
  <2>2. Cardinality(Pool) = 0
    BY <2>1, FS_EmptySet DEF PoolInv, CountInv
  <2>3. Pool = {}
    BY <2>2, CountsAreNat, FS_EmptySet
  <2>4. \A b \in Buffers : where[b] # "callback" /\ where[b] # "unallocated"
    <3>1. \A t \in Threads : ~Reading(t) /\ newBuffer[t] = NoBuffer
      BY DEF PoolInv, PairInv, BufferInv, Reading
    <3> QED
      BY <3>1, BuffersAssumption DEF PoolInv, LossInv, Starting
  <2>5. Port = Buffers \ Lost
    BY <2>3, <2>4 DEF Pool, Lost, PoolInv, PairInv, TypeOK
  <2>6. Buffers \cap Lost = Lost
    BY DEF Lost
  <2>7. Cardinality(Port) = Cardinality(Buffers) - Cardinality(Lost)
    BY <2>5, <2>6, BuffersAssumption, FS_Difference
  <2> QED
    BY <2>7 DEF PoolInv, LossInv
<1> QED
  BY <1>1, PoolInvariant, PTL
=============================================================================
