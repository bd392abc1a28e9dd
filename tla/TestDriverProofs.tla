-------------------------- MODULE TestDriverProofs --------------------------
(***************************************************************************)
(* Theorems about TestDriver: its main loop is a client of the camera set  *)
(* that takes only the camera set's steps, and what it shows is of one     *)
(* capture and matched with the calibration's maps.                        *)
(***************************************************************************)
EXTENDS TestDriver, MipiCameraProofs

(* The main loop calls the camera set as MipiCamera's main thread does. *)
LEMMA DriverStepIsStep == [DriverNext]_driverVars => [Next]_vars
<1> SUFFICES ASSUME [DriverNext]_driverVars
             PROVE  [Next]_vars
  OBVIOUS
<1>1. CASE StartCameras
  BY <1>1 DEF StartCameras, Next, Main
<1>2. CASE SetupDetector \/ LoadMap
  BY <1>2 DEF SetupDetector, LoadMap
<1>3. CASE LoopGetImages
  BY <1>3 DEF LoopGetImages, Next, Main
<1>4. CASE Loop \/ Escape
  BY <1>4 DEF Loop, Escape, Evaluate, EvaluateFails, EvaluateCrashes, Draw,
       Undistort, UndistortThrows, Match, WaitKey, Crash, Next, Main
<1>5. CASE CameraThreads
  BY <1>5 DEF CameraThreads, Next
<1>6. CASE UNCHANGED driverVars
  BY <1>6 DEF driverVars
<1> QED
  BY <1>1, <1>2, <1>3, <1>4, <1>5, <1>6 DEF DriverNext

(* The program is an implementation of the camera set's specification: the *)
(* detector and the undistortion never disturb it, and what is proved of   *)
(* the camera set holds in the program.                                    *)
THEOREM DriverImplementsCamera == DriverSpec => Spec
BY DriverStepIsStep, PTL DEF DriverSpec, DriverInit, Spec

(* The inductive invariants of the camera set, in the program. *)
THEOREM DriverCameraInvariant == DriverSpec => []PairInv /\ []PoolInv
BY DriverImplementsCamera, PairInvariant, PoolInvariant, PTL

(* The pairs main() gets are of one capture and never go back: the program *)
(* too implements the pair register, with the one buffer of the code.      *)
THEOREM DriverImplementsPair ==
  ASSUME OneAtATime
  PROVE  DriverSpec => ImplementsPair
BY DriverImplementsCamera, CameraImplementsPair, PTL

-----------------------------------------------------------------------------
LEMMA DriverTypeStep ==
  TypeOK /\ TypeOK' /\ DriverTypeOK /\ [DriverNext]_driverVars => DriverTypeOK'
<1> SUFFICES ASSUME TypeOK, TypeOK', DriverTypeOK, [DriverNext]_driverVars
             PROVE  DriverTypeOK'
  OBVIOUS
<1> USE DEF DriverTypeOK, Stages, loopVars, detectorVars, shownVars
<1>0. img \in [l : Capture, r : Capture] /\ img.l \in Capture
  BY DEF TypeOK
<1>1. CASE StartCameras
  BY <1>1 DEF StartCameras
<1>2. CASE SetupDetector \/ LoadMap
  <2>1. CASE SetupDetector
    BY <2>1 DEF SetupDetector
  <2>2. CASE LoadMap
    <3>1. maps' \in [1 .. 4 -> {"empty", "zeros", "read"}]
      BY <2>2 DEF LoadMap
    <3>2. stage' \in {"get", "maps"}
      BY <2>2 DEF LoadMap
    <3> QED
      BY <2>2, <3>1, <3>2 DEF LoadMap
  <2> QED
    BY <1>2, <2>1, <2>2
<1>3. CASE LoopGetImages
  BY <1>3 DEF LoopGetImages
<1>4. CASE Loop \/ Escape
  <2>1. CASE Evaluate \/ EvaluateFails \/ EvaluateCrashes
    <3>1. detected_objects' \subseteq Capture
      BY <2>1, <1>0 DEF Evaluate, EvaluateFails, EvaluateCrashes, Crash
    <3> QED
      BY <2>1, <3>1 DEF Evaluate, EvaluateFails, EvaluateCrashes, Crash
  <2>2. CASE Draw
    <3>1. drawn' \in [frame : Capture, objects : SUBSET Capture]
      BY <2>2, <1>0 DEF Draw
    <3> QED
      BY <2>2, <3>1 DEF Draw
  <2>3. CASE Undistort \/ UndistortThrows \/ Match \/ WaitKey \/ Escape
    BY <2>3, <1>0 DEF Undistort, UndistortThrows, Match, WaitKey, Escape, Crash
  <2> QED
    BY <1>4, <2>1, <2>2, <2>3 DEF Loop
<1>5. CASE CameraThreads \/ UNCHANGED driverVars
  BY <1>5 DEF CameraThreads, driverVars
<1> QED
  BY <1>1, <1>2, <1>3, <1>4, <1>5 DEF DriverNext

(* Where main() is, and what its maps are. *)
LEMMA LoopStep ==
  /\ DriverTypeOK /\ StageInv /\ MapInv /\ [DriverNext]_driverVars
  => StageInv' /\ MapInv'
<1> SUFFICES ASSUME DriverTypeOK, StageInv, MapInv, [DriverNext]_driverVars
             PROVE  StageInv' /\ MapInv'
  OBVIOUS
<1> USE DEF DriverTypeOK, Stages, StageInv, MapInv, loopVars, detectorVars,
            shownVars
<1>1. CASE StartCameras
  BY <1>1 DEF StartCameras, Configure, CreatePool, EnablePort, EnableCamera,
       EnableCameraCrashes, SendToPort, SentAll, SetRotation, Fail, StartCapture
<1>2. CASE SetupDetector
  BY <1>2 DEF SetupDetector, vars
<1>3. CASE LoadMap
  <2>1. main' = main /\ stage = "maps" /\ stage' \in {"maps", "get"}
    BY <1>3 DEF LoadMap, vars
  <2>2. \A i \in 1 .. 4 : maps'[i] # "zeros"
    BY <1>3 DEF LoadMap
  <2> QED
    BY <2>1, <2>2
<1>4. CASE LoopGetImages
  BY <1>4 DEF LoopGetImages, GetImagesLock, GetImagesCopyL, GetImagesCopyR,
       GetImagesReturn
<1>5. CASE Evaluate \/ EvaluateFails \/ Draw \/ Match \/ WaitKey
  BY <1>5 DEF Evaluate, EvaluateFails, Draw, Match, WaitKey, vars
<1>6. CASE Undistort
  BY <1>6 DEF Undistort, vars
<1>7. CASE EvaluateCrashes \/ UndistortThrows \/ Escape
  BY <1>7 DEF EvaluateCrashes, UndistortThrows, Escape, Crash, Quit
<1>8. CASE CameraThreads
  <2>1. main' = main
    BY <1>8 DEF CameraThreads, Deliver, Callback, Step, CallbackLock,
         CallbackCopy0, CallbackCopy1, CallbackUnlock, CallbackRelease,
         CallbackCheckPort, CallbackGet, CallbackSend, CallbackSendFails
  <2> QED
    BY <1>8, <2>1 DEF CameraThreads
<1>9. CASE UNCHANGED driverVars
  BY <1>9 DEF driverVars, vars
<1> QED
  BY <1>1, <1>2, <1>3, <1>4, <1>5, <1>6, <1>7, <1>8, <1>9
     DEF DriverNext, Loop

(* The types of the main loop's variables, its stages and its maps. *)
THEOREM LoopInvariant == DriverSpec => []LoopInv
<1>1. DriverInit => LoopInv
  <2>1. NoCapture \in Capture
    BY MaxCaptureAssumption DEF Capture, NoCapture
  <2>2. DriverInit => /\ drawn \in [frame : Capture, objects : SUBSET Capture]
                      /\ disparity \in [l : Capture, r : Capture]
    BY <2>1 DEF DriverInit
  <2>3. DriverInit => maps \in [1 .. 4 -> {"empty", "zeros", "read"}]
    BY DEF DriverInit
  <2>4. DriverInit => /\ stage \in Stages
                      /\ detector \in {"none", "no_input_size", "ready"}
                      /\ detected_objects \subseteq Capture
                      /\ failed \in BOOLEAN
    BY DEF DriverInit, Stages
  <2>5. DriverInit => StageInv /\ MapInv
    BY DEF DriverInit, Init, StageInv, MapInv
  <2> QED
    BY <2>2, <2>3, <2>4, <2>5 DEF LoopInv, DriverTypeOK
<1>2. TypeOK /\ TypeOK' /\ LoopInv /\ [DriverNext]_driverVars => LoopInv'
  BY DriverTypeStep, LoopStep DEF LoopInv
<1>3. DriverSpec => []TypeOK
  BY DriverImplementsCamera, TypeCorrect, PTL
<1> QED
  BY <1>1, <1>2, <1>3, PTL DEF DriverSpec

(* No disparity is shown that was matched with a map which is not the      *)
(* calibration's, although main() ignores the result of                    *)
(* setup_stereo_undistort.                                                 *)
THEOREM DisparityIsCalibrated == DriverSpec => []OnlyCalibratedDisparity
<1>1. LoopInv => OnlyCalibratedDisparity
  BY DEF LoopInv, MapInv, OnlyCalibratedDisparity
<1> QED
  BY <1>1, LoopInvariant, PTL

-----------------------------------------------------------------------------
(* The images of the caller of get_images, and what was made of them.  A   *)
(* step of the camera threads only makes the published image newer.        *)
LEMMA ShownStep ==
  /\ PairInv /\ NewerInv /\ LoopInv /\ ShownInv /\ [DriverNext]_driverVars
  => ShownInv'
<1> SUFFICES ASSUME PairInv, NewerInv, LoopInv, ShownInv,
                    [DriverNext]_driverVars
             PROVE  ShownInv'
  OBVIOUS
<1> USE DEF ShownInv, loopVars, detectorVars, shownVars
<1>0. /\ img \in [l : Capture, r : Capture] /\ img.l \in Nat
      /\ image1 \in Nat /\ StageInv /\ ImageInv
      /\ \A c \in detected_objects : c \in Nat
  BY MaxCaptureAssumption
     DEF PairInv, TypeOK, LoopInv, DriverTypeOK, Capture
<1>1. CASE StartCameras
  <2>1. /\ stage = "cameras"
        /\ UNCHANGED <<detected_objects, drawn, disparity, img, returned,
                       image1>>
    BY <1>1 DEF StartCameras, Configure, CreatePool, EnablePort, EnableCamera,
         EnableCameraCrashes, SendToPort, SentAll, SetRotation, Fail,
         StartCapture, imageVars, readerVars
  <2>2. /\ main \notin {"copy_r", "unlock"}
        /\ stage' \in {"cameras", "ended", "detector"}
    BY <1>0, <1>1, <2>1 DEF StageInv, StartCameras
  <2> QED
    BY <2>1, <2>2
<1>2. CASE SetupDetector \/ LoadMap
  <2>1. /\ stage' \in {"maps", "get"}
        /\ UNCHANGED <<main, detected_objects, failed, drawn, disparity, img,
                       returned, image1>>
    BY <1>2 DEF SetupDetector, LoadMap, vars, imageVars, readerVars
  <2> QED
    BY <2>1
<1>3. CASE LoopGetImages
  <2>1. /\ stage = "get" /\ stage' \in {"get", "evaluate"}
        /\ UNCHANGED <<detected_objects, failed, drawn, disparity, image1>>
    BY <1>3 DEF LoopGetImages, GetImagesLock, GetImagesCopyL, GetImagesCopyR,
         GetImagesReturn, imageVars
  <2>2. CASE GetImagesCopyL
    <3>1. \A t \in Threads : callback[t] # "copy1"
      BY <2>2, ThreadsAssumption
         DEF GetImagesCopyL, PairInv, LockInv, Locked
    <3>2. image0 = image1
      BY <3>1, <1>0 DEF ImageInv
    <3>3. img'.l = image1 /\ main' = "copy_r"
      BY <2>2, <3>2, <1>0 DEF GetImagesCopyL
    <3> QED
      BY <2>1, <3>3, <1>0
  <2>3. CASE ~GetImagesCopyL
    <3>1. img'.l = img.l
      BY <1>3, <2>3, <1>0 DEF LoopGetImages, GetImagesLock, GetImagesCopyR,
           GetImagesReturn, readerVars
    <3>2. main' \notin {"copy_r", "unlock"} => img' = returned'
      BY <1>3, <2>3 DEF LoopGetImages, GetImagesLock, GetImagesCopyR,
           GetImagesReturn, readerVars
    <3> QED
      BY <2>1, <3>1, <3>2
  <2> QED
    BY <2>2, <2>3
<1>4. CASE Loop \/ Escape
  <2>1. UNCHANGED <<img, returned, image1>>
    BY <1>4 DEF Loop, Escape, Evaluate, EvaluateFails, EvaluateCrashes, Draw,
         Undistort, UndistortThrows, Match, WaitKey, Crash, Quit, vars,
         imageVars, readerVars
  <2>2. main = "running" /\ main' \in {"running", "exited"}
    BY <1>4, <1>0 DEF StageInv, Loop, Escape, Evaluate, EvaluateFails,
         EvaluateCrashes, Draw, Undistort, UndistortThrows, Match, WaitKey,
         Crash, Quit, vars
  <2>3. CASE Evaluate
    BY <2>1, <2>2, <2>3, <1>0 DEF Evaluate
  <2>4. CASE EvaluateFails
    BY <2>1, <2>2, <2>4 DEF EvaluateFails
  <2>5. CASE Draw
    BY <2>1, <2>2, <2>5 DEF Draw
  <2>6. CASE Undistort \/ Match \/ WaitKey
    BY <2>1, <2>2, <2>6 DEF Undistort, Match, WaitKey
  <2>7. CASE EvaluateCrashes \/ UndistortThrows \/ Escape
    BY <2>1, <2>2, <2>7 DEF EvaluateCrashes, UndistortThrows, Escape, Crash
  <2> QED
    BY <1>4, <2>3, <2>4, <2>5, <2>6, <2>7 DEF Loop
<1>5. CASE CameraThreads
  <2>1. PICK t \in Threads : Deliver(t) \/ Callback(t)
    BY <1>5 DEF CameraThreads
  <2>2. UNCHANGED <<main, img, returned>>
    BY <2>1 DEF Deliver, Callback, Step, CallbackLock, CallbackCopy0,
         CallbackCopy1, CallbackUnlock, CallbackRelease, CallbackCheckPort,
         CallbackGet, CallbackSend, CallbackSendFails, readerVars
  <2>3. image1' >= image1 /\ image1' \in Nat
    <3>1. CASE CallbackCopy1(t)
      <4>1. image1' = content[buffer[t]] /\ image1 < content[buffer[t]]
        BY <3>1 DEF CallbackCopy1, Step, NewerInv
      <4>2. content[buffer[t]] \in Capture
        BY <3>1 DEF CallbackCopy1, Step, PairInv, TypeOK, BufferInv, Reading
      <4> QED
        BY <4>1, <4>2, <1>0, MaxCaptureAssumption DEF Capture
    <3>2. CASE ~CallbackCopy1(t)
      <4>1. image1' = image1
        BY <2>1, <3>2 DEF Deliver, Callback, Step, CallbackLock,
             CallbackCopy0, CallbackUnlock, CallbackRelease,
             CallbackCheckPort, CallbackGet, CallbackSend, CallbackSendFails,
             imageVars
      <4> QED
        BY <4>1, <1>0
    <3> QED
      BY <3>1, <3>2
  <2>4. /\ UNCHANGED <<stage, detected_objects, failed, drawn, disparity>>
        /\ img'.l <= image1'
    BY <1>5, <2>2, <2>3, <1>0 DEF CameraThreads
  <2> QED
    BY <2>2, <2>4
<1>6. CASE UNCHANGED driverVars
  BY <1>6 DEF driverVars, vars, imageVars, readerVars
<1> QED
  BY <1>1, <1>2, <1>3, <1>4, <1>5, <1>6 DEF DriverNext

(* The inductive invariant of the main loop. *)
THEOREM DriverInvariant ==
  ASSUME OneAtATime
  PROVE  DriverSpec => []DriverInv
<1>1. DriverInit => ShownInv /\ NewerInv
  BY MaxCaptureAssumption
     DEF DriverInit, Init, ShownInv, NewerInv, NoCapture, Capture
<1>2. /\ PairInv /\ LoopInv /\ NewerInv /\ ShownInv
      /\ [DriverNext]_driverVars
      => NewerInv' /\ ShownInv'
  BY OneAtATime, NewerStep, ShownStep, DriverStepIsStep
<1>3. DriverSpec => [](NewerInv /\ ShownInv)
  BY <1>1, <1>2, DriverCameraInvariant, LoopInvariant, PTL DEF DriverSpec
<1> QED
  BY <1>3, LoopInvariant, PTL DEF DriverInv

(* At the end of a pass the objects drawn on the left image are its own,   *)
(* unless the inference of the pass failed, and the disparity was matched  *)
(* from the two images of the same capture: the camera threads never       *)
(* change an image main() is working on.                                   *)
THEOREM OneFrameIsShown ==
  ASSUME OneAtATime
  PROVE  DriverSpec => []OneFrameShown
<1>1. DriverInv /\ PairInv => OneFrameShown
  <2> SUFFICES ASSUME DriverInv, PairInv, stage = "key"
               PROVE  /\ disparity = [l |-> drawn.frame, r |-> drawn.frame]
                      /\ \A c \in drawn.objects :
                           c <= drawn.frame /\ (~failed => c = drawn.frame)
    BY DEF OneFrameShown
  <2> USE DEF DriverInv, LoopInv, ShownInv
  <2>1. main = "running" /\ img = returned /\ disparity = img
    BY DEF StageInv
  <2>2. img.l = img.r /\ img \in [l : Capture, r : Capture]
    BY <2>1 DEF PairInv, SameCapture, TypeOK
  <2>3. drawn.frame = img.l /\ drawn.objects = detected_objects
    OBVIOUS
  <2> QED
    BY <2>1, <2>2, <2>3
<1> QED
  BY <1>1, DriverInvariant, DriverCameraInvariant, OneAtATime, PTL
=============================================================================
