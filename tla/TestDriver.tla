----------------------------- MODULE TestDriver -----------------------------
(***************************************************************************)
(* The program (test_driver.cpp main): it starts the camera set, sets up   *)
(* the object detector (MobileDetCoral), the undistortion maps             *)
(* (StereoUndistort) and the stereo matcher, and then loops: get a pair of *)
(* images, evaluate the left one, draw the detected objects on it,         *)
(* undistort both, match them and show the disparity, wait for a key.      *)
(*                                                                         *)
(* This module composes MipiCamera, whose main thread is this loop, with   *)
(* the detector and the undistortion.  The results of mobiledet.setup,     *)
(* setup_stereo_undistort and mobiledet.evaluate are ignored by main: what *)
(* the components hold after a failure is what the loop works with.        *)
(*                                                                         *)
(* An image is the number of its capture, a set of detected objects the    *)
(* set of captures they were detected in.  A thrown cv::Exception, which   *)
(* nothing catches, and a null dereference end the process.                *)
(***************************************************************************)
EXTENDS MipiCamera

VARIABLES
  stage,             \* where main() is, outside the camera set
  detector,          \* what mobiledet.setup has left behind
  maps,              \* the maps L1, L2, R1 and R2
  detected_objects,  \* mobiledet.detected_objects
  failed,            \* evaluate returned 1 in this pass (main ignores it)
  drawn,             \* [frame, objects]: what the "mobiledet" window shows
  disparity          \* [l, r]: what the "disparity" window was matched from

shownVars == <<drawn, disparity>>
detectorVars == <<detector, detected_objects, failed>>
loopVars == <<stage, maps, detectorVars, shownVars>>
driverVars == <<vars, loopVars>>

Stages == {"cameras", "detector", "maps", "get", "evaluate", "draw",
           "undistort", "match", "key", "ended"}

DriverInit ==
  /\ Init
  /\ stage = "cameras"
  /\ detector = "none"
  /\ maps = [i \in 1 .. 4 |-> "empty"]
  /\ detected_objects = {} /\ failed = FALSE
  /\ drawn = [frame |-> NoCapture, objects |-> {}]
  /\ disparity = [l |-> NoCapture, r |-> NoCapture]

(* initialize_cameras and start_capture, step by step in MipiCamera.  Only *)
(* their failure makes main() return; without a pool the process dies.     *)
StartCameras ==
  /\ stage = "cameras"
  /\ \/ /\ \/ Configure \/ CreatePool \/ EnablePort \/ EnableCamera
           \/ SendToPort \/ SentAll \/ SetRotation
        /\ UNCHANGED stage
     \/ (Fail \/ EnableCameraCrashes) /\ stage' = "ended"
     \/ StartCapture /\ stage' = "detector"
  /\ UNCHANGED <<maps, detectorVars, shownVars>>

(* MobileDetCoral::setup.  It fails before the interpreter is created (no  *)
(* device, no model), or with an interpreter but without the input size    *)
(* (no delegate in four tries, no tensors, wrong tensors), or not at all.  *)
SetupDetector ==
  /\ stage = "detector"
  /\ detector' \in {"none", "no_input_size", "ready"}
  /\ stage' = "maps"
  /\ UNCHANGED <<vars, maps, detected_objects, failed, shownVars>>

(* Mutant of LoadMap: the map is set before the result is looked at. *)
LoadMap_CopiesFirst ==
  /\ stage = "maps"
  /\ \E i \in 1 .. 4 :
       /\ maps[i] = "empty" /\ \A j \in 1 .. i - 1 : maps[j] # "empty"
       /\ \/ /\ maps' = [maps EXCEPT ![i] = "read"]
             /\ stage' = IF i = 4 THEN "get" ELSE "maps"
          \/ /\ maps' = [maps EXCEPT ![i] = "zeros"]
             /\ stage' = "get"
  /\ UNCHANGED <<vars, detectorVars, shownVars>>

(* setup_stereo_undistort reads the files of L1, L2, R1 and R2 in turn,    *)
(* each into a matrix of zeros that becomes the map when the file had the  *)
(* right length and was read; otherwise it returns, and main goes on.      *)
LoadMap ==
  /\ stage = "maps"
  /\ \E i \in 1 .. 4 :
       /\ maps[i] = "empty" /\ \A j \in 1 .. i - 1 : maps[j] # "empty"
       /\ \/ /\ maps' = [maps EXCEPT ![i] = "read"]
             /\ stage' = IF i = 4 THEN "get" ELSE "maps"
          \/ stage' = "get" /\ UNCHANGED maps
  /\ UNCHANGED <<vars, detectorVars, shownVars>>

-----------------------------------------------------------------------------
(* The loop. *)

LoopGetImages ==
  /\ stage = "get"
  /\ \/ GetImagesLock /\ UNCHANGED stage
     \/ (GetImagesCopyL \/ GetImagesCopyR) /\ UNCHANGED stage
     \/ GetImagesReturn /\ stage' = "evaluate"
  /\ UNCHANGED <<maps, detectorVars, shownVars>>

(* The process ends, and its threads with it. *)
Crash == Quit /\ stage' = "ended" /\ UNCHANGED <<maps, detectorVars, shownVars>>

(* Mutants of Evaluate: the objects are those of the next image, as if the *)
(* interpreter ran beside the camera threads; the old ones are kept.       *)
Evaluate_NextImage ==
  /\ stage = "evaluate" /\ detector # "none"
  /\ detected_objects' \in {{}, {img.l + 1}}
  /\ failed' = FALSE
  /\ stage' = "draw"
  /\ UNCHANGED <<vars, detector, maps, shownVars>>

Evaluate_KeepsOld ==
  /\ stage = "evaluate" /\ detector # "none"
  /\ detected_objects' \in {detected_objects, detected_objects \cup {img.l}}
  /\ failed' = FALSE
  /\ stage' = "draw"
  /\ UNCHANGED <<vars, detector, maps, shownVars>>

(* evaluate and evaluate_direct: the interpreter runs on a copy of the     *)
(* left image, and the objects it finds, if any, replace the old ones.     *)
(* With an input size that setup never set it may still come this far.     *)
Evaluate ==
  /\ stage = "evaluate" /\ detector # "none"
  /\ detected_objects' \in {{}, {img.l}}
  /\ failed' = FALSE
  /\ stage' = "draw"
  /\ UNCHANGED <<vars, detector, maps, shownVars>>

(* Invoke fails: evaluate returns 1 with the old objects in place. *)
EvaluateFails ==
  /\ stage = "evaluate" /\ detector # "none"
  /\ failed' = TRUE
  /\ stage' = "draw"
  /\ UNCHANGED <<vars, detector, detected_objects, maps, shownVars>>

(* There is no interpreter to copy the image into, or the resize to a size *)
(* that was never set throws.                                              *)
EvaluateCrashes == stage = "evaluate" /\ detector # "ready" /\ Crash

(* draw_detected_objects on a copy of the left image, and imshow. *)
Draw ==
  /\ stage = "draw"
  /\ drawn' = [frame |-> img.l, objects |-> detected_objects]
  /\ stage' = "undistort"
  /\ UNCHANGED <<vars, maps, detectorVars, disparity>>

(* remap of the left and then of the right image; it throws on a map that  *)
(* is empty.                                                               *)
Undistort ==
  /\ stage = "undistort"
  /\ \A i \in 1 .. 4 : maps[i] # "empty"
  /\ stage' = "match"
  /\ UNCHANGED <<vars, maps, detectorVars, shownVars>>

UndistortThrows ==
  /\ stage = "undistort"
  /\ \E i \in 1 .. 4 : maps[i] = "empty"
  /\ Crash

(* stereo_match, the conversion to 8 bits and imshow. *)
Match ==
  /\ stage = "match"
  /\ disparity' = img
  /\ stage' = "key"
  /\ UNCHANGED <<vars, maps, detectorVars, drawn>>

(* waitKey(10): Escape ends the loop and the process. *)
WaitKey ==
  /\ stage = "key"
  /\ stage' = "get"
  /\ UNCHANGED <<vars, maps, detectorVars, shownVars>>

Escape == stage = "key" /\ Crash

Loop ==
  \/ Evaluate \/ EvaluateFails \/ EvaluateCrashes \/ Draw
  \/ Undistort \/ UndistortThrows \/ Match \/ WaitKey

(* The threads of the camera set. *)
CameraThreads ==
  /\ \E t \in Threads : Deliver(t) \/ Callback(t)
  /\ UNCHANGED loopVars

DriverNext ==
  \/ StartCameras \/ SetupDetector \/ LoadMap
  \/ LoopGetImages \/ Loop \/ Escape
  \/ CameraThreads

DriverSpec == DriverInit /\ [][DriverNext]_driverVars

(* The main thread runs, and so do the threads of the camera set.  Either  *)
(* side gets the mutex in the end: a callback holds it for two copies out   *)
(* of a frame time, and a pass of the loop leaves it free for an           *)
(* inference, a stereo match and waitKey(10).                              *)
DriverFairness ==
  /\ WF_driverVars(SetupDetector \/ LoadMap) /\ WF_driverVars(Loop)
  /\ SF_driverVars(LoopGetImages)
  /\ \A t \in Threads :
       /\ WF_driverVars(Deliver(t) /\ UNCHANGED loopVars)
       /\ SF_driverVars(CallbackLock(t) /\ UNCHANGED loopVars)
       /\ WF_driverVars(callback[t] # "lock" /\ Callback(t) /\ UNCHANGED loopVars)

DriverFairSpec == DriverSpec /\ DriverFairness

-----------------------------------------------------------------------------
(* The variables of the main loop hold values of their types.              *)
(* (mobiledet.h 36-62, stereo_matching.h 20-40, test_driver.cpp 108-115)   *)
DriverTypeOK ==
  /\ stage \in Stages
  /\ detector \in {"none", "no_input_size", "ready"}
  /\ maps \in [1 .. 4 -> {"empty", "zeros", "read"}]
  /\ detected_objects \subseteq Capture
  /\ failed \in BOOLEAN
  /\ drawn \in [frame : Capture, objects : SUBSET Capture]
  /\ disparity \in [l : Capture, r : Capture]

(* At the end of a pass the objects drawn on the left image were detected  *)
(* in this image, and the disparity was matched from the two images of the *)
(* same capture, whatever the camera threads did during the pass.  Only    *)
(* when the inference of the pass failed are older objects drawn: main     *)
(* ignores the result of evaluate (test_driver.cpp 126-167).               *)
OneFrameShown ==
  stage = "key" =>
    /\ disparity = [l |-> drawn.frame, r |-> drawn.frame]
    /\ \A c \in drawn.objects :
         c <= drawn.frame /\ (~failed => c = drawn.frame)

(* No disparity is ever shown that was computed with a map that is not the *)
(* calibration's: main ignores that a file is missing or short (line 89),  *)
(* and only the order of the steps of setup_stereo_undistort makes the     *)
(* program end instead of showing one.  (stereo_matching.cpp 76-122)       *)
OnlyCalibratedDisparity ==
  stage = "key" => \A i \in 1 .. 4 : maps[i] = "read"

(* The inductive invariant behind the three: where main() is and where it  *)
(* is in the camera set go together; a map is never set to what was not    *)
(* read; and during a pass the images of the caller of get_images stay     *)
(* those of one capture, no older than any detected object.                *)
StageInv ==
  /\ stage = "cameras" =>
       main \notin {"running", "copy_l", "copy_r", "unlock", "exited"}
  /\ stage = "get" => main \in {"running", "copy_l", "copy_r", "unlock"}
  /\ stage \in {"detector", "maps", "evaluate", "draw", "undistort", "match",
                "key"} => main = "running"
  /\ stage = "ended" => main = "exited"

MapInv ==
  /\ \A i \in 1 .. 4 : maps[i] # "zeros"
  /\ stage \in {"match", "key"} => \A i \in 1 .. 4 : maps[i] = "read"

LoopInv == DriverTypeOK /\ StageInv /\ MapInv

ShownInv ==
  /\ main \notin {"copy_r", "unlock"} => img = returned
  /\ img.l <= image1
  /\ \A c \in detected_objects : c <= img.l
  /\ stage \in {"draw", "undistort", "match", "key"} /\ ~failed
       => \A c \in detected_objects : c = img.l
  /\ stage \in {"undistort", "match", "key"}
       => drawn = [frame |-> img.l, objects |-> detected_objects]
  /\ stage = "key" => disparity = img

DriverInv == LoopInv /\ ShownInv

(* End to end: while the program runs and no buffer was lost, the last     *)
(* pair the sensor delivers is matched and its disparity stays on the      *)
(* screen.  (camera_mipi.cpp 70-125, test_driver.cpp 123-175)              *)
LastCaptureShown ==
  [](stage # "ended" /\ faults = 0) /\ <>(stage = "get")
    => <>[](disparity = [l |-> MaxCapture, r |-> MaxCapture])
=============================================================================
