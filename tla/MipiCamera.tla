----------------------------- MODULE MipiCamera -----------------------------
(***************************************************************************)
(* StereoMipiCameraSet (camera_mipi.cpp): two cameras of the Compute       *)
(* Module driven through MMAL.  One top-bottom frame holds both images.    *)
(* Three activities run concurrently:                                      *)
(*   - MMAL fills a buffer that waits at the splitter's output port and    *)
(*     calls video_buffer_callback with it, on a thread of its own;        *)
(*   - the callback copies the two halves out under the mutex, gives the   *)
(*     buffer back to the pool and sends one from the pool to the port;    *)
(*   - the main thread initialises and starts the cameras, and then calls  *)
(*     get_images, which copies both images under the same mutex.          *)
(*                                                                         *)
(* A buffer holds the number of the capture in it; a memcpy of an image is *)
(* one step.  Left out: the frame rate statistics (lines 96-109) and the   *)
(* formats and sizes the ports are given.                                  *)
(***************************************************************************)
EXTENDS Naturals, FiniteSets

CONSTANTS
  Buffers,       \* the buffers of the pool; the code asks for one (line 265)
  MaxCapture,    \* bound on the number of captures the sensor delivers
  Threads,       \* the callbacks that may run at a time: one, unless MMAL
                 \* calls the callback while it runs (TODO, line 87)
  MaxFaults      \* bound on failed mmal_port_send_buffer calls in callbacks

NoBuffer == "none"

ASSUME BuffersAssumption == IsFiniteSet(Buffers) /\ NoBuffer \notin Buffers
ASSUME MaxCaptureAssumption == MaxCapture \in Nat
ASSUME ThreadsAssumption == Threads \cap {"free", "main"} = {}
ASSUME MaxFaultsAssumption == MaxFaults \in Nat

VARIABLES
  main,         \* where the main thread is
  toSend,       \* buffers initialize_cameras still has to send (num - q)
  portEnabled,  \* splitter_output_port->is_enabled, its callback installed
  camEnabled,   \* the camera component runs
  userdata,     \* port->userdata and its pool are set
  where,        \* where each buffer is
  content,      \* the capture each buffer holds
  callback,     \* the progress of each call of video_buffer_callback
  buffer,       \* the buffer it was called with
  newBuffer,    \* the buffer it got from the pool, to send
  mutex,        \* "free", "main" or the callback that holds it
  image0,       \* userdata.image0_data: left image
  image1,       \* userdata.image1_data: right image
  img,          \* [l, r]: img_l and img_r of the caller of get_images
  returned,     \* [l, r]: the pair the last get_images returned
  captures,     \* captures delivered so far
  faults        \* failed sends so far

mmalVars == <<portEnabled, camEnabled, userdata>>
bufferVars == <<where, content, callback, buffer, newBuffer, captures, faults>>
imageVars == <<image0, image1>>
readerVars == <<img, returned>>
vars == <<main, toSend, mmalVars, bufferVars, mutex, imageVars, readerVars>>

Capture == 0 .. MaxCapture
NoCapture == 0
Pool == {b \in Buffers : where[b] = "pool"}

MainSteps ==
  {"configure", "pool", "enable_port", "enable_camera", "send", "rotate",
   "start", "running", "copy_l", "copy_r", "unlock", "exited"}
CallbackSteps ==
  {"idle", "lock", "copy0", "copy1", "unlock", "release", "check", "get",
   "send"}

Init ==
  /\ main = "configure"
  /\ toSend = 0
  /\ portEnabled = FALSE /\ camEnabled = FALSE /\ userdata = FALSE
  /\ where = [b \in Buffers |-> "unallocated"]
  /\ content = [b \in Buffers |-> NoCapture]
  /\ callback = [t \in Threads |-> "idle"]
  /\ buffer = [t \in Threads |-> NoBuffer]
  /\ newBuffer = [t \in Threads |-> NoBuffer]
  /\ mutex = "free"
  /\ image0 = NoCapture /\ image1 = NoCapture
  /\ img = [l |-> NoCapture, r |-> NoCapture]
  /\ returned = [l |-> NoCapture, r |-> NoCapture]
  /\ captures = 0 /\ faults = 0

-----------------------------------------------------------------------------
(* initialize_cameras and start_capture, called once by the main thread.   *)
(* Every call may fail; a failure makes main() return (test_driver.cpp     *)
(* 71-80) without disabling what was enabled.                              *)

Fail ==
  /\ main \in {"configure", "enable_port", "enable_camera", "send", "rotate",
               "start"}
  /\ main' = "exited"
  /\ UNCHANGED <<toSend, mmalVars, bufferVars, mutex, imageVars, readerVars>>

(* Create, configure, connect and enable the components: no effect yet on  *)
(* what the callback uses.                                                 *)
Configure ==
  /\ main = "configure"
  /\ main' = "pool"
  /\ UNCHANGED <<toSend, mmalVars, bufferVars, mutex, imageVars, readerVars>>

(* Create the pool and hand it to the callback through port->userdata.  A  *)
(* pool that could not be created, a null pointer, is not noticed here.    *)
CreatePool ==
  /\ main = "pool"
  /\ where' \in {[b \in Buffers |-> "pool"], where}
  /\ userdata' = TRUE
  /\ main' = "enable_port"
  /\ UNCHANGED <<toSend, portEnabled, camEnabled, content, callback, buffer,
                 newBuffer, captures, faults, mutex, imageVars, readerVars>>

EnablePort ==
  /\ main = "enable_port"
  /\ portEnabled' = TRUE
  /\ main' = "enable_camera"
  /\ UNCHANGED <<toSend, camEnabled, userdata, bufferVars, mutex, imageVars,
                 readerVars>>

(* Mutant of EnableCamera: one buffer too few is counted. *)
EnableCamera_OneLess ==
  /\ main = "enable_camera"
  /\ camEnabled' = TRUE
  /\ \A b \in Buffers : where[b] # "unallocated"
  /\ toSend' = Cardinality(Pool) - 1
  /\ main' = "send"
  /\ UNCHANGED <<portEnabled, userdata, bufferVars, mutex, imageVars, readerVars>>

(* The length of the pool's queue is read once, before the sending loop. *)
EnableCamera ==
  /\ main = "enable_camera"
  /\ camEnabled' = TRUE
  /\ \A b \in Buffers : where[b] # "unallocated"
  /\ toSend' = Cardinality(Pool)
  /\ main' = "send"
  /\ UNCHANGED <<portEnabled, userdata, bufferVars, mutex, imageVars, readerVars>>

(* Without a pool, splitter_port_pool->queue dereferences null. *)
EnableCameraCrashes ==
  /\ main = "enable_camera"
  /\ \E b \in Buffers : where[b] = "unallocated"
  /\ camEnabled' = TRUE
  /\ main' = "exited"
  /\ UNCHANGED <<toSend, portEnabled, userdata, bufferVars, mutex, imageVars,
                 readerVars>>

(* Send that many buffers, one mmal_queue_get and mmal_port_send_buffer    *)
(* after the other, while callbacks on the first ones already use the pool.*)
SendToPort ==
  /\ main = "send" /\ toSend > 0
  /\ \E b \in Pool : where' = [where EXCEPT ![b] = "port"]
  /\ toSend' = toSend - 1
  /\ UNCHANGED <<main, mmalVars, content, callback, buffer, newBuffer,
                 captures, faults, mutex, imageVars, readerVars>>

SentAll ==
  /\ main = "send" /\ toSend = 0
  /\ main' = "rotate"
  /\ UNCHANGED <<toSend, mmalVars, bufferVars, mutex, imageVars, readerVars>>

SetRotation ==
  /\ main = "rotate"
  /\ main' = "start"
  /\ UNCHANGED <<toSend, mmalVars, bufferVars, mutex, imageVars, readerVars>>

StartCapture ==
  /\ main = "start"
  /\ main' = "running"
  /\ UNCHANGED <<toSend, mmalVars, bufferVars, mutex, imageVars, readerVars>>

-----------------------------------------------------------------------------
(* get_images, called from the main loop. *)

(* Mutant of GetImagesLock: the images are copied without the mutex. *)
GetImagesLock_Unlocked ==
  /\ main = "running"
  /\ main' = "copy_l"
  /\ UNCHANGED <<toSend, mmalVars, bufferVars, mutex, imageVars, readerVars>>

GetImagesLock ==
  /\ main = "running"
  /\ mutex = "free"
  /\ mutex' = "main"
  /\ main' = "copy_l"
  /\ UNCHANGED <<toSend, mmalVars, bufferVars, imageVars, readerVars>>

GetImagesCopyL ==
  /\ main = "copy_l"
  /\ img' = [img EXCEPT !.l = image0]
  /\ main' = "copy_r"
  /\ UNCHANGED <<toSend, mmalVars, bufferVars, mutex, imageVars, returned>>

GetImagesCopyR ==
  /\ main = "copy_r"
  /\ img' = [img EXCEPT !.r = image1]
  /\ main' = "unlock"
  /\ UNCHANGED <<toSend, mmalVars, bufferVars, mutex, imageVars, returned>>

(* Mutant of GetImagesReturn: the mutex is not released. *)
GetImagesReturn_KeepsLock ==
  /\ main = "unlock"
  /\ returned' = img
  /\ main' = "running"
  /\ UNCHANGED <<toSend, mmalVars, bufferVars, mutex, imageVars, img>>

GetImagesReturn ==
  /\ main = "unlock"
  /\ mutex' = "free"
  /\ returned' = img
  /\ main' = "running"
  /\ UNCHANGED <<toSend, mmalVars, bufferVars, imageVars, img>>

(* Escape leaves the main loop; nothing stops the capture (stop_capture is *)
(* never called) and the process ends.                                     *)
Quit ==
  /\ main = "running"
  /\ main' = "exited"
  /\ UNCHANGED <<toSend, mmalVars, bufferVars, mutex, imageVars, readerVars>>

-----------------------------------------------------------------------------
(* MMAL fills a buffer with the next capture and calls the callback.  The  *)
(* callback's first step is to wait for the mutex.                         *)
Deliver(t) ==
  /\ main # "exited" /\ portEnabled /\ camEnabled
  /\ callback[t] = "idle"
  /\ captures < MaxCapture
  /\ captures' = captures + 1
  /\ \E b \in Buffers :
       /\ where[b] = "port"
       /\ where' = [where EXCEPT ![b] = "callback"]
       /\ content' = [content EXCEPT ![b] = captures + 1]
       /\ buffer' = [buffer EXCEPT ![t] = b]
  /\ callback' = [callback EXCEPT ![t] = "lock"]
  /\ UNCHANGED <<main, toSend, mmalVars, newBuffer, faults, mutex, imageVars,
                 readerVars>>

(* The steps of a call of video_buffer_callback; the process takes its     *)
(* threads with it when main returns.                                      *)
Step(t, from, to) ==
  /\ main # "exited"
  /\ callback[t] = from
  /\ callback' = [callback EXCEPT ![t] = to]
  /\ UNCHANGED <<main, toSend, mmalVars, content, buffer, captures, readerVars>>

(* Mutants of CallbackLock: the callback does not wait for the mutex; it   *)
(* gives its buffer back before it has copied the images out of it.        *)
CallbackLock_NoWait(t) ==
  /\ Step(t, "lock", "copy0")
  /\ mutex' = t
  /\ UNCHANGED <<where, newBuffer, faults, imageVars>>

CallbackLock_ReleasesFirst(t) ==
  /\ Step(t, "lock", "copy0")
  /\ mutex = "free"
  /\ mutex' = t
  /\ where' = [where EXCEPT ![buffer[t]] = "pool"]
  /\ UNCHANGED <<newBuffer, faults, imageVars>>

CallbackLock(t) ==
  /\ Step(t, "lock", "copy0")
  /\ mutex = "free"
  /\ mutex' = t
  /\ UNCHANGED <<where, newBuffer, faults, imageVars>>

CallbackCopy0(t) ==
  /\ Step(t, "copy0", "copy1")
  /\ image0' = content[buffer[t]]
  /\ UNCHANGED <<where, newBuffer, faults, mutex, image1>>

CallbackCopy1(t) ==
  /\ Step(t, "copy1", "unlock")
  /\ image1' = content[buffer[t]]
  /\ UNCHANGED <<where, newBuffer, faults, mutex, image0>>

CallbackUnlock(t) ==
  /\ Step(t, "unlock", "release")
  /\ mutex' = "free"
  /\ UNCHANGED <<where, newBuffer, faults, imageVars>>

(* Mutant of CallbackRelease: the buffer is never given back. *)
CallbackRelease_Forgotten(t) ==
  /\ Step(t, "release", "check")
  /\ UNCHANGED <<where, newBuffer, faults, mutex, imageVars>>

(* mmal_buffer_header_release: back to the pool's queue. *)
CallbackRelease(t) ==
  /\ Step(t, "release", "check")
  /\ where' = [where EXCEPT ![buffer[t]] = "pool"]
  /\ UNCHANGED <<newBuffer, faults, mutex, imageVars>>

(* Mutant of CallbackCheckPort: the test of is_enabled is inverted. *)
CallbackCheckPort_Inverted(t) ==
  /\ Step(t, "check", IF portEnabled THEN "idle" ELSE "get")
  /\ UNCHANGED <<where, newBuffer, faults, mutex, imageVars>>

CallbackCheckPort(t) ==
  /\ Step(t, "check", IF portEnabled THEN "get" ELSE "idle")
  /\ UNCHANGED <<where, newBuffer, faults, mutex, imageVars>>

(* mmal_queue_get: a buffer of the pool, or none when it is empty (then    *)
(* the callback only prints a message).                                    *)
CallbackGet(t) ==
  /\ IF Pool = {}
       THEN Step(t, "get", "idle") /\ UNCHANGED <<where, newBuffer>>
       ELSE /\ Step(t, "get", "send")
            /\ \E b \in Pool :
                 /\ where' = [where EXCEPT ![b] = "callback"]
                 /\ newBuffer' = [newBuffer EXCEPT ![t] = b]
  /\ UNCHANGED <<faults, mutex, imageVars>>

CallbackSend(t) ==
  /\ Step(t, "send", "idle")
  /\ where' = [where EXCEPT ![newBuffer[t]] = "port"]
  /\ newBuffer' = [newBuffer EXCEPT ![t] = NoBuffer]
  /\ UNCHANGED <<faults, mutex, imageVars>>

(* A failed send is only reported: the buffer is neither at the port nor   *)
(* in the pool, and no code refers to it any more.                         *)
CallbackSendFails(t) ==
  /\ faults < MaxFaults
  /\ Step(t, "send", "idle")
  /\ where' = [where EXCEPT ![newBuffer[t]] = "lost"]
  /\ newBuffer' = [newBuffer EXCEPT ![t] = NoBuffer]
  /\ faults' = faults + 1
  /\ UNCHANGED <<mutex, imageVars>>

Callback(t) ==
  \/ CallbackLock(t) \/ CallbackCopy0(t) \/ CallbackCopy1(t)
  \/ CallbackUnlock(t) \/ CallbackRelease(t) \/ CallbackCheckPort(t)
  \/ CallbackGet(t) \/ CallbackSend(t) \/ CallbackSendFails(t)

-----------------------------------------------------------------------------
Main ==
  \/ Configure \/ CreatePool \/ EnablePort \/ EnableCamera \/ SendToPort
  \/ EnableCameraCrashes \/ SentAll \/ SetRotation \/ StartCapture \/ Fail
  \/ Quit
  \/ GetImagesLock \/ GetImagesCopyL \/ GetImagesCopyR \/ GetImagesReturn

Next == Main \/ \E t \in Threads : Deliver(t) \/ Callback(t)

Spec == Init /\ [][Next]_vars

(* The threads run, and MMAL delivers captures to a port that has a        *)
(* buffer.  A callback that waits for the mutex gets it although the main  *)
(* thread takes it again and again: between two calls of get_images that   *)
(* thread runs an inference and a stereo match and waits in waitKey(10).   *)
Fairness ==
  /\ WF_vars(GetImagesCopyL) /\ WF_vars(GetImagesCopyR)
  /\ WF_vars(GetImagesReturn) /\ SF_vars(GetImagesLock)
  /\ \A t \in Threads :
       /\ WF_vars(Deliver(t)) /\ SF_vars(CallbackLock(t))
       /\ WF_vars(CallbackCopy0(t)) /\ WF_vars(CallbackCopy1(t))
       /\ WF_vars(CallbackUnlock(t)) /\ WF_vars(CallbackRelease(t))
       /\ WF_vars(CallbackCheckPort(t)) /\ WF_vars(CallbackGet(t))
       /\ WF_vars(CallbackSend(t) \/ CallbackSendFails(t))

FairSpec == Spec /\ Fairness

-----------------------------------------------------------------------------
(* The variables hold values of their types.  (camera_mipi.h 13-23, 28-51) *)
TypeOK ==
  /\ main \in MainSteps
  /\ toSend \in 0 .. Cardinality(Buffers)
  /\ portEnabled \in BOOLEAN /\ camEnabled \in BOOLEAN /\ userdata \in BOOLEAN
  /\ where \in [Buffers -> {"unallocated", "pool", "port", "callback", "lost"}]
  /\ content \in [Buffers -> Capture]
  /\ callback \in [Threads -> CallbackSteps]
  /\ buffer \in [Threads -> Buffers \cup {NoBuffer}]
  /\ newBuffer \in [Threads -> Buffers \cup {NoBuffer}]
  /\ mutex \in {"free", "main"} \cup Threads
  /\ image0 \in Capture /\ image1 \in Capture
  /\ img \in [l : Capture, r : Capture]
  /\ returned \in [l : Capture, r : Capture]
  /\ captures \in Capture
  /\ faults \in 0 .. MaxFaults

(* No callback runs before the pool and the image pointers it reaches      *)
(* through port->userdata are set: the port is enabled after line 270.     *)
CallbackFindsUserdata ==
  \A t \in Threads : callback[t] # "idle" => userdata

(* Neither the loop that sends the buffers of the pool to the port (lines  *)
(* 277-292) nor a callback (line 117) ever finds the pool empty, although  *)
(* they take buffers from it concurrently: the "failed to get a required   *)
(* buffer" and "unable to return a buffer" branches need a failed send.    *)
PoolNeverEmpty ==
  (main = "send" /\ toSend > 0) \/ (\E t \in Threads : callback[t] = "get")
    => Pool # {}

(* The only buffers the capture ever loses are those whose send failed:    *)
(* when no callback runs and initialisation is over, every other buffer is *)
(* at the port, where the camera can fill it (lines 111-124).              *)
NoBufferStranded ==
  main \notin {"configure", "pool", "enable_port", "enable_camera", "send",
               "exited"}
    /\ (\A t \in Threads : callback[t] = "idle")
    => Cardinality({b \in Buffers : where[b] = "port"})
         = Cardinality(Buffers) - faults

Reading(t) == callback[t] \in {"lock", "copy0", "copy1", "unlock", "release"}

(* A buffer being read by a callback is not at the port, so the camera     *)
(* cannot overwrite it, and no buffer is in two callbacks' hands (111-120).*)
BufferOwnedOnce ==
  /\ \A t \in Threads : Reading(t) => where[buffer[t]] = "callback"
  /\ \A t, u \in Threads :
       /\ Reading(t) => newBuffer[u] # buffer[t]
       /\ t # u /\ Reading(t) /\ Reading(u) => buffer[t] # buffer[u]
       /\ t # u /\ newBuffer[t] # NoBuffer => newBuffer[t] # newBuffer[u]

(* get_images returns a left and a right image of the same capture, even   *)
(* when callbacks overlap.  (lines 88-94 and 309-323)                      *)
SameCapture == returned.l = returned.r

(* What the camera set implements: the pair register.  The right image is  *)
(* the last one the callback writes, so the pair is published with it.     *)
Pair == INSTANCE StereoPair WITH latest <- image1

ImplementsPair == Pair!Spec

(* A callback that has started hands its buffer on: nobody blocks it for   *)
(* ever on the mutex.  (the fear of the TODO in line 87)                   *)
CallbackEnds ==
  \A t \in Threads :
    callback[t] # "idle" ~> callback[t] = "idle" \/ main = "exited"

(* While the program runs and one buffer is left, captures keep coming:    *)
(* the last one the sensor delivers reaches the image buffers.             *)
StreamSurvives ==
  [](main # "exited" /\ \E b \in Buffers : where[b] # "lost")
    /\ <>(main = "running")
    => <>(image1 = MaxCapture)

-----------------------------------------------------------------------------
(* The inductive invariant behind TypeOK, BufferOwnedOnce, SameCapture and *)
(* ImplementsPair.                                                         *)

Locked(t) == callback[t] \in {"copy0", "copy1", "unlock"}

(* Nothing is allocated, and no callback runs, before the pool is there. *)
StartInv ==
  /\ main \in {"configure", "pool"}
       => /\ ~portEnabled
          /\ \A b \in Buffers : where[b] = "unallocated"
          /\ \A t \in Threads : callback[t] = "idle"
  /\ main = "enable_port" \/ portEnabled => userdata
  /\ CallbackFindsUserdata

(* A callback owns the buffer it reads, and the one it is about to send. *)
BufferInv ==
  \A t \in Threads :
    /\ Reading(t) => buffer[t] \in Buffers /\ where[buffer[t]] = "callback"
    /\ IF callback[t] = "send"
         THEN newBuffer[t] \in Buffers /\ where[newBuffer[t]] = "callback"
         ELSE newBuffer[t] = NoBuffer

(* The mutex is held by who is between its lock and unlock calls. *)
LockInv ==
  /\ \A t \in Threads : Locked(t) <=> mutex = t
  /\ main \in {"copy_l", "copy_r", "unlock"} <=> mutex = "main"

(* The two images differ only between the two copies of a callback, and    *)
(* get_images never sees them in between.                                  *)
ImageInv ==
  /\ \A t \in Threads : callback[t] = "copy1" => image0 = content[buffer[t]]
  /\ (\A t \in Threads : callback[t] # "copy1") => image0 = image1
  /\ main \in {"copy_r", "unlock"} => img.l = image1
  /\ main = "unlock" => img.r = image1

PairInv == TypeOK /\ StartInv /\ BufferInv /\ BufferOwnedOnce /\ LockInv
             /\ ImageInv /\ SameCapture

(* The inductive invariant behind PoolNeverEmpty and NoBufferStranded: in  *)
(* the pool there is a buffer for every one initialize_cameras still has   *)
(* to send and for every callback between its release and its get, and no  *)
(* other once that loop has begun; a buffer that is neither there nor at   *)
(* the port is owned by a callback or was lost in a failed send.           *)
(* (camera_mipi.cpp 111-124 and 276-292)                                   *)
Starting == {"configure", "pool", "enable_port", "enable_camera"}
Waiting == {t \in Threads : callback[t] \in {"check", "get"}}
Lost == {b \in Buffers : where[b] = "lost"}

CountInv ==
  /\ IsFiniteSet(Waiting)
  /\ toSend + Cardinality(Waiting) <= Cardinality(Pool)
  /\ main \notin Starting \cup {"exited"}
       => toSend + Cardinality(Waiting) = Cardinality(Pool)
  /\ main \notin Starting \cup {"send", "exited"} => toSend = 0
  /\ \A t \in Threads : callback[t] # "idle" => portEnabled /\ camEnabled
  /\ main \in Starting => ~camEnabled

LossInv ==
  /\ Cardinality(Lost) = faults
  /\ \A b \in Buffers :
       /\ where[b] = "unallocated" => main \in Starting \cup {"exited"}
       /\ where[b] = "callback" =>
            \E t \in Threads :
              (Reading(t) /\ buffer[t] = b) \/ newBuffer[t] = b

PoolInv == PairInv /\ CountInv /\ LossInv

(* Captures are copied out one at a time: callbacks do not overlap, or     *)
(* there is one buffer to call them with.                                  *)
OneAtATime ==
  (\A t, u \in Threads : t = u) \/ (\A b, c \in Buffers : b = c)

(* Then what a callback is about to copy is newer than both images. *)
NewerInv ==
  /\ image1 <= captures
  /\ \A b \in Buffers : content[b] <= captures
  /\ \A t \in Threads :
       callback[t] \in {"lock", "copy0", "copy1"} => image1 < content[buffer[t]]
=============================================================================
