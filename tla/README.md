# Formal models of SimuSound_rpi

SimuSound_rpi runs on a Raspberry Pi Compute Module. It captures stereo images,
detects objects in them, computes a disparity map, and talks to a remote control
over a serial Bluetooth port and to an ICM-20948 motion sensor over SPI. This
directory holds TLA+ models of its own sources, the TLC configurations that
check them, and TLAPS proofs of every safety property the runs check.

    tlc -config MipiCamera_pool.cfg MipiCamera      # check a model
    tlapm MipiCameraProofs.tla                      # check proofs, likewise
                                                    # the other modules named *Proofs

Paths are relative to `src/`. `ICM_20948_C.c` is `imu/util/ICM_20948_C.c`, and
`ICM_20948_rpi.cpp` is `imu/ICM_20948_rpi.cpp`.

## 1. Inventory of the system

### Main program (`test_driver.cpp`)
`main` starts the camera set, calls `mobiledet.setup`, `setup_stereo_undistort`
and the matcher's set-up, sleeps, and loops: `get_images`, `evaluate`, draw,
undistort, match, `waitKey(10)`. State: what the set-up calls left behind, and
the images of the pass. Hard: it ignores the results of most set-up calls and of
`evaluate`, shares the images with the camera threads, and never checks that a
first capture arrived. Correct when a pass shows the objects and the disparity
of one capture, no uncalibrated disparity is shown, and the last capture reaches
the screen.

### MIPI stereo camera set (`camera_mipi.cpp`)
State: the MMAL components, a pool of one buffer, two images, a mutex, and the
callback's `userdata`. Operations: `initialize_cameras`, `start_capture`,
`get_images`, `stop_capture` (not called) and `video_buffer_callback`, which
MMAL calls on its own thread. It copies both halves of a frame under the mutex,
releases the buffer to the pool and sends the pool's next buffer to the port.
Hard: the callback and the main thread share images, mutex and pool; the pool
is as small as can be; a failed send loses a buffer for good; a TODO (line 87)
fears overlapping callbacks. Correct when a caller gets both images of one
capture, never goes back in time, no buffer is used by two owners, and captures
keep coming.

### USB stereo camera set (`camera_usb.cpp`)
The same interface over two OpenCV captures and a capture thread that grabs left
and right, then decodes both under a mutex. Hard: the results of `grab` and
`retrieve` are ignored, and after a failed grab OpenCV may decode the old frame
again or empty the image (`videoio.hpp` 812-818), from which `get_images` then
copies all the same. Correct when it is the same register of pairs, as long as
grabs work, becomes one again after a failure, and never returns an older image
than before.

### Object detector (`mobiledet/mobiledet.cpp`) and undistortion (`stereo_matching.cpp`)
`setup` can fail with no interpreter, or with an interpreter and no input size;
`evaluate` replaces `detected_objects` or fails. `setup_stereo_undistort` loads
four map files in turn and stops at the first bad one; `undistort` throws on an
empty map. The arithmetic is OpenCV's and TensorFlow's.

### Bluetooth remote (`bt_remote.cpp`)
`bt_thread` reads a serial port, cuts the bytes into lines and inserts them into
`data_in`; `get_data` copies and clears it. Hard: the thread takes no mutex, and
`get_data` clears after unlocking. Correct when lines come out whole, once and
in order, and none is lost.

### Motion sensor (`imu/`)
* **DMP memory**: `inv_icm20948_write_mems`, `read_mems`, `firmware_load`: paged
  memory behind three registers, a cached bank number, bursts, a verify pass.
  Everything else that reaches DMP memory goes through these two accesses.
* **DMP FIFO**: `read_dmp_data` decodes frames the DMP is still writing.
* **DMP sensor selection**: `enable_dmp_sensor`, `enable_dmp_sensor_int`,
  `set_dmp_sensor_period`: control registers derived from sets of sensors.
* **Start-up**: `begin`, `startupDefault`, `initializeDMP` and `setup()` of
  `imu_test.cpp`: some fifty calls that read, change and write registers.
* **SPI transport**: `write_SPI`, `read_SPI`: any transaction may fail.

Hard: failures between transactions, remembered state that no longer holds,
results overwritten before they are looked at, a device that moves by itself,
registers of four banks that share numbers because `set_bank` does nothing, and
a chip that keeps its state when the program is killed and started again, which
is the only way its programs end.

### Not modelled
* The routines of the sensor driver that no program calls: interrupt pins, wake
  on motion, I2C pass-through, direct readings, and the magnetometer's start-up
  with the peripheral 4 transactions and their timeouts. Its only call is
  commented out (ICM_20948_rpi.cpp:836-845): this chip has no magnetometer.
* `setup_cpu` of the detector. `mobiledet.cpp:139` names it as the fallback, but
  only `mobiledet_testing.cpp` calls it.
* The calibration tools and `mobiledet_testing.cpp`: sequential programs around
  numerical library calls, with nothing to interleave or to recover.
* The experiments in `mipi_cam_test`: predecessors of `camera_mipi.cpp`.
* `utils.cpp`: stateless helpers.
* The private sound model, whose sources are not in the repository.
* Vendored code: flite, gattlib, Edge TPU, TensorFlow, FlatBuffers, OpenCV, eMD.
  That is nearly all of the repository by size; the models cover the program's
  own sources and take libraries as the program uses them.

`PROJECT.json` lists each with its reason, and the hazards with their lines.

### How the parts interact
Main calls the camera set, the detector, the undistortion and the matcher by
plain calls. The only shared memory between threads is the image pair of a
camera set (with its mutex) and `data_in` of the remote (with one thread that
ignores the mutex). MMAL calls back into the camera set; the DMP writes to its
FIFO while the driver reads it. Within the sensor driver, the control registers
of the sensors and the parameters of the DMP share one cached bank number, so
that a failure of one routine changes where another one writes. The motion sensor
and the remote are driven by programs of their own (`imu_test.cpp`,
`bt_remote_test.cpp`).

## 2. Modules

| Module | Models | State and actions |
|---|---|---|
| `StereoPair` | the promise of a camera set | `latest`, `returned`; `Publish`, `GetImages` |
| `MipiCamera` | `camera_mipi.cpp` | one action per call that changes shared state, in the initialisation, in `video_buffer_callback` and in `get_images`; a memcpy of an image is one step |
| `MipiCameraProofs` | theorems about it | |
| `TestDriver` | `test_driver.cpp` with the detector and the undistortion, composed with `MipiCamera` | `stage` is the place in `main`; every other step is a step of `MipiCamera` |
| `TestDriverProofs` | theorems about it; it EXTENDS `MipiCameraProofs` | |
| `UsbCamera` | `camera_usb.cpp` | capture thread and main thread, step by step |
| `UsbCameraProofs` | theorems about it | |
| `BTRemote` | `bt_remote.cpp` | `read` with any split, then a step per byte of the chunk; the insert, copy and clear each as begin and end, so that they can race |
| `BTRemoteProofs` | theorems about it | |
| `DmpBank` | the selection of a bank of DMP memory | the chip's register and the remembered bank; extended by `DmpMemory` and `DmpSensors` |
| `DmpPort` | the promise of `write_mems` and `read_mems` | memory, one call, its buffer and its answer; bytes move in any portions |
| `DmpMemory` | `write_mems`, `read_mems`, `firmware_load`, `sw_reset`, restart of the program | one step per bus transaction |
| `DmpMemoryProofs` | theorems about it | |
| `DmpFifo` | `read_dmp_data`, `get_FIFO_count`, `read_FIFO`, `reset_FIFO` | one step per transaction; the DMP emits bytes in between; reset and restart at any point. A kind of frame is the list of where its fields end |
| `DmpFifoProofs` | theorems about it | |
| `DmpSensors` | `enable_dmp_sensor(_int)`, `set_dmp_sensor_period`, the parameter writes of `initializeDMP` | one step per register write, with the bank it goes to |
| `DmpSensorsProofs` | theorems about it | |
| `ImuSetup` | `begin` to the end of `setup()` | a program of register transactions, each of which works or fails; it is killed and started again at any point. `Configured` is what the last write about each bit asks for |
| `ImuSetupProofs` | theorems about it | |
| `MCDmpFifo`, `MCDmpMemory`, `MCDmpSensors`, `MCImuSetup` | values of the constants | |

`MipiCamera` and `UsbCamera` are both compared with `StereoPair` through a
refinement mapping: `latest` is the right image, which both write last.
`DmpMemory` is compared with `DmpPort`: a call of the port is a call of the
driver from its start to the moment its caller takes the result, and banks,
start addresses and bursts are hidden.
`TestDriver` EXTENDS `MipiCamera`, so the checks of the camera set's promises in
its run include the real reader.

### What is abstracted
* An image, a buffer's content and a set of detected objects are capture
  numbers. Image formats, colour conversion, resizing, drawing, frame rate
  statistics and text output are left out. Of the size of an image `UsbCamera`
  keeps what a copy from it does: an empty image (`Empty`) has no data, so the
  copy faults and the process dies (`GetImagesFaults`, `main = "crashed"`); the
  images of the constructor have one byte per pixel (camera_usb.cpp:23-24) where
  `get_images` reads three, so a copy before the first `retrieve` may fault, or
  return memory that no frame was decoded into (`NoCapture`).
* A pool of buffers that MMAL does not give is a NULL pointer that nothing checks:
  the port has no buffers, and the length of its queue is read through it
  (`EnableCameraCrashes` in `MipiCamera`).
* `set_dmp_sensor_period` of a register it does not know writes nothing; its error
  is overwritten like that of the rate's write (`SetDMPODRrateUnknown`).
* A line of the remote is its number; bytes are of four kinds: printable,
  newline, NUL and other control characters. A data race on the vector leaves
  any of the outcomes `Garbage` lists, or a crash.
* Bus transactions are atomic and fail as a whole. A failed write may or may not
  have reached the device. A failed read leaves the caller's buffer as it was;
  where that buffer is uninitialised its content is any of a set of values
  (`data_cmp` of the verify pass, the register copies of `ImuSetup`).
* The DMP's memory is taken to survive a software reset (nothing in the
  sources says otherwise, and a load or an enable writes all it relies on), the
  FIFO to be in stream mode (the start-up sets the mode to 0). The driver does not say whether the chip holds the lower byte of the
  FIFO's count back while the upper one is read; both are allowed.
* The parameter writes of `initializeDMP` into DMP memory, whose transactions are
  those of `DmpMemory`, are two calls of `ImuSetup`, those before `setGyroSF` and those
  after it: none changes a register, and each that fails is reported. In `DmpSensors`
  each is a call of its own; the one that matters is CPASS_MTX_20, whose offset
  in bank 1 is that of DATA_RDY_STATUS in bank 0. Memory accesses whose failure
  a routine forgets (the verify pass of the firmware load, the rate) are
  `Ignored` transactions of `ImuSetup`. The two bytes of the DMP's start address,
  which the code writes in one transaction, are two there, since one that fails may
  have written the first of them only. The build
  is the one with `ICM_20948_USE_DMP` (ICM_20948_C.h:29).
* A restart (`Restart` in `DmpMemory`, `DmpFifo`, `DmpSensors` and `ImuSetup`) can
  come between any two transactions: `begin` sets the fields of the driver anew
  (ICM_20948_rpi.cpp:1584-1592) and resets the chip's registers, and DMP memory
  keeps its bytes. In `DmpSensors` the firmware, loaded again, may cover the rates,
  which lie inside its image; the other control registers lie below it.
* When `spiOpen` fails, `begin` returns without setting `status`, and the first
  transaction goes through a null pointer: `ImuSetup` ends in `crashed`.

## 3. Runs

| Run | Question and answer | Bounds |
|---|---|---|
| `TestDriver` | Camera set and main loop as configured: the pair register is implemented, a pass shows one capture's objects and disparity (older objects only after a failed inference), no disparity from a missing map is shown, callbacks end, the last capture stays on screen. | 1 buffer (as in line 265), 2 callbacks, 3 captures, 1 failed send |
| `MipiCamera_pool` | With a larger pool and overlapping callbacks, pairs stay whole, the pool never runs dry, only failed sends lose buffers, and the stream survives while a buffer is left. | 2 buffers, 2 callbacks, 4 captures, 1 failed send |
| `UsbCamera` | The pair register until a grab fails; one clean pass heals a skewed pair; no call returns an older left or right image than the call before, whether a failed grab leaves the old frame or an empty image; the thread is not starved, unless a copy kills the process. | 4 passes, 2 failed grabs |
| `BTRemote` | Lines are cut right under every split. Without a race they come in order and once, and are lost only if the thread inserts between copy and clear. Every byte is read. | 4 bytes, 2 calls of `get_data` |
| `DmpMemory` | While no bank selection failed and no reset came since, the accesses implement `DmpPort`: they touch their own range only, move the right bytes and return Ok only when all have moved. Always: `_firmware_loaded` is set only when the whole image is in memory. A load in which nothing fails, begun with a real bank, loads, whatever was left behind. | 2 banks of 4 bytes, bursts of 2, a 5 byte image, 5 calls, 3 faults, 2 resets or restarts |
| `DmpMemory_stale` | Finding 1. | 3 calls, 1 fault |
| `DmpFifo` | The reader's count is never too high, although it is read in two parts and trusted over several transactions. Until a call is abandoned or the FIFO overflows, Ok means one whole frame, in order, and every frame is returned but those a reset or restart takes. | capacity 7, frames of 5 and 6 bytes, 2 frames, 1 fault, 1 reset or restart |
| `DmpFifo_valid` | Finding 2. | capacity 20, no fault |
| `DmpSensors` | An Ok enable leaves the registers as the set of enabled sensors demands, whatever failed or was killed before, unless the remembered bank is wrong (finding 1 reaches here). Disabling never takes an output from another sensor, even then. Parameter writes keep out of the control registers while the bank is real. | 4 sensors with a shared output, 1 unsupported, 1 unknown, 2 banks, 4 calls, 2 faults, 1 restart |
| `DmpSensors_rate` | Finding 3. | 2 calls, 1 fault, 1 restart |
| `ImuSetup` | "DMP enabled!" means every bit of every register is what the last write about it asked for. Only `set_full_scale` and `enable_dlpf` damage fields of others, and never without an error. | any 3 of all transactions fail, in one start or several; any number of starts |
| `ImuSetup_interrupt` | Finding 4. | no fault |

Why the bounds suffice: two captures in flight while one is read make every
overlap of callback and reader; two banks with an image across their border make
every bank switch; a FIFO smaller than two frames overflows in the second, with
the lower byte of the count wrapping at 4; two sensors share an output while
a third does not; four calls make an enable, a parameter write that changes the
bank, and an enable after it; two faults separate a failure from a failed repair, three a
failed load that follows one. Four bytes hold two lines and a break inside one.

Deadlock checking is on in both runs of `ImuSetup`, which can always be started
again. It is off elsewhere: the other programs may end (a failed set-up, Escape),
or their calls, frames and bytes are bounded.
`LoadedMeansImage` relies on the image spanning more than one bank, as the
firmware does: the verify pass then starts with a bank selection of its own even
when the cache was stale.

### Findings
1. **Stale bank** (`DmpMemory_stale`, ICM_20948_C.c:1420). `_last_mems_bank` is set
   before the selection is written. After a failed selection the next access to
   the same bank skips it, reaches the old bank, and returns Ok. This is why
   `ImplementsPort`, `OkEnableApplies` and `ParametersKeepOut` speak of a bank that is
   not stale: with a stale one a parameter write of the start-up lands on
   DATA_RDY_STATUS and reports Ok.
2. **Half a frame** (`DmpFifo_valid`, ICM_20948_C.c:1956). `FIFOIncompleteData` drops
   the fields already read; the next call takes the rest for a frame and returns
   Ok, against the comment at imu_test.cpp:151.
3. **Lost result** (`DmpSensors_rate`, ICM_20948_C.c:1646). The result of writing the
   rate is overwritten by that of `low_power`.
4. **Interrupt back on** (`ImuSetup_interrupt`, ICM_20948_C.c:746). The accelerometer's
   rate divider has the register numbers of INT_ENABLE and INT_ENABLE_1 in
   another bank, and `set_bank` does nothing.

## 4. Fairness
* Threads run: weak fairness on the steps of each thread that are not waiting.
* The mutex: strong fairness on `lock`. A pass of the main loop leaves the mutex
  free for an inference, a stereo match and `waitKey(10)`, and the camera thread
  for most of a frame time, so neither is for ever the one that comes too late.
* MMAL delivers a capture to an enabled port that has a buffer.
* `read` of a port with bytes waiting does not fail for ever (strong fairness on
  the successful read); the client polls `get_data`, whose steps do not block.
* The DMP finishes a frame it began; a set-up that is not killed comes to its
  end (it waits for nothing); the client's loop (imu_test.cpp:182-196)
  calls the reader without end.
* No fairness on set-up steps failing, on Escape, on sends by the remote, or on
  faults: all of these may never happen.

## 5. Proofs
Every safety property of the passing runs, invariant, action property or
refinement, is a theorem for all values of the constants. Each follows from an
inductive invariant, which a run checks as well (all but `NewerInv`), so that it
was known to hold before it was proved. A module's invariant is a conjunction of named parts; its
proof has a lemma per action or per part, and lemmas about the helpers before.

### `MipiCameraProofs`
For every finite set of buffers, every set of callbacks and any bounds on
captures and faults:
* `PairInvariant`: `Spec => []PairInv`. `SameCapture` is not inductive. It needs to
  know that the reader's copy equals the images as long as it holds the mutex
  (`ImageInv`), who holds it (`LockInv`), that the content of a buffer being copied
  does not change (`BufferOwnedOnce`, `BufferInv`: MMAL fills only buffers at the
  port), and that nothing is allocated before `CreatePool` (`StartInv`). `PairInv`
  is their conjunction, checked by the run `TestDriver`.
* `TypeCorrect`, `UserdataIsSet`, `PairsAreOfOneCapture`, `BuffersAreOwnedOnce`
  follow from it.
* `PoolInvariant`, checked as `PoolInv` by `MipiCamera_pool`: the counts of buffers.
  `PoolNeverEmpty` alone is not inductive: it holds because main's remaining sends
  and the callbacks that still want a buffer together never exceed what is in the
  pool (`CountInv`), and `NoBufferStranded` because every buffer is somewhere and
  the lost ones are as many as the failed sends (`LossInv`). `PoolIsNeverEmpty` and
  `NoBufferIsStranded` follow.
* `CameraImplementsPair`: under `OneAtATime` (one buffer, as in the code, or one
  callback at a time) the camera set implements `StereoPair`: each step is a step
  of the register or a stutter. The additional invariant `NewerInv` says that
  what a callback is about to copy is newer than both images. Without
  `OneAtATime` a slower callback may publish an older capture last.

Assumptions: the ASSUMEs of `MipiCamera` (finite buffers; markers that are not
members of the sets; bounds are naturals) and, for the refinement, `OneAtATime`.

### `TestDriverProofs`
* `DriverImplementsCamera`: `DriverSpec => Spec`. Each step of the program is a step
  of the camera set or leaves it alone, so all theorems of `MipiCameraProofs` hold
  in the program (`DriverCameraInvariant`, `DriverImplementsPair`).
* `LoopInvariant` and `DisparityIsCalibrated`: a map that is set is the
  calibration's, and the loop gets to its match only with four of them; the places
  of `main` and of `get_images` go together (`StageInv`).
* `DriverInvariant` and `OneFrameIsShown`: `ShownInv` says stage by stage of which
  frame the objects, the drawing and the disparity are. It uses that the pair
  main works on is of one capture (`PairInv`), so it assumes `OneAtATime`, as the
  code has one buffer; otherwise the objects a failed inference leaves could be
  newer than the image.

### `UsbCameraProofs`
For any number of passes and failed grabs: `UsbInvariant`. `SkewAlwaysHeals` needs to
know what a clean pass has done so far (`PassInv`) and that the reader does not
change the images (`LockInv`). `ReturnsNeverGoBack` needs the age of everything on
a frame's way to the caller: what was returned is not newer than what a buffer
holds, nor that than what its camera holds, wherever one of them is not empty
(`AgeInv`); the returned image needs to be compared with the camera's directly,
since an empty buffer between them tells nothing. `UsbImplementsPair` takes each step of the two threads, while no grab has
failed, to `Publish`, `GetImages` or a stutter; `CopyInv` says that what the reader
has copied is still what is stored. Assumptions: the bounds are naturals, and
`EmptyAssumption`: the marker of an empty image is no frame number.

### `BTRemoteProofs`
For any received bytes, any way `read` splits them and any number of polls:
`BTInvariant`. The lines are followed on their way: the chunk's are the newest
(`LineInv`), before them come those in `data_in`, and before those the returned ones
(`OrderInv`), which holds until a data race. `get_data`'s copy is the beginning of
`data_in`, and all of it until bt_thread inserts behind its back (`LossInv`), which
is what `LinesAreLostOnlyWhenOvertaken` says of the clear. `LinesComeInOrder` and
`LinesAreCutAtNewlines` follow too, the last without the proviso. The model takes
a chunk byte by byte: a fold over the chunk would have asked for induction.

### `DmpMemoryProofs`
For every size of banks, bursts and image:
* `CacheIsReal`: `OnlySelections` shows that each step leaves the bank alone or is
  one of the ways `DmpBank` names, and `BankKept` that each of these keeps
  `CachedBankIsReal`.
* `MemInvariant`. A call stays in its bank and every burst begins at its start
  address (`CallInv`, with lemmas about `%` and `\div`); what is done of a call is
  done right while the bank is (`MoveInv`); the load goes through the image in
  whole bursts that never pass a bank's end (`LoadInv`).
* `MemoryImplementsPort`: from these, `Spec => Port!Init /\ ImplementsPort`. Banks,
  start addresses and the split into bursts are invisible to the caller.
* `LoadedIsImage`. Its reason is in `VerifyInv`: the write pass ends with another
  bank remembered than the one the verify pass begins with, so its first read
  selects for certain, and if that fails the flag is up.
* `CleanLoadIsEnough`, from `CleanInv`.

Assumptions: the sizes are positive, and `ImageAssumption`: the image begins at a
multiple of the burst size that divides the bank size, and spans two banks, as
the firmware does (0x90 and 14301 bytes in banks of 256, bursts of 16).

### `DmpFifoProofs`
For any capacity, any kinds of frames and any number of frames, faults and
restarts: `FifoInvariant`, by which the count is never above the FIFO (`CountInv`),
and what the call has read, what is in the FIFO and the byte the DMP is about to
write form one stream that is `Straight`: whole frames in order, from the first
byte of the first, up to where the DMP is (`StreamInv`). It holds until bytes are
cut off (`cut`). `CountIsNeverHigh`, `FramesAreWhole` and `FramesComeInOrder` follow.
A kind of frame is given by where its fields end, so that no sum over fields is
needed; `FifoAssumption` says that these places grow and that all headers have
the same length.

### `DmpSensorsProofs`
For every table of sensors, outputs and accuracy bits, every number of banks and
any number of calls, failures and restarts:
* `SensorsInvariant`: `Spec => []SensorsInv`. `OkEnableApplies` is not inductive. Its
  strengthening `AppliedInv` says of the middle of a call what it says of the end:
  each register already written is what the enabled sensors ask for, unless the
  bank is stale. That holds only because the call's first write has selected
  bank 0, after which its other writes skip the selection and cannot make the
  bank stale or go elsewhere; so `AppliedInv` also says that the remembered bank
  is 0, and `CachedBankIsReal` that it is the chip's. `PlaceInv` keeps other routines
  out of the places of this one, `TypeOK` keeps the unknown sensor out of `enabled`.
* `EnabledIsApplied`, `ParametersAreKeptOut` and `OutputsAreKept` follow from it; the
  last uses only that `out1` is written with nothing but the outputs of all enabled
  sensors.

Assumptions: `SensorsAssumption` and `BanksAssumption`.

### `ImuSetupProofs`
For any number of failing transactions and any bytes in uninitialised locals:
* The program of calls is looked at once: each call after the first is `Good`, that
  is, reads a register before it writes a part of it, and never has DEVICE_RESET
  in what it writes to PWR_MGMT_1 (`ProgramFacts`). The rest holds for any such
  program.
* `ConfiguredAt(c, i)` says, bit by bit, what the last write before transaction i of
  call c asks for. `ConfiguredFirst`, `ConfiguredNext` and `ConfiguredTurn` say how it
  goes on; stated through the writes as a set it needs no induction.
* `ImuInvariant`. `EnabledMeansConfigured` needs to know that as long as no failure
  was reported the registers are `ConfiguredAt` the present transaction and the
  locals equal them (`ConfigInv`), hence that a call which returned Ok has made all
  its transactions (`StepInv`), and that none of them can reset the chip again by
  writing back what it has read (`ResetInv`): when the program starts PWR_MGMT_1 may
  hold anything. `KeepInv` says that registers and locals keep the
  fields a call is not about, until a call that goes on past failures has one.
* `EnabledIsConfigured`, `CarefulCallsKeepOthers` and `OkCallsKeepOthers` follow.

Assumptions: `GarbageAssumption` (an uninitialised local holds some byte) and
`MaxFaultsAssumption`.

### Only model-checked
`StreamSurvives`, `CallbackEnds`, `LastCaptureShown`, `PassesEnd`, `AllBytesRead` and
`EveryFrameReturned`: liveness, whose fairness and ENABLED are out of the prover's
reach. The four violated properties of the findings are of course not theorems.

## 6. Plan
Done: the camera sets and their abstract specification, the main loop, the
remote, the four parts of the motion sensor with bank selection, restarts and
the abstract port of DMP memory; the proofs above. No other part of the
program's own code has state whose behaviour a model would tell more about (see
"Not modelled").

Next: what follows from the refinements for a caller, stated of the MIPI camera
set and the program as `PairsNeverGoBack` states it of the USB set (without
failed grabs there is no exception to make), with the promise itself proved of
`StereoPair`; what a rate or interrupt call of `DmpSensors` in which
nothing fails leaves in the registers, next to finding 3; and invariants that
say which steps the awaited ones of the liveness properties cannot be undone by.
