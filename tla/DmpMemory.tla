----------------------------- MODULE DmpMemory -----------------------------
(***************************************************************************)
(* The DMP memory of the motion sensor as imu/util/ICM_20948_C.c reaches   *)
(* it: paged memory behind the registers MEM_BANK_SEL, MEM_START_ADDR and  *)
(* MEM_R_W, written and read in bursts by inv_icm20948_write_mems and      *)
(* inv_icm20948_read_mems, and the firmware load built on the two.         *)
(*                                                                         *)
(* One step is one bus transaction (ICM_20948_execute_w, execute_r).  A    *)
(* transaction may fail; a failed write may or may not have reached the    *)
(* device, a failed read leaves the caller's buffer as it was              *)
(* (ICM_20948_read_SPI copies only on success).  The driver runs in one    *)
(* thread, so nothing else moves between two steps; but the program may be *)
(* killed between any two of them and started again.  Selecting a bank is  *)
(* in module DmpBank, what the two routines promise in module DmpPort.     *)
(***************************************************************************)
EXTENDS DmpBank, Sequences, SequencesExt

CONSTANTS BankSize,     \* bytes in a memory bank (0x100 in the code)
          MaxSerial,    \* INV_MAX_SERIAL_WRITE, INV_MAX_SERIAL_READ
          LoadStart,    \* DMP_LOAD_START
          Image,        \* dmp3_image, a sequence of bytes
          Ranges,       \* the calls a client makes: records [reg, length]
          Payload,      \* the byte a client writes
          MaxCalls,     \* bound: calls made through the driver
          MaxFaults,    \* bound: bus transactions that fail
          MaxResets     \* bound: software resets and restarts

Junk == 0
Addresses   == 0..(Banks * BankSize - 1)
ImageRange  == LoadStart..(LoadStart + Len(Image) - 1)
ImageAt(a)  == Image[a - LoadStart + 1]

(***************************************************************************)
(* What the callers in the driver respect: the image starts at a multiple  *)
(* of the burst length (0x90 and 16), is longer than a burst and does not  *)
(* fit into one bank (it has 14301 bytes), and no call leaves its bank.    *)
(***************************************************************************)
ASSUME MemoryAssumption ==
  /\ BankSize \in Nat \ {0} /\ MaxSerial \in Nat \ {0}
  /\ LoadStart \in Nat /\ Image \in Seq(Nat) /\ Image # << >>
  /\ ImageRange \subseteq Addresses
  /\ BankSize % MaxSerial = 0 /\ LoadStart % MaxSerial = 0
  /\ MaxCalls \in Nat /\ MaxFaults \in Nat /\ MaxResets \in Nat
  /\ Payload \in Nat

ASSUME ImageAssumption ==
  /\ MaxSerial <= Len(Image)
  /\ LoadStart \div BankSize # (LoadStart + Len(Image) - 1) \div BankSize

ASSUME RangesAssumption ==
  \A c \in Ranges :
    /\ c \in [reg : Addresses, length : Nat \ {0}]
    /\ (c.reg % BankSize) + c.length <= BankSize

VARIABLES startAddr,        \* device: MEM_START_ADDR
          mem,              \* device: the memory
          firmware_loaded,  \* ICM_20948_Device_t._firmware_loaded
          call,             \* arguments and progress of write_mems, read_mems
          phase,            \* where that call is
          buffer,           \* the buffer read_mems fills
          load,             \* locals of inv_icm20948_firmware_load
          status,           \* what the last finished routine returned
          calls, faults, resets

device == <<startAddr, mem>>
bounds == <<calls, resets>>
vars   == <<bank, device, firmware_loaded, call, phase, buffer, load, status,
            bounds, faults>>

Idle == phase = "idle" /\ load.stage = "none"

(* A transaction that succeeds or, while faults remain, fails.             *)
Works == UNCHANGED faults
Fails == faults < MaxFaults /\ faults' = faults + 1

NoCall == [kind |-> "write", reg |-> 0, length |-> 0, data |-> << >>,
           done |-> 0]
NoLoad == [stage |-> "none", memaddr |-> LoadStart, done |-> 0, flag |-> 0,
           real |-> FALSE, faults |-> 0]
NoData == [i \in 1..MaxSerial |-> Junk]

Init ==
  /\ BankInit /\ firmware_loaded = FALSE
  /\ startAddr = 0 /\ mem = [a \in Addresses |-> Junk]
  /\ call = NoCall /\ phase = "idle" /\ load = NoLoad
  /\ buffer = NoData /\ status = "Ok"
  /\ calls = 0 /\ faults = 0 /\ resets = 0

-----------------------------------------------------------------------------
(***************************************************************************)
(* inv_icm20948_write_mems and inv_icm20948_read_mems.                     *)
(***************************************************************************)
Start(kind, reg, data) ==
  /\ call' = [kind |-> kind, reg |-> reg, length |-> Len(data),
              data |-> data, done |-> 0]
  /\ phase' = "select"

Bank(reg) == reg \div BankSize

SelectBank ==
  /\ phase = "select"
  /\ \/ /\ SelectSkipped(Bank(call.reg)) \/ SelectWorks(Bank(call.reg))
        /\ Works
        /\ phase' = "address" /\ UNCHANGED status
     \/ /\ SelectFails(Bank(call.reg))
        /\ Fails
        /\ phase' = "returned" /\ status' = "Err"
  /\ UNCHANGED <<device, firmware_loaded, call, buffer, load, bounds>>

(* Mutant of NextAddress: the address is not cut to the offset in the bank.*)
NextAddress_Whole == call.reg + call.done

(* The start address of each burst: reg advances, the bank does not.       *)
NextAddress == (call.reg + call.done) % BankSize

SetStartAddress ==
  /\ phase = "address"
  /\ \/ Works /\ startAddr' = NextAddress /\ phase' = "burst"
        /\ UNCHANGED status
     \/ Fails /\ startAddr' \in {startAddr, NextAddress}
        /\ phase' = "returned" /\ status' = "Err"
  /\ UNCHANGED <<bank, mem, firmware_loaded, call, buffer, load, bounds>>

Least(a, b) == IF a < b THEN a ELSE b
ThisLen == Least(call.length - call.done, MaxSerial)

(* The device moves through the selected bank and wraps inside it.         *)
At(i) == bankSel * BankSize + ((startAddr + i) % BankSize)

BurstMem ==
  [a \in Addresses |->
     IF \E i \in 0..(ThisLen - 1) : a = At(i)
     THEN call.data[call.done + 1 +
            (CHOOSE i \in 0..(ThisLen - 1) : a = At(i))]
     ELSE mem[a]]

BurstBuffer ==
  [i \in DOMAIN buffer |->
     IF i \in (call.done + 1)..(call.done + ThisLen)
     THEN mem[At(i - call.done - 1)]
     ELSE buffer[i]]

(* Mutant of Advance: the start address is written once per call, not once *)
(* per burst.                                                              *)
Advance_NoAddress ==
  /\ call' = [call EXCEPT !.done = @ + ThisLen]
  /\ IF call.done + ThisLen < call.length
     THEN UNCHANGED <<phase, status>>
     ELSE phase' = "returned" /\ status' = "Ok"

Advance ==
  /\ call' = [call EXCEPT !.done = @ + ThisLen]
  /\ IF call.done + ThisLen < call.length
     THEN phase' = "address" /\ UNCHANGED status
     ELSE phase' = "returned" /\ status' = "Ok"

(* "Two consecutive bursts without re-initializing the start address would *)
(* skip one address."                                                      *)
AddressAfterBurst == (startAddr + ThisLen + 1) % BankSize

WriteBurst ==
  /\ phase = "burst" /\ call.kind = "write"
  /\ \/ Works /\ mem' = BurstMem /\ Advance
        /\ startAddr' = AddressAfterBurst
     \/ /\ Fails
        /\ phase' = "returned" /\ status' = "Err" /\ UNCHANGED call
        /\ \/ UNCHANGED <<startAddr, mem>>
           \/ mem' = BurstMem /\ startAddr' = AddressAfterBurst
  /\ UNCHANGED <<bank, firmware_loaded, buffer, load, bounds>>

ReadBurst ==
  /\ phase = "burst" /\ call.kind = "read"
  /\ \/ Works /\ buffer' = BurstBuffer /\ Advance
        /\ startAddr' = AddressAfterBurst
     \/ /\ Fails
        /\ phase' = "returned" /\ status' = "Err"
        /\ startAddr' \in {startAddr, AddressAfterBurst}
        /\ UNCHANGED <<buffer, call>>
  /\ UNCHANGED <<bank, mem, firmware_loaded, load, bounds>>

-----------------------------------------------------------------------------
(***************************************************************************)
(* Calls of the driver's clients: writeDMPmems, readDMPmems,               *)
(* loadDMPFirmware, swReset.                                               *)
(***************************************************************************)
NewCall == Idle /\ calls < MaxCalls /\ calls' = calls + 1

WriteDMPmems(c) ==
  /\ NewCall
  /\ Start("write", c.reg, [i \in 1..c.length |-> Payload])
  /\ UNCHANGED <<bank, device, firmware_loaded, buffer, load, status, faults,
                 resets>>

ReadDMPmems(c) ==
  /\ NewCall
  /\ Start("read", c.reg, [i \in 1..c.length |-> Junk])
  /\ buffer' = [i \in 1..c.length |-> Junk]
  /\ UNCHANGED <<bank, device, firmware_loaded, load, status, faults, resets>>

CallReturns ==
  /\ phase = "returned" /\ load.stage = "none"
  /\ phase' = "idle" /\ call' = NoCall /\ buffer' = NoData
  /\ UNCHANGED <<bank, device, firmware_loaded, load, status, bounds, faults>>

(* The device forgets its registers; the driver keeps what it remembers of *)
(* them.  The memory itself is taken to survive.                           *)
SwReset ==
  /\ Idle /\ resets < MaxResets /\ resets' = resets + 1
  /\ BankReset /\ startAddr' = 0
  /\ UNCHANGED <<mem, firmware_loaded, call, phase, buffer, load, status, calls,
                 faults>>

(* The program is killed, wherever it is, and started again: begin forgets *)
(* what the driver knew and resets the chip.  (When that reset fails begin *)
(* fails and the program ends.)                                            *)
Restart ==
  /\ resets < MaxResets /\ resets' = resets + 1
  /\ BankBegin /\ startAddr' = 0
  /\ firmware_loaded' = FALSE
  /\ call' = NoCall /\ phase' = "idle" /\ load' = NoLoad
  /\ buffer' = NoData /\ status' = "Ok"
  /\ UNCHANGED <<mem, calls, faults>>

(***************************************************************************)
(* inv_icm20948_firmware_load.  data_cmp is an uninitialised local: the    *)
(* comparison after a failed first read sees any bytes.                    *)
(***************************************************************************)
FirstChunk == SubSeq(Image, 1, MaxSerial)

LoadDMPFirmware ==
  /\ NewCall
  /\ \/ /\ firmware_loaded
        /\ status' = "Ok"
        /\ UNCHANGED <<load, buffer>>
     \/ /\ ~firmware_loaded
        /\ load' = [NoLoad EXCEPT !.stage = "wake", !.real = ~stale,
                                  !.faults = faults]
        /\ buffer' \in {NoData, FirstChunk}
        /\ UNCHANGED status
  /\ UNCHANGED <<bank, device, firmware_loaded, call, phase, faults, resets>>

LoadReturns(s) ==
  /\ load' = NoLoad /\ phase' = "idle" /\ call' = NoCall /\ status' = s
  /\ buffer' = NoData

(* ICM_20948_sleep(false), then ICM_20948_low_power(false).                *)
Wake ==
  /\ load.stage = "wake"
  /\ \/ /\ Works
        /\ load' = [load EXCEPT !.stage = "write"]
        /\ UNCHANGED <<call, phase, buffer, status>>
     \/ Fails /\ LoadReturns("Err")
  /\ UNCHANGED <<bank, device, firmware_loaded, bounds>>

(* The length of the next chunk.  A chunk that would pass the end of its   *)
(* bank is cut to the part beyond the bank.                                *)
ChunkSize ==
  LET size   == Least(Len(Image) - load.done, MaxSerial)
      offset == load.memaddr % BankSize
  IN  IF offset + size > BankSize THEN offset + size - BankSize ELSE size

Chunk == SubSeq(Image, load.done + 1, load.done + ChunkSize)

LoadWrite ==
  /\ load.stage = "write" /\ phase = "idle" /\ load.done < Len(Image)
  /\ Start("write", load.memaddr, Chunk)
  /\ UNCHANGED <<bank, device, firmware_loaded, buffer, load, status, bounds,
                 faults>>

NextChunk == [load EXCEPT !.memaddr = @ + ChunkSize, !.done = @ + ChunkSize]

LoadWritten ==
  /\ load.stage = "write" /\ phase = "returned"
  /\ \/ /\ status = "Ok"
        /\ load' = NextChunk
        /\ phase' = "idle"
        /\ UNCHANGED <<call, buffer, status>>
     \/ status # "Ok" /\ LoadReturns("Err")
  /\ UNCHANGED <<bank, device, firmware_loaded, bounds, faults>>

BeginVerify ==
  /\ load.stage = "write" /\ phase = "idle" /\ load.done = Len(Image)
  /\ load' = [load EXCEPT !.stage = "verify", !.memaddr = LoadStart,
                          !.done = 0]
  /\ UNCHANGED <<bank, device, firmware_loaded, call, phase, buffer, status,
                 bounds, faults>>

LoadVerify ==
  /\ load.stage = "verify" /\ phase = "idle" /\ load.done < Len(Image)
  /\ Start("read", load.memaddr, Chunk)
  /\ UNCHANGED <<bank, device, firmware_loaded, buffer, load, status, bounds,
                 faults>>

(* A failed read raises the flag and the buffer is compared all the same.  *)
LoadVerified ==
  /\ load.stage = "verify" /\ phase = "returned"
  /\ \/ /\ IsPrefix(Chunk, buffer)
        /\ load' = [NextChunk EXCEPT !.flag =
                      IF status = "Ok" THEN @ ELSE @ + 1]
        /\ phase' = "idle"
        /\ UNCHANGED <<call, buffer, status>>
     \/ ~IsPrefix(Chunk, buffer) /\ LoadReturns("VerifyFail")
  /\ UNCHANGED <<bank, device, firmware_loaded, bounds, faults>>

(* Mutants of LoadFinish: the flag of failed reads is ignored, or its test *)
(* is inverted.                                                            *)
LoadFinish_IgnoresFlag ==
  /\ load.stage = "verify" /\ phase = "idle" /\ load.done = Len(Image)
  /\ Works
  /\ firmware_loaded' = TRUE
  /\ LoadReturns("Ok")
  /\ UNCHANGED <<bank, device, bounds>>

LoadFinish_Inverted ==
  /\ load.stage = "verify" /\ phase = "idle" /\ load.done = Len(Image)
  /\ Works
  /\ firmware_loaded' = (load.flag # 0)
  /\ LoadReturns("Ok")
  /\ UNCHANGED <<bank, device, bounds>>

(* ICM_20948_low_power(true), and the routine's Ok whatever the flag says. *)
LoadFinish ==
  /\ load.stage = "verify" /\ phase = "idle" /\ load.done = Len(Image)
  /\ \/ /\ Works
        /\ firmware_loaded' = (load.flag = 0)
        /\ LoadReturns("Ok")
     \/ /\ Fails
        /\ LoadReturns("Err")
        /\ UNCHANGED firmware_loaded
  /\ UNCHANGED <<bank, device, bounds>>

Next ==
  \/ SelectBank \/ SetStartAddress \/ WriteBurst \/ ReadBurst
  \/ \E c \in Ranges : WriteDMPmems(c) \/ ReadDMPmems(c)
  \/ CallReturns \/ SwReset \/ Restart
  \/ LoadDMPFirmware \/ Wake \/ LoadWrite \/ LoadWritten
  \/ BeginVerify \/ LoadVerify \/ LoadVerified \/ LoadFinish

Spec == Init /\ [][Next]_vars

-----------------------------------------------------------------------------
Phases == {"idle", "select", "address", "burst", "returned"}
Stages == {"none", "wake", "write", "verify"}

(* Types of the registers, of the cached bank and of the progress fields.  *)
TypeOK ==
  /\ bankSel \in BankNumbers /\ startAddr \in 0..(BankSize - 1)
  /\ mem \in [Addresses -> Nat] /\ buffer \in Seq(Nat)
  /\ last_mems_bank \in BankNumbers \cup {NoBank}
  /\ firmware_loaded \in BOOLEAN /\ stale \in BOOLEAN
  /\ phase \in Phases
  /\ call \in [kind : {"write", "read"}, reg : Nat, length : Nat,
              data : Seq(Nat), done : Nat] /\ call.done <= call.length
  /\ load \in [stage : Stages, memaddr : Nat, done : Nat, flag : Nat,
              real : BOOLEAN, faults : Nat] /\ load.faults <= faults
  /\ status \in {"Ok", "Err", "VerifyFail"}
  /\ calls \in 0..MaxCalls /\ faults \in 0..MaxFaults /\ resets \in 0..MaxResets

CallIs(k) == phase = "returned" /\ call.kind = k /\ status = "Ok"
Landed == \A i \in 1..call.length : mem[call.reg + i - 1] = call.data[i]

(* "@return 0 if successful" of inv_icm20948_write_mems: a write that      *)
(* reports Ok has put its bytes where it was asked to.                     *)
OkWriteLands == CallIs("write") => Landed

(* As long as the remembered bank is the chip's, every step is one of the *)
(* port or a stutter, whatever else failed, was reset or killed before: a  *)
(* call touches no memory but its own range (in particular not the same    *)
(* offset of another bank), stores and fetches the right bytes, and        *)
(* returns Ok only when all of them have moved.                            *)
Port ==
  INSTANCE DmpPort WITH
    call   <- IF phase = "idle" THEN [kind |-> "none", reg |-> 0, data |-> << >>]
              ELSE [kind |-> call.kind, reg |-> call.reg, data |-> call.data],
    answer <- IF phase # "returned" THEN "none"
              ELSE IF status = "Ok" THEN "Ok" ELSE "Err"

PortStep == ~stale => [Port!Next]_(Port!vars)

ImplementsPort == [][PortStep]_vars

HoldsImage == \A a \in ImageRange : mem[a] = ImageAt(a)

(* The driver declares the firmware loaded only when the whole image is in *)
(* memory, whichever transactions failed and however stale the bank cache  *)
(* was when loading began: the verify pass selects its banks afresh.       *)
LoadedMeansImage ==
  [][~firmware_loaded /\ firmware_loaded' => HoldsImage]_vars

LoadEnds == load.stage # "none" /\ load'.stage = "none" /\ resets' = resets

(* Loading again is enough: a load in which no transaction fails, begun    *)
(* with a good bank cache, ends with the firmware loaded, whatever earlier *)
(* loads, failures, resets and restarts have left in memory and registers. *)
CleanLoadLoads ==
  [][LoadEnds /\ load.real /\ faults' = load.faults => firmware_loaded']_vars

-----------------------------------------------------------------------------
(***************************************************************************)
(* The inductive invariant behind the three action properties.             *)
(***************************************************************************)

(* A call stays in its bank; once that bank is selected it is the one      *)
(* remembered, and every burst begins at its own start address.            *)
CallInv ==
  phase # "idle" =>
    /\ call.reg \in Addresses /\ call.length \in Nat \ {0}
    /\ Len(call.data) = call.length
    /\ (call.reg % BankSize) + call.length <= BankSize
    /\ call.kind = "read" => call.length <= Len(buffer)
    /\ phase = "select" => call.done = 0
    /\ phase \in {"address", "burst"} => call.done < call.length
    /\ phase = "burst" => startAddr = NextAddress
    /\ phase = "returned" /\ status = "Ok" => call.done = call.length
    /\ phase \in {"address", "burst"} \/ (phase = "returned" /\ status = "Ok")
         => last_mems_bank = Bank(call.reg)

(* With the right bank selected, what is done of a call is done right.     *)
MoveInv ==
  phase # "idle" /\ ~stale =>
    \A i \in 1..call.done :
      mem[call.reg + i - 1]
        = IF call.kind = "write" THEN call.data[i] ELSE buffer[i]

(* The firmware load goes through the image in whole bursts, and no chunk  *)
(* passes the end of its bank.                                             *)
LoadInv ==
  /\ load.done \in 0..Len(Image) /\ load.memaddr = LoadStart + load.done
  /\ load.done % MaxSerial = 0 \/ load.done = Len(Image)
  /\ load.stage # "verify" => load.flag = 0
  /\ load.stage = "wake" => phase = "idle" /\ load.done = 0
  /\ load.stage # "none" => Len(buffer) = MaxSerial
  /\ load.stage # "none" /\ phase # "idle" =>
       /\ load.done < Len(Image)
       /\ call.kind = (IF load.stage = "write" THEN "write" ELSE "read")
       /\ call.reg = load.memaddr /\ call.data = Chunk
  /\ load.stage = "write" /\ phase = "idle" /\ load.done > 0 =>
       last_mems_bank = Bank(LoadStart + load.done - 1)

Loaded(n) == \A i \in 1..n : mem[LoadStart + i - 1] = Image[i]

(* Until a read of it fails, the verify pass reads the banks it means to   *)
(* read: the first one because the last write selected another one.        *)
VerifyInv ==
  load.stage = "verify" /\ load.flag = 0 =>
    /\ Loaded(load.done)
    /\ IF load.done = 0 /\ phase \in {"idle", "select"}
         THEN last_mems_bank # Bank(LoadStart)
         ELSE ~stale \/ (phase = "returned" /\ status # "Ok")

(* A load without failures, begun with a good bank cache.                  *)
CleanInv ==
  load.stage # "none" /\ load.real /\ faults = load.faults =>
    /\ ~stale /\ load.flag = 0
    /\ phase = "returned" => status = "Ok"
    /\ load.stage = "write" => Loaded(load.done)
    /\ load.stage = "verify" => Loaded(Len(Image))

MemInv == TypeOK /\ CachedBankIsReal /\ CallInv /\ MoveInv /\ LoadInv
            /\ VerifyInv /\ CleanInv
=============================================================================
