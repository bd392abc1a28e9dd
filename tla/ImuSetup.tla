------------------------------ MODULE ImuSetup ------------------------------
(***************************************************************************)
(* Starting the motion sensor: ICM_20948_SPI::begin with startupDefault    *)
(* (minimal, as the DMP is compiled in), initializeDMP, and what setup()   *)
(* of imu/imu_test.cpp does then.  About thirty calls change registers of  *)
(* the chip, each through a few bus transactions; any of them may fail.    *)
(*                                                                         *)
(* The registers are those of one address space.  The driver was written   *)
(* for a chip with four register banks; here set_bank does nothing, and    *)
(* registers of different banks that have the same number are the same     *)
(* register.                                                               *)
(*                                                                         *)
(* A byte is the set of its bits that are 1.  What the DMP's memory holds  *)
(* is in modules DmpMemory and DmpSensors: here a call that writes it      *)
(* succeeds or fails.  The chip resets its registers when DEVICE_RESET is  *)
(* written and keeps what is written otherwise.                            *)
(*                                                                         *)
(* The program ends only when it is killed.  It can be started again, on a *)
(* chip in whatever state that left.                                       *)
(***************************************************************************)
EXTENDS Integers, Sequences, SequencesExt

CONSTANTS
  Garbage,     \* bytes an uninitialised local may hold
  MaxFaults    \* bound on the bus transactions that fail

Bit == 0 .. 7

ASSUME GarbageAssumption == Garbage # {} /\ Garbage \subseteq SUBSET Bit
ASSUME MaxFaultsAssumption == MaxFaults \in Nat

Hex(h, l) == 16 * h + l

Bits(n) == {i \in Bit : (n \div 2^i) % 2 = 1}

-----------------------------------------------------------------------------
(* Addresses (ICM_20948_REGISTERS.h).  AGB3_REG_ and AGB2_REG_ registers   *)
(* that share a number with another one carry its name in the comment.     *)
USER_CTRL         == Hex(0, 3)    \* I2C_PERIPH0_ADDR
I2C_PERIPH0_REG   == Hex(0, 4)
LP_CONFIG         == Hex(0, 5)    \* I2C_PERIPH0_CTRL
I2C_PERIPH1_ADDR  == Hex(0, 7)
I2C_PERIPH1_REG   == Hex(0, 8)
I2C_PERIPH1_CTRL  == Hex(0, 9)
I2C_PERIPH1_DO    == Hex(0, 10)
GYRO_SMPLRT_DIV   == Hex(0, 0)    \* I2C_MST_ODR_CONFIG
INT_ENABLE        == Hex(1, 0)    \* ACCEL_SMPLRT_DIV_1
INT_ENABLE_1      == Hex(1, 1)    \* ACCEL_SMPLRT_DIV_2
INT_ENABLE_2      == Hex(1, 2)
INT_ENABLE_3      == Hex(1, 3)
GYRO_CONFIG_1     == Hex(1, 11)
ACCEL_CONFIG      == Hex(1, 12)
FIFO_PRIORITY_SEL == Hex(2, 6)
TIMEBASE_CORRECTION_PLL == Hex(2, 8)    \* DELAY_TIMEH
PRGM_START_ADDRH  == Hex(5, 0)
PRGM_START_ADDRL  == Hex(5, 1)
FIFO_EN_1         == Hex(6, 6)
FIFO_EN_2         == Hex(6, 7)
FIFO_RST          == Hex(6, 8)
PWR_MGMT_1        == Hex(6, 11)
PWR_MGMT_2        == Hex(6, 12)
WHO_AM_I          == Hex(7, 5)    \* HW_FIX_DISABLE

Registers ==
  {USER_CTRL, I2C_PERIPH0_REG, LP_CONFIG, I2C_PERIPH1_ADDR, I2C_PERIPH1_REG,
   I2C_PERIPH1_CTRL, I2C_PERIPH1_DO, GYRO_SMPLRT_DIV, INT_ENABLE,
   INT_ENABLE_1, INT_ENABLE_2, INT_ENABLE_3, GYRO_CONFIG_1, ACCEL_CONFIG,
   FIFO_PRIORITY_SEL, TIMEBASE_CORRECTION_PLL, PRGM_START_ADDRH,
   PRGM_START_ADDRL, FIFO_EN_1, FIFO_EN_2, FIFO_RST, PWR_MGMT_1, PWR_MGMT_2,
   WHO_AM_I}

(* After a reset the chip sleeps. *)
Default == [r \in Registers |-> IF r = PWR_MGMT_1 THEN {6} ELSE {}]

Byte == SUBSET Bit

-----------------------------------------------------------------------------
(* A call is the list of its transactions, and whether it stops at the     *)
(* first that fails ("careful") or collects the results and goes on.       *)
(* A transaction reads a register into a local, writes the local with the  *)
(* bits of mask replaced, compares what was read, or does something that   *)
(* changes no register.  Of these a call may remember a failure and go on  *)
(* ("late"), or overwrite the result before it looks at it ("ignored").    *)
Read(r)              == [op |-> "read", reg |-> r, mask |-> {}, bits |-> {}]
Write(r, mask, bits) == [op |-> "write", reg |-> r, mask |-> mask, bits |-> bits]
Compare(r, mask, bits) ==
  [op |-> "compare", reg |-> r, mask |-> mask, bits |-> bits]
Unregistered(op) == [op |-> op, reg |-> WHO_AM_I, mask |-> {}, bits |-> {}]
Other   == Unregistered("other")
Late    == Unregistered("late")
Ignored == Unregistered("ignored")

Careful(steps) == [careful |-> TRUE, steps |-> steps]
GoesOn(steps)  == [careful |-> FALSE, steps |-> steps]

Put(r, n) == Write(r, Bit, Bits(n))
Modify(r, mask, bits) == <<Read(r), Write(r, mask, bits)>>

(* Mutant of SwReset: it does not ask for the reset.                       *)
SwReset_NoReset == Careful(Modify(PWR_MGMT_1, Bit, {0}))

SwReset        == Careful(Modify(PWR_MGMT_1, Bit, {0, 7}))
CheckID        == Careful(<<Read(WHO_AM_I), Other>>)
WakeUp         == Modify(PWR_MGMT_1, {6}, {})
SetClockSource == Careful(Modify(PWR_MGMT_1, {0, 1, 2}, {0}))
LowPower       == Modify(PWR_MGMT_1, {}, {})

SetSampleMode  == Careful(Modify(LP_CONFIG, {6}, {6}))

SetFullScale(a, g) ==
  GoesOn(Modify(ACCEL_CONFIG, {3, 4}, a) \o Modify(GYRO_CONFIG_1, {3, 4}, g))

EnableDLPF == GoesOn(Modify(GYRO_CONFIG_1, {0, 1}, {0}))

ConfigurePeripheral0 ==
  Careful(<<Put(USER_CTRL, Hex(8, 12)), Put(I2C_PERIPH0_REG, Hex(0, 3)),
            Put(LP_CONFIG, Hex(13, 10))>>)

ConfigurePeripheral1 ==
  Careful(<<Put(I2C_PERIPH1_ADDR, Hex(0, 12)), Put(I2C_PERIPH1_DO, Hex(0, 1)),
            Put(I2C_PERIPH1_REG, Hex(3, 1)), Put(I2C_PERIPH1_CTRL, Hex(8, 1))>>)

WriteByte(r, n) == Careful(<<Put(r, n)>>)

EnableFIFO(on) == Careful(Modify(USER_CTRL, {6}, IF on THEN {6} ELSE {}))
EnableDMP(on)  == Careful(Modify(USER_CTRL, {7}, IF on THEN {7} ELSE {}))
ResetDMP       == Careful(Modify(USER_CTRL, {3}, {3}))

ResetFIFO ==
  Careful(<<Read(FIFO_RST), Write(FIFO_RST, 0 .. 4, 0 .. 4),
            Write(FIFO_RST, 0 .. 4, 1 .. 4)>>)

(* int_enable reads and writes all four registers, and clears the bits it  *)
(* has no name for; intEnableRawDataReady compares what it reads back.     *)
ReadInterrupts ==
  <<Read(INT_ENABLE), Read(INT_ENABLE_1), Read(INT_ENABLE_2), Read(INT_ENABLE_3)>>

RawDataReadyOff ==
  Careful(ReadInterrupts
          \o <<Write(INT_ENABLE, {4, 5, 6}, {}), Write(INT_ENABLE_1, Bit, {}),
               Write(INT_ENABLE_2, {5, 6, 7}, {}),
               Write(INT_ENABLE_3, {5, 6, 7}, {})>>
          \o ReadInterrupts \o <<Compare(INT_ENABLE_1, {0}, {})>>)

(* The high part of the accelerometer's divider is shifted the wrong way   *)
(* out of its byte.                                                        *)
SetSampleRate ==
  GoesOn(<<Put(INT_ENABLE, 0), Put(INT_ENABLE_1, 19), Put(GYRO_SMPLRT_DIV, 19)>>)

(* The code writes both bytes of 0x1000 in one transaction.  It is two     *)
(* here, as one that fails may have written the first byte only.           *)
SetDMPstartAddress ==
  Careful(<<Put(PRGM_START_ADDRH, Hex(1, 0)), Put(PRGM_START_ADDRL, 0)>>)

(* The routines of the DMP wake the chip, access its memory, and leave it. *)
(* loadDMPFirmware does not report that a read of its verify pass failed,  *)
(* setDMPODRrate not that the write of the rate did.  setGyroSF writes a   *)
(* factor it computes from a register.  The writes of parameters before    *)
(* and after it are one call each here: none changes a register, and each  *)
(* that fails makes initializeDMP return an error.                         *)
Awake(accesses) == Careful(WakeUp \o LowPower \o accesses \o LowPower)

LoadDMPFirmware == Awake(<<Other, Ignored>>)
EnableDMPSensor == Awake(<<Other>>)
SetDMPODRrate   == Awake(<<Ignored, Late>>)
WriteDMPmems    == Careful(<<Other>>)
SetGyroSF       == Careful(<<Read(TIMEBASE_CORRECTION_PLL), Other>>)

-----------------------------------------------------------------------------
Begin == <<SwReset, CheckID, Careful(WakeUp), SetFullScale({3, 4}, {3, 4})>>

InitializeDMP ==
  <<ConfigurePeripheral0, ConfigurePeripheral1, WriteByte(GYRO_SMPLRT_DIV, Hex(0, 4)),
    SetClockSource, WriteByte(PWR_MGMT_2, Hex(4, 0)), SetSampleMode,
    EnableFIFO(FALSE), EnableDMP(FALSE), SetFullScale({3}, {3, 4}), EnableDLPF,
    WriteByte(FIFO_EN_1, 0), WriteByte(FIFO_EN_2, 0), RawDataReadyOff, ResetFIFO,
    SetSampleRate, SetDMPstartAddress, LoadDMPFirmware, SetDMPstartAddress,
    WriteByte(WHO_AM_I, Hex(4, 8)), WriteByte(FIFO_PRIORITY_SEL, Hex(14, 4)),
    WriteDMPmems, SetGyroSF, WriteDMPmems>>

Client ==
  <<EnableDMPSensor, SetDMPODRrate, EnableFIFO(TRUE), EnableDMP(TRUE), ResetDMP,
    ResetFIFO>>

Program == Begin \o InitializeDMP \o Client

-----------------------------------------------------------------------------
VARIABLES
  pc,        \* "open", "call", "returned", or how the program ended
  regs,      \* the registers of the chip
  call,      \* the call of Program that runs
  step,      \* its next transaction
  local,     \* its locals: the registers it has read
  result,    \* "Ok" or "Err": its result so far
  success,   \* no call after begin has failed
  before,    \* history: the registers when the call began
  faults     \* failed transactions so far

callVars == <<step, local, result>>
vars == <<pc, regs, call, callVars, success, before, faults>>

Untouched == [r \in Registers |-> {}]

(* The chip may have been in use before the program starts. *)
Init ==
  /\ pc = "open"
  /\ regs \in {Default, [r \in Registers |-> Bit]}
  /\ call = 1 /\ step = 1 /\ local = Untouched
  /\ result = "Ok" /\ success = TRUE
  /\ before = regs /\ faults = 0

OpenSPI ==
  /\ pc = "open"
  /\ pc' = "call"
  /\ UNCHANGED <<regs, call, callVars, success, before, faults>>

(* spiOpen fails: begin returns without setting status, which setup looks  *)
(* at; the first transaction then goes through a null pointer.             *)
OpenSPIFails ==
  /\ pc = "open"
  /\ pc' = "crashed"
  /\ UNCHANGED <<regs, call, callVars, success, before, faults>>

Now == Program[call].steps[step]
Merged == (local[Now.reg] \ Now.mask) \cup Now.bits

(* What the chip makes of a byte. *)
Written(from, r, byte) ==
  IF r = PWR_MGMT_1 /\ 7 \in byte THEN Default ELSE [from EXCEPT ![r] = byte]

AtLastStep == step = Len(Program[call].steps)

Advance ==
  /\ step' = step + 1
  /\ pc' = IF AtLastStep THEN "returned" ELSE "call"

(* Mutant of Works: a good transaction covers up an earlier failure. *)
Works_Forgets ==
  /\ pc = "call"
  /\ Advance
  /\ CASE Now.op = "read"  -> /\ local' = [local EXCEPT ![Now.reg] = regs[Now.reg]]
                              /\ UNCHANGED regs
       [] Now.op = "write" -> /\ regs' = Written(regs, Now.reg, Merged)
                              /\ local' = [local EXCEPT ![Now.reg] = Merged]
       [] OTHER            -> UNCHANGED <<regs, local>>
  /\ result' = "Ok"
  /\ UNCHANGED <<call, success, before, faults>>

(* A transaction succeeds. *)
Works ==
  /\ pc = "call"
  /\ Advance
  /\ CASE Now.op = "read"  -> /\ local' = [local EXCEPT ![Now.reg] = regs[Now.reg]]
                              /\ UNCHANGED regs
       [] Now.op = "write" -> /\ regs' = Written(regs, Now.reg, Merged)
                              /\ local' = [local EXCEPT ![Now.reg] = Merged]
       [] OTHER            -> UNCHANGED <<regs, local>>
  /\ result' = IF Now.op = "compare" /\ local[Now.reg] \cap Now.mask # Now.bits
                 THEN "Err" ELSE result
  /\ UNCHANGED <<call, success, before, faults>>

(* Mutant of Fails: the call goes on after every failure. *)
Fails_GoesOn ==
  /\ pc = "call" /\ Now.op # "compare"
  /\ faults < MaxFaults /\ faults' = faults + 1
  /\ result' = "Err"
  /\ \/ Now.op = "write" /\ regs' = Written(regs, Now.reg, Merged)
     \/ UNCHANGED regs
  /\ \E g \in Garbage : local' = [local EXCEPT ![Now.reg] = g]
  /\ Advance
  /\ UNCHANGED <<call, success, before>>

(* A transaction fails.  A failed write may have reached the chip; a       *)
(* failed read leaves the local as it was, uninitialised.                  *)
Fails ==
  /\ pc = "call" /\ Now.op # "compare"
  /\ faults < MaxFaults /\ faults' = faults + 1
  /\ result' = IF Now.op = "ignored" THEN result ELSE "Err"
  /\ \/ Now.op = "write" /\ regs' = Written(regs, Now.reg, Merged)
     \/ UNCHANGED regs
  /\ IF Program[call].careful /\ Now.op \notin {"late", "ignored"}
       THEN pc' = "returned" /\ UNCHANGED <<step, local>>
       ELSE /\ Advance
            /\ IF Now.op = "read"
                 THEN \E g \in Garbage : local' = [local EXCEPT ![Now.reg] = g]
                 ELSE local' = [local EXCEPT ![Now.reg] = Merged]
  /\ UNCHANGED <<call, success, before>>

(* Mutant of Return: the last call's result alone decides.                 *)
Return_LastDecides ==
  /\ pc = "returned"
  /\ success' = (result = "Ok")
  /\ IF result = "Err" /\ call <= Len(Begin)
       THEN pc' = "exited" /\ UNCHANGED <<call, callVars, before>>
       ELSE IF call = Len(Program)
         THEN /\ pc' = IF success' THEN "enabled" ELSE "failed"
              /\ UNCHANGED <<call, callVars, before>>
         ELSE /\ pc' = "call" /\ call' = call + 1
              /\ step' = 1 /\ local' = Untouched /\ result' = "Ok"
              /\ before' = regs
  /\ UNCHANGED <<regs, faults>>

(* A failure before begin has returned ends the program; later ones make   *)
(* initializeDMP return its worst result, and clear setup's success, but   *)
(* every call is made.  At the end setup reports success, or loops.        *)
Return ==
  /\ pc = "returned"
  /\ success' = (success /\ result = "Ok")
  /\ IF result = "Err" /\ call <= Len(Begin)
       THEN pc' = "exited" /\ UNCHANGED <<call, callVars, before>>
       ELSE IF call = Len(Program)
         THEN /\ pc' = IF success' THEN "enabled" ELSE "failed"
              /\ UNCHANGED <<call, callVars, before>>
         ELSE /\ pc' = "call" /\ call' = call + 1
              /\ step' = 1 /\ local' = Untouched /\ result' = "Ok"
              /\ before' = regs
  /\ UNCHANGED <<regs, faults>>

(* The program is killed (setup's loop after a failure and main's loop     *)
(* have no other end), or has ended, and is started again.                 *)
Restart ==
  /\ pc # "open"
  /\ pc' = "open"
  /\ call' = 1 /\ step' = 1 /\ local' = Untouched
  /\ result' = "Ok" /\ success' = TRUE
  /\ before' = regs
  /\ UNCHANGED <<regs, faults>>

Next == OpenSPI \/ OpenSPIFails \/ Works \/ Fails \/ Return \/ Restart

Spec == Init /\ [][Next]_vars

-----------------------------------------------------------------------------
(* Every register is a byte, and setup runs through the calls of Program.  *)
TypeOK ==
  /\ pc \in {"open", "call", "returned", "enabled", "failed", "exited", "crashed"}
  /\ regs \in [Registers -> Byte] /\ before \in [Registers -> Byte]
  /\ local \in [Registers -> Byte]
  /\ call \in 1 .. Len(Program) /\ step \in 1 .. Len(Program[call].steps) + 1
  /\ result \in {"Ok", "Err"} /\ success \in BOOLEAN
  /\ faults \in 0 .. MaxFaults

(* The writes that are about bit b of register r, as pairs of a call and   *)
(* one of its transactions; the first call resets the chip.                *)
WritesTo(r, b) ==
  UNION {{<<c, i>> : i \in {i \in DOMAIN Program[c].steps :
                              LET s == Program[c].steps[i]
                              IN s.op = "write" /\ s.reg = r /\ b \in s.mask}} :
           c \in 2 .. Len(Program)}

Precedes(p, q) == p[1] < q[1] \/ (p[1] = q[1] /\ p[2] < q[2])

(* What the last of the writes W, all about bit b of register r, asks for. *)
AskedFor(W, r, b) ==
  IF W = {} THEN b \in Default[r]
  ELSE \E p \in W : /\ \A q \in W : ~Precedes(p, q)
                    /\ b \in Program[p[1]].steps[p[2]].bits

(* The registers as they are meant to be when setup gets to transaction i  *)
(* of call c, and at its end.                                              *)
ConfiguredAt(c, i) ==
  [r \in Registers |->
     {b \in Bit : AskedFor({p \in WritesTo(r, b) : Precedes(p, <<c, i>>)}, r, b)}]

Configured == ConfiguredAt(Len(Program) + 1, 1)

(* When setup says "DMP enabled!" every bit of every register is what the  *)
(* last write about it asked for, although the calls after begin go on     *)
(* past failures and retry nothing, most of them read a register and write *)
(* it back, and an earlier program that was killed may have left anything  *)
(* in them: every failed transaction of a register that mattered was       *)
(* reported.  (ICM_20948_rpi.cpp 1144-1391, imu_test.cpp 77-137)           *)
EnabledMeansConfigured == pc = "enabled" => regs = Configured

(* The bits of a register that a call is there to change. *)
Fields(c, r) ==
  IF c = 1 THEN Bit
  ELSE UNION {s.mask : s \in {s \in ToSet(Program[c].steps) :
                                s.op = "write" /\ s.reg = r}}

OthersKept ==
  \A r \in Registers : regs[r] \ Fields(call, r) = before[r] \ Fields(call, r)

(* "read->set->write ... to leave other settings untouched"                *)
(* (ICM_20948_rpi.cpp:537): no call but set_full_scale and enable_dlpf     *)
(* ever changes a field it is not about, whichever transactions fail.      *)
CarefulKeepsOthers ==
  pc = "returned" /\ Program[call].careful => OthersKept

(* Those two write an uninitialised byte over the other fields of a        *)
(* register they could not read; but never without reporting an error.     *)
OkKeepsOthers == pc = "returned" /\ result = "Ok" => OthersKept

(* "Turn off data ready interrupt through INT_ENABLE_1"                    *)
(* (ICM_20948_rpi.cpp:1262): it is off when the DMP is enabled.            *)
DataReadyInterruptOff == pc = "enabled" => 0 \notin regs[INT_ENABLE_1]
-----------------------------------------------------------------------------
(***************************************************************************)
(* The inductive invariant behind these properties.                        *)
(***************************************************************************)
(* Nothing is done before the bus is open.  A call that has returned has   *)
(* made all its transactions, unless it was careful and one failed.        *)
StepInv ==
  /\ pc = "open" => call = 1 /\ step = 1 /\ before = regs
  /\ pc = "call" => step <= Len(Program[call].steps)
  /\ pc = "returned" /\ (result = "Ok" \/ ~Program[call].careful) =>
       step = Len(Program[call].steps) + 1

(* The first call has reset the chip, or the program has ended; no later   *)
(* call ever has DEVICE_RESET in a byte that it could write back.          *)
ResetInv ==
  /\ call = 1 /\ step = 3 /\ result = "Ok" => regs = Default
  /\ call > 1 => 7 \notin regs[PWR_MGMT_1] /\ 7 \notin local[PWR_MGMT_1]

HasRead(r) ==
  \E i \in 1 .. step - 1 : Program[call].steps[i].op = "read"
                        /\ Program[call].steps[i].reg = r

(* While a call leaves other fields alone, so do its locals, once read.    *)
KeepInv ==
  /\ pc \in {"call", "returned"}
  /\ Program[call].careful \/ result = "Ok"
  => /\ OthersKept
     /\ \A r \in Registers :
          HasRead(r) => local[r] \ Fields(call, r) = before[r] \ Fields(call, r)

(* As long as nothing that matters has failed the registers are what they  *)
(* are meant to be at this point, and the locals what the registers are.   *)
ConfigInv ==
  /\ pc \in {"call", "returned"} /\ success /\ result = "Ok" /\ call > 1 =>
       /\ regs = ConfiguredAt(call, step)
       /\ \A r \in Registers : HasRead(r) => local[r] = regs[r]
  /\ pc = "enabled" => regs = Configured

ImuInv == TypeOK /\ StepInv /\ ResetInv /\ KeepInv /\ ConfigInv

=============================================================================
