----------------------------- MODULE DmpSensors -----------------------------
(***************************************************************************)
(* Choosing what the DMP computes (imu/util/ICM_20948_C.c): the routines   *)
(* inv_icm20948_enable_dmp_sensor, inv_icm20948_enable_dmp_sensor_int and  *)
(* inv_icm20948_set_dmp_sensor_period.  The driver keeps the set of        *)
(* enabled sensors and, on every call, derives from it the control         *)
(* registers in DMP memory and writes them one after the other; any of     *)
(* these writes may fail.                                                  *)
(*                                                                         *)
(* A write of a register is one step here (module DmpMemory has its bus    *)
(* transactions): it lands, or it fails and may have landed all the same.  *)
(* All these registers are in bank 0 of DMP memory and the parameters that *)
(* initializeDMP writes are in others: with a stale bank (module DmpBank)  *)
(* one lands in the place of the other.  The program may be killed and     *)
(* started again.                                                          *)
(***************************************************************************)
EXTENDS DmpBank

CONSTANTS Sensors,      \* Android sensors
          Outputs,      \* [Sensors -> SUBSET Bits], the table of DATA_OUT_CTL1
          Needs,        \* [Sensors -> SUBSET Parts], the INV_NEEDS masks
          Bits,         \* outputs of the DMP
          MotionBits,   \* those MOTION_EVENT_CTL must know of
          Parts,        \* accelerometer, gyroscope, compass
          Accuracy,     \* [Bits -> SUBSET Parts], accuracy data via header2
          Unsupported,  \* sensors whose table entry is 0xFFFF
          Unknown,      \* what sensor_type_2_android_sensor maps nothing to:
                        \* ANDROID_SENSOR_NUM_MAX, one past the table
          Intervals,    \* output data rates
          MaxCalls,     \* bound: calls
          MaxFaults,    \* bound: bus transactions that fail
          MaxRestarts   \* bound: restarts of the program

ASSUME SensorsAssumption ==
  /\ Outputs \in [Sensors -> SUBSET Bits] /\ Needs \in [Sensors -> SUBSET Parts]
  /\ Accuracy \in [Bits -> SUBSET Parts]
  /\ MotionBits \subseteq Bits
  /\ Unsupported \subseteq Sensors /\ Unknown \notin Sensors
  /\ Banks > 1
  /\ MaxCalls \in Nat /\ MaxFaults \in Nat /\ MaxRestarts \in Nat

Supported == Sensors \ Unsupported

VARIABLES
  enabled,       \* _enabled_Android_0 and _1
  enabled_intr,  \* _enabled_Android_intr_0 and _1
  setting,       \* registers of the DMP: [out1, out2, ready, motion, intr],
                 \* interval (the rate), reset (the rate's counter is 0)
  beyond,        \* what lies behind the table of control bits
  op, pc,        \* the routine that runs, and where it is
  want,          \* the interval set_dmp_sensor_period was called with
  result2,       \* its result2
  status,        \* what the last call returned
  calls, faults, restarts

host   == <<enabled, enabled_intr>>
where  == <<op, pc, want, result2, status>>
bounds == <<calls, beyond, restarts>>
vars   == <<bank, host, setting, where, bounds, faults>>

Results == {"Ok", "Err"}

Init ==
  /\ BankInit
  /\ enabled = {} /\ enabled_intr = {}
  /\ setting = [out1 |-> {}, out2 |-> {}, ready |-> {}, motion |-> {},
                intr |-> {}, interval |-> 0, reset |-> TRUE]
  /\ beyond \in SUBSET Bits
  /\ op = "none" /\ pc = "idle" /\ want = 0
  /\ result2 = "Ok" /\ status = "Ok"
  /\ calls = 0 /\ faults = 0 /\ restarts = 0

Works == UNCHANGED faults
Fails == faults < MaxFaults /\ faults' = faults + 1

Call(routine, to) ==
  /\ pc = "idle" /\ calls < MaxCalls /\ calls' = calls + 1
  /\ op' = routine /\ pc' = to /\ result2' = "Ok"
  /\ UNCHANGED <<beyond, restarts>>

(* Mutant of WriteMems: the bank is not selected at all. *)
WriteMems_NoSelect(b, new, result) ==
  /\ \/ Works /\ result = "Ok" /\ setting' = new
     \/ Fails /\ result = "Err" /\ setting' \in {setting, new}
  /\ UNCHANGED bank

(* inv_icm20948_write_mems for a register in bank b; new is what bank 0    *)
(* holds if the bytes end up there.                                        *)
ControlBank == 0
OtherBank   == 1

WriteMems(b, new, result) ==
  LET landed == IF bankSel' = ControlBank THEN new ELSE setting
  IN  \/ /\ SelectSkipped(b) \/ SelectWorks(b)
         /\ \/ Works /\ result = "Ok" /\ setting' = landed
            \/ Fails /\ result = "Err" /\ setting' \in {setting, landed}
      \/ SelectFails(b) /\ Fails /\ result = "Err" /\ UNCHANGED setting

-----------------------------------------------------------------------------
(***************************************************************************)
(* inv_icm20948_enable_dmp_sensor.                                         *)
(***************************************************************************)
Switch(set, s, on) == IF on THEN set \cup {s} ELSE set \ {s}

(* Mutant of EnableDMPSensor: the sensor is not checked against the table. *)
EnableDMPSensor_Unchecked(s, on) ==
  /\ Call("enable", "wake")
  /\ enabled' = Switch(enabled, s, on)
  /\ UNCHANGED <<bank, enabled_intr, setting, want, status, faults>>

EnableDMPSensor(s, on) ==
  /\ s \in Supported
  /\ Call("enable", "wake")
  /\ enabled' = Switch(enabled, s, on)
  /\ UNCHANGED <<bank, enabled_intr, setting, want, status, faults>>

EnableUnsupported(s) ==
  /\ s \in Unsupported \cup {Unknown}
  /\ Call("enable", "idle")
  /\ status' = "NotSupported"
  /\ UNCHANGED <<bank, host, setting, want, faults>>

(* Mutant of ControlBits: the outputs all enabled sensors share. *)
ControlBits_Shared(set) ==
  {b \in Bits : set # {} /\ \A s \in set :
     b \in IF s = Unknown THEN beyond ELSE Outputs[s]}

(* The outputs of all enabled sensors; the entry one past the table is     *)
(* whatever the build put there.                                           *)
ControlBits(set) ==
  UNION {IF s = Unknown THEN beyond ELSE Outputs[s] : s \in set}

(* The loop tests the masks of all sensors, not of the enabled ones.       *)
DataReady == UNION {Needs[s] : s \in Sensors}

Derived(register) ==
  CASE register = "out1"   -> ControlBits(enabled)
    [] register = "out2"   -> UNION {Accuracy[b] : b \in ControlBits(enabled)}
    [] register = "ready"  -> DataReady
    [] register = "motion" -> DataReady \cup (ControlBits(enabled) \cap MotionBits)

After == [out1 |-> "out2", out2 |-> "ready", ready |-> "motion",
          motion |-> "lowpower"]

(* Mutant of WriteControl: a failed write is passed over. *)
WriteControl_GoesOn ==
  /\ pc \in DOMAIN After
  /\ \E r \in Results :
       WriteMems(ControlBank, [setting EXCEPT ![pc] = Derived(pc)], r)
  /\ pc' = After[pc]
  /\ UNCHANGED <<host, op, want, result2, status, bounds>>

(* One of the four writes; a failure ends the call.                        *)
WriteControl ==
  /\ pc \in DOMAIN After
  /\ \E r \in Results :
       /\ WriteMems(ControlBank, [setting EXCEPT ![pc] = Derived(pc)], r)
       /\ \/ r = "Ok" /\ pc' = After[pc] /\ UNCHANGED status
          \/ r = "Err" /\ pc' = "idle" /\ status' = "Err"
  /\ UNCHANGED <<host, op, want, result2, bounds>>

(***************************************************************************)
(* inv_icm20948_enable_dmp_sensor_int.  Its range check lets the unknown   *)
(* sensor pass; it is refused only if 0xFFFF lies behind the table.        *)
(***************************************************************************)
EnableDMPSensorInt(s, on) ==
  /\ s \in Supported \/ (s = Unknown /\ beyond # Bits)
  /\ Call("intr", "wake")
  /\ enabled_intr' = Switch(enabled_intr, s, on)
  /\ UNCHANGED <<bank, enabled, setting, want, status, faults>>

EnableIntUnsupported(s) ==
  /\ s \in Unsupported \/ (s = Unknown /\ beyond = Bits)
  /\ Call("intr", "idle")
  /\ status' = "NotSupported"
  /\ UNCHANGED <<bank, host, setting, want, faults>>

(* The result of this write is overwritten by that of low_power.           *)
WriteInterrupts ==
  /\ pc = "interrupts"
  /\ \E r \in Results :
       WriteMems(ControlBank, [setting EXCEPT !.intr = ControlBits(enabled_intr)], r)
  /\ pc' = "lowpower"
  /\ UNCHANGED <<host, op, want, result2, status, bounds>>

(***************************************************************************)
(* inv_icm20948_set_dmp_sensor_period: the rate, then the counter.         *)
(***************************************************************************)
SetDMPODRrate(interval) ==
  /\ Call("odr", "wake")
  /\ want' = interval
  /\ UNCHANGED <<bank, host, setting, status, faults>>

(* A rate register without a case of its own: nothing is written, and the  *)
(* result set for it is overwritten.                                       *)
SetDMPODRrateUnknown ==
  /\ Call("odr_unknown", "wake")
  /\ UNCHANGED <<bank, host, setting, want, status, faults>>

(* The result of this write is overwritten, too.                           *)
WriteInterval ==
  /\ pc = "interval"
  /\ \E r \in Results :
       WriteMems(ControlBank,
                 [setting EXCEPT !.interval = want, !.reset = FALSE], r)
  /\ pc' = "counter"
  /\ UNCHANGED <<host, op, want, result2, status, bounds>>

ResetCounter ==
  /\ pc = "counter"
  /\ \E r \in Results :
       WriteMems(ControlBank, [setting EXCEPT !.reset = TRUE], r) /\ result2' = r
  /\ pc' = "lowpower"
  /\ UNCHANGED <<host, op, want, status, bounds>>

(***************************************************************************)
(* writeDMPmems of the parameters in initializeDMP.  The offset of one of  *)
(* them (CPASS_MTX_20, whose bytes are 0) is in bank 0 that of             *)
(* DATA_RDY_STATUS and of the counter of a rate; the offsets of the others *)
(* are nothing of interest there.                                          *)
(***************************************************************************)
Overlaid == [setting EXCEPT !.ready = {}, !.reset = TRUE]

WriteDMPmems(overlaid) ==
  /\ Call("parameter", "idle")
  /\ \E r \in Results :
       /\ WriteMems(OtherBank, IF overlaid THEN Overlaid ELSE setting, r)
       /\ status' = r
  /\ UNCHANGED <<host, want>>

-----------------------------------------------------------------------------
(* What all three do before their writes (sleep(false), low_power(false))  *)
(* and after them (low_power(true)).                                       *)
First == [enable |-> "out1", intr |-> "interrupts", odr |-> "interval",
          odr_unknown |-> "lowpower"]

Wake ==
  /\ pc = "wake"
  /\ \/ Works /\ pc' = First[op] /\ UNCHANGED status
     \/ Fails /\ pc' = "idle" /\ status' = "Err"
  /\ UNCHANGED <<bank, host, setting, op, want, result2, bounds>>

LowPower ==
  /\ pc = "lowpower"
  /\ \/ Works /\ status' = result2
     \/ Fails /\ status' = "Err"
  /\ pc' = "idle"
  /\ UNCHANGED <<bank, host, setting, op, want, result2, bounds>>

(* The program is killed and started again.  begin forgets everything; the *)
(* memory of the DMP keeps its bytes, but the firmware, loaded again,      *)
(* covers the rates.                                                       *)
Restart ==
  /\ restarts < MaxRestarts /\ restarts' = restarts + 1
  /\ BankBegin
  /\ enabled' = {} /\ enabled_intr' = {}
  /\ setting' \in {setting, [setting EXCEPT !.interval = 0]}
  /\ op' = "none" /\ pc' = "idle" /\ want' = 0
  /\ result2' = "Ok" /\ status' = "Ok"
  /\ UNCHANGED <<calls, beyond, faults>>

Next ==
  \/ \E s \in Sensors \cup {Unknown} :
       \/ \E on \in BOOLEAN : EnableDMPSensor(s, on) \/ EnableDMPSensorInt(s, on)
       \/ EnableUnsupported(s) \/ EnableIntUnsupported(s)
  \/ (\E i \in Intervals : SetDMPODRrate(i)) \/ SetDMPODRrateUnknown
  \/ \E overlaid \in BOOLEAN : WriteDMPmems(overlaid)
  \/ Wake \/ WriteControl \/ WriteInterrupts
  \/ WriteInterval \/ ResetCounter \/ LowPower \/ Restart

Spec == Init /\ [][Next]_vars

-----------------------------------------------------------------------------
(* The sets hold what their words of bits can hold, and only sensors of    *)
(* the table are enabled (an interrupt also for the one past it).          *)
TypeOK ==
  /\ enabled \subseteq Supported /\ enabled_intr \subseteq Supported \cup {Unknown}
  /\ setting \in [out1 : SUBSET Bits, out2 : SUBSET Parts,
                 ready : SUBSET Parts, motion : SUBSET (Bits \cup Parts),
                 intr : SUBSET Bits, interval : Intervals \cup {0},
                 reset : BOOLEAN]
  /\ want \in Intervals \cup {0} /\ beyond \subseteq Bits
  /\ pc \in {"idle", "wake", "lowpower", "interrupts", "interval", "counter"}
              \cup DOMAIN After
  /\ op \in {"none", "parameter"} \cup DOMAIN First
  /\ status \in Results \cup {"NotSupported"} /\ result2 \in Results
  /\ calls \in 0..MaxCalls /\ faults \in 0..MaxFaults
  /\ restarts \in 0..MaxRestarts

(* Where each routine runs. *)
PlaceInv ==
  /\ pc \in DOMAIN After => op = "enable"
  /\ pc = "interrupts" => op = "intr"
  /\ pc \in {"interval", "counter"} => op = "odr"
  /\ pc \in {"wake", "lowpower"} => op \in DOMAIN First

(* A call that has made its first write goes on in bank 0, and what it has *)
(* written is there unless the bank is stale.                              *)
Wrote(register) ==
  \/ op = "enable" /\ (pc = "lowpower" \/ (pc = "idle" /\ status = "Ok"))
  \/ pc \in CASE register = "out1"   -> {"out2", "ready", "motion"}
              [] register = "out2"   -> {"ready", "motion"}
              [] register = "ready"  -> {"motion"}
              [] register = "motion" -> {}

AppliedInv ==
  /\ Wrote("out1") => last_mems_bank = ControlBank
  /\ \A register \in DOMAIN After :
       Wrote(register) /\ ~stale => setting[register] = Derived(register)

SensorsInv == TypeOK /\ CachedBankIsReal /\ PlaceInv /\ AppliedInv

Done(routine) == pc = "idle" /\ op = routine /\ status = "Ok"

(* When enable_dmp_sensor returns Ok and the remembered bank is the chip's *)
(* the DMP outputs what every enabled sensor needs and nothing else, with  *)
(* its accuracy data, whichever earlier calls failed half way and whatever *)
(* a killed program left enabled: the registers are derived afresh.        *)
OkEnableApplies ==
  Done("enable") /\ ~stale =>
    /\ setting.out1 = UNION {Outputs[s] : s \in enabled}
    /\ setting.out2 = UNION {Accuracy[b] : b \in setting.out1}
    /\ \A s \in enabled : Needs[s] \subseteq setting.ready

(* Disabling a sensor takes no output away from another one that uses the  *)
(* same output and stays enabled, not even in the middle of a call, after  *)
(* a failed one or while writes go to a wrong bank.                        *)
NoOutputTakenAway ==
  [][\A s \in enabled \cap enabled' :
       Outputs[s] \subseteq setting.out1 => Outputs[s] \subseteq setting'.out1]_vars

(* Parameters and control registers share offsets in different banks:      *)
(* while the remembered bank is the chip's, no write of a parameter        *)
(* changes a control register, whichever bank the call before it used and  *)
(* however that call ended.                                                *)
ParametersKeepOut ==
  [][pc = "idle" /\ op' = "parameter" /\ ~stale => UNCHANGED setting]_vars

(* set_dmp_sensor_period is to "return the highest error": when it returns *)
(* Ok, the rate is the one asked for.                                      *)
OkRateApplies ==
  Done("odr") => setting.interval = want /\ setting.reset
=============================================================================
