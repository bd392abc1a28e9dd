-------------------------- MODULE DmpSensorsProofs --------------------------
(***************************************************************************)
(* Proofs about DmpSensors, for every table of sensors, any number of      *)
(* calls, failed transactions and restarts.                                *)
(***************************************************************************)
EXTENDS DmpSensors, TLAPS

(* What one register write does to the bank and the registers.             *)
LEMMA WriteMemsFacts ==
  ASSUME NEW b, NEW new, NEW r, WriteMems(b, new, r)
  PROVE  /\ r \in Results /\ setting' \in {setting, new}
         /\ last_mems_bank' = b
         /\ faults' = faults \/ (faults < MaxFaults /\ faults' = faults + 1)
         /\ CachedBankIsReal => CachedBankIsReal'
         /\ b = last_mems_bank => stale' = stale
  BY DEF WriteMems, SelectSkipped, SelectWorks, SelectFails, bank, Works,
         Fails, Results, CachedBankIsReal, NoBank

(* A write that is Ok has landed in its bank, unless the bank is stale.    *)
LEMMA OkWriteLanded ==
  ASSUME NEW new, CachedBankIsReal, WriteMems(ControlBank, new, "Ok"), ~stale'
  PROVE  setting' = new
  BY DEF WriteMems, SelectSkipped, SelectWorks, SelectFails, bank,
         CachedBankIsReal, NoBank, ControlBank

(* A write to another bank leaves the registers alone, unless the bank was *)
(* stale when it began.                                                    *)
LEMMA OtherBankAlone ==
  ASSUME NEW new, NEW r, CachedBankIsReal, WriteMems(OtherBank, new, r), ~stale
  PROVE  setting' = setting
  BY DEF WriteMems, SelectSkipped, SelectWorks, SelectFails, bank,
         CachedBankIsReal, NoBank, ControlBank, OtherBank

-----------------------------------------------------------------------------
(* The remembered bank is the chip's unless it is stale, after every step. *)
LEMMA BankStep ==
  ASSUME CachedBankIsReal, [Next]_vars
  PROVE  CachedBankIsReal'
<1>1. CASE UNCHANGED bank
  BY <1>1 DEF bank, CachedBankIsReal
<1>2. CASE WriteControl
  BY <1>2, WriteMemsFacts DEF WriteControl
<1>3. CASE WriteInterrupts
  BY <1>3, WriteMemsFacts DEF WriteInterrupts
<1>4. CASE WriteInterval
  BY <1>4, WriteMemsFacts DEF WriteInterval
<1>5. CASE ResetCounter
  BY <1>5, WriteMemsFacts DEF ResetCounter
<1>6. CASE \E o \in BOOLEAN : WriteDMPmems(o)
  BY <1>6, WriteMemsFacts DEF WriteDMPmems
<1>7. CASE Restart
  BY <1>7 DEF Restart, BankBegin, CachedBankIsReal
<1> QED
  BY <1>1, <1>2, <1>3, <1>4, <1>5, <1>6, <1>7
     DEF Next, vars, EnableDMPSensor, EnableUnsupported, EnableDMPSensorInt,
         EnableIntUnsupported, SetDMPODRrate, SetDMPODRrateUnknown, Wake,
         LowPower

(* The values derived for the control registers are of their types.        *)
LEMMA DerivedTypes ==
  ASSUME TypeOK
  PROVE  /\ Derived("out1") \in SUBSET Bits /\ Derived("out2") \in SUBSET Parts
         /\ Derived("ready") \in SUBSET Parts
         /\ Derived("motion") \in SUBSET (Bits \cup Parts)
         /\ ControlBits(enabled_intr) \in SUBSET Bits
<1>1. ControlBits(enabled) \in SUBSET Bits /\ ControlBits(enabled_intr) \in SUBSET Bits
  BY SensorsAssumption DEF TypeOK, ControlBits, Supported
<1>2. DataReady \in SUBSET Parts
  BY SensorsAssumption DEF DataReady
<1>3. UNION {Accuracy[b] : b \in ControlBits(enabled)} \in SUBSET Parts
  BY <1>1, SensorsAssumption
<1> QED
  BY <1>1, <1>2, <1>3 DEF Derived

LEMMA WriteControlTypes ==
  ASSUME TypeOK, pc \in DOMAIN After
  PROVE  [setting EXCEPT ![pc] = Derived(pc)] \in
           [out1 : SUBSET Bits, out2 : SUBSET Parts,
            ready : SUBSET Parts, motion : SUBSET (Bits \cup Parts),
            intr : SUBSET Bits, interval : Intervals \cup {0}, reset : BOOLEAN]
<1>1. pc \in {"out1", "out2", "ready", "motion"}
  BY DEF After
<1> QED
  BY <1>1, DerivedTypes DEF TypeOK

(* The registers keep their types when one is written.                     *)
LEMMA TypeStep ==
  ASSUME TypeOK, PlaceInv, [Next]_vars
  PROVE  TypeOK'
<1> USE DEF TypeOK, Results, First, After
<1> DEFINE Registers ==
      [out1 : SUBSET Bits, out2 : SUBSET Parts,
       ready : SUBSET Parts, motion : SUBSET (Bits \cup Parts),
       intr : SUBSET Bits, interval : Intervals \cup {0}, reset : BOOLEAN]
<1>1. CASE UNCHANGED vars
  BY <1>1 DEF vars, host, where, bounds
<1>2. ASSUME NEW s \in Sensors \cup {Unknown}, NEW on \in BOOLEAN,
             EnableDMPSensor(s, on) \/ EnableDMPSensorInt(s, on)
      PROVE  TypeOK'
  BY <1>2, SensorsAssumption DEF EnableDMPSensor, EnableDMPSensorInt, Call, Switch
<1>3. ASSUME NEW s \in Sensors \cup {Unknown},
             EnableUnsupported(s) \/ EnableIntUnsupported(s)
      PROVE  TypeOK'
  BY <1>3, SensorsAssumption DEF EnableUnsupported, EnableIntUnsupported, Call, host
<1>4. ASSUME NEW i \in Intervals, SetDMPODRrate(i)
      PROVE  TypeOK'
  BY <1>4, SensorsAssumption DEF SetDMPODRrate, Call, host
<1>5. ASSUME NEW o \in BOOLEAN, WriteDMPmems(o)
      PROVE  TypeOK'
  <2>1. Overlaid \in Registers
    BY DEF Overlaid
  <2>2. setting' \in Registers /\ faults' \in 0..MaxFaults /\ status' \in Results
    BY <1>5, <2>1, WriteMemsFacts, SensorsAssumption DEF WriteDMPmems
  <2> QED
    BY <1>5, <2>2, SensorsAssumption DEF WriteDMPmems, Call, host
<1>6. CASE Wake
  <2>1. op \in {"enable", "intr", "odr", "odr_unknown"}
    BY <1>6 DEF Wake, PlaceInv
  <2>2. First[op] \in {"out1", "interrupts", "interval", "lowpower"}
    BY <2>1
  <2> QED
    BY <1>6, <2>2, SensorsAssumption DEF Wake, Works, Fails, host, bounds
<1>7. CASE WriteControl
  <2>1. [setting EXCEPT ![pc] = Derived(pc)] \in Registers
    BY <1>7, WriteControlTypes DEF WriteControl
  <2>2. setting' \in Registers /\ faults' \in 0..MaxFaults
    <3>1. PICK r : WriteMems(ControlBank, [setting EXCEPT ![pc] = Derived(pc)], r)
      BY <1>7 DEF WriteControl
    <3>2. setting' \in {setting, [setting EXCEPT ![pc] = Derived(pc)]}
      BY <3>1, WriteMemsFacts
    <3>3. faults' = faults \/ (faults < MaxFaults /\ faults' = faults + 1)
      BY <3>1, WriteMemsFacts
    <3> QED
      BY <2>1, <3>2, <3>3, SensorsAssumption
  <2> QED
    BY <1>7, <2>2 DEF WriteControl, host, bounds
<1>8. CASE WriteInterrupts
  <2>1. ControlBits(enabled_intr) \in SUBSET Bits
    BY SensorsAssumption DEF ControlBits, Supported
  <2>2. setting' \in Registers /\ faults' \in 0..MaxFaults
    BY <1>8, <2>1, WriteMemsFacts, SensorsAssumption DEF WriteInterrupts
  <2> QED
    BY <1>8, <2>2 DEF WriteInterrupts, host, bounds
<1>9. CASE WriteInterval
  <2>1. [setting EXCEPT !.interval = want, !.reset = FALSE] \in Registers
    OBVIOUS
  <2>2. setting' \in Registers /\ faults' \in 0..MaxFaults
    <3>1. PICK r : WriteMems(ControlBank,
                             [setting EXCEPT !.interval = want, !.reset = FALSE], r)
      BY <1>9 DEF WriteInterval
    <3>2. setting' \in {setting, [setting EXCEPT !.interval = want, !.reset = FALSE]}
      BY <3>1, WriteMemsFacts
    <3>3. faults' = faults \/ (faults < MaxFaults /\ faults' = faults + 1)
      BY <3>1, WriteMemsFacts
    <3>4. faults' \in 0..MaxFaults
      BY <3>3, SensorsAssumption
    <3>5. setting \in Registers
      OBVIOUS
    <3> HIDE DEF Registers, TypeOK
    <3> QED
      BY <2>1, <3>2, <3>4, <3>5
  <2> QED
    BY <1>9, <2>2 DEF WriteInterval, host, bounds
<1>10. CASE ResetCounter
  <2>1. [setting EXCEPT !.reset = TRUE] \in Registers
    OBVIOUS
  <2>2. setting' \in Registers /\ faults' \in 0..MaxFaults /\ result2' \in Results
    BY <1>10, <2>1, WriteMemsFacts, SensorsAssumption DEF ResetCounter
  <2> QED
    BY <1>10, <2>2 DEF ResetCounter, host, bounds
<1>11. CASE LowPower
  BY <1>11, SensorsAssumption DEF LowPower, Works, Fails, host, bounds
<1>12. CASE Restart
  BY <1>12, SensorsAssumption DEF Restart
<1>13. CASE SetDMPODRrateUnknown
  BY <1>13, SensorsAssumption DEF SetDMPODRrateUnknown, Call, host
<1> QED
  BY <1>1, <1>2, <1>3, <1>4, <1>5, <1>6, <1>7, <1>8, <1>9, <1>10, <1>11, <1>12,
     <1>13 DEF Next

(* Each routine stays in its own places.                                   *)
LEMMA PlaceStep ==
  ASSUME TypeOK, PlaceInv, [Next]_vars
  PROVE  PlaceInv'
<1> USE DEF PlaceInv, First, After
<1>1. CASE UNCHANGED vars
  BY <1>1 DEF vars, where
<1>2. CASE Next
  BY <1>2 DEF Next, EnableDMPSensor, EnableUnsupported, EnableDMPSensorInt,
       EnableIntUnsupported, SetDMPODRrate, SetDMPODRrateUnknown, WriteDMPmems,
       Wake, WriteControl, WriteInterrupts, WriteInterval, ResetCounter, LowPower, Restart, Call
<1> QED
  BY <1>1, <1>2

(* Later registers are written only after the earlier ones.                *)
LEMMA WroteFirst ==
  ASSUME NEW register \in DOMAIN After, Wrote(register)
  PROVE  Wrote("out1")
  BY DEF Wrote, After

(* What a call has written stays: the calls that write other registers are *)
(* other routines, and the call itself goes on in the bank it has written. *)
LEMMA AppliedStep ==
  ASSUME SensorsInv, [Next]_vars
  PROVE  AppliedInv'
<1> USE DEF SensorsInv
<1>1. CASE UNCHANGED vars
  <2>1. UNCHANGED <<bankSel, last_mems_bank, stale, enabled, beyond, setting,
                    op, pc, status>>
    BY <1>1 DEF vars, bank, host, where, bounds
  <2>2. \A register \in DOMAIN After : Wrote(register)' = Wrote(register)
    BY <2>1 DEF Wrote
  <2>3. \A register \in DOMAIN After : Derived(register)' = Derived(register)
    BY <2>1 DEF Derived, ControlBits
  <2> QED
    BY <2>1, <2>2, <2>3 DEF AppliedInv, After
<1>2. CASE WriteControl
  <2>1. PICK r \in Results :
          /\ WriteMems(ControlBank, [setting EXCEPT ![pc] = Derived(pc)], r)
          /\ \/ r = "Ok" /\ pc' = After[pc] /\ UNCHANGED status
             \/ r = "Err" /\ pc' = "idle" /\ status' = "Err"
    BY <1>2 DEF WriteControl
  <2>2. last_mems_bank' = ControlBank
    BY <2>1, WriteMemsFacts
  <2>3. op = "enable" /\ op' = "enable" /\ pc \in DOMAIN After
    BY <1>2 DEF WriteControl, PlaceInv
  <2>4. \A register : Derived(register)' = Derived(register)
    BY <1>2 DEF WriteControl, host, bounds, Derived, ControlBits
  <2>5. ASSUME NEW register \in DOMAIN After, Wrote(register)', ~stale'
        PROVE  setting'[register] = Derived(register)
    <3>1. r = "Ok" /\ pc' = After[pc]
      BY <2>1, <2>3, <2>5 DEF Wrote, After
    <3>2. setting' = [setting EXCEPT ![pc] = Derived(pc)]
      BY <2>1, <2>5, <3>1, OkWriteLanded
    <3>3. register = pc \/ Wrote(register)
      BY <2>3, <2>5, <3>1 DEF Wrote, After
    <3>4. CASE register = pc
      BY <2>3, <3>2, <3>4 DEF TypeOK, After
    <3>5. CASE register # pc
      <4>1. Wrote(register) /\ last_mems_bank = ControlBank
        BY <3>3, <3>5, WroteFirst DEF AppliedInv
      <4>2. ~stale
        BY <2>1, <2>5, <4>1, WriteMemsFacts
      <4> QED
        BY <3>2, <3>5, <4>1, <4>2 DEF AppliedInv, TypeOK
    <3> QED
      BY <3>4, <3>5
  <2> QED
    BY <2>2, <2>4, <2>5 DEF AppliedInv
<1>3. CASE LowPower
  <2>1. \A register \in DOMAIN After : Wrote(register)' => Wrote(register)
    BY <1>3 DEF LowPower, Wrote, After
  <2>2. UNCHANGED <<bankSel, last_mems_bank, stale, setting, enabled, beyond>>
    BY <1>3 DEF LowPower, host, bounds, bank
  <2>3. \A register \in DOMAIN After : Derived(register)' = Derived(register)
    BY <2>2 DEF Derived, ControlBits
  <2> QED
    BY <2>1, <2>2, <2>3 DEF AppliedInv, After
<1>4. ASSUME Next, ~WriteControl, ~LowPower
      PROVE  \A register \in DOMAIN After : ~Wrote(register)'
  BY <1>4 DEF Next, EnableDMPSensor, EnableUnsupported, EnableDMPSensorInt,
       EnableIntUnsupported, SetDMPODRrate, SetDMPODRrateUnknown, WriteDMPmems,
       Wake, WriteInterrupts, WriteInterval, ResetCounter, Restart, Call, Wrote, PlaceInv, First, After
<1> QED
  <2>1. CASE Next /\ ~WriteControl /\ ~LowPower
    BY <2>1, <1>4 DEF AppliedInv, After
  <2> QED
    BY <2>1, <1>1, <1>2, <1>3

-----------------------------------------------------------------------------
(* The inductive invariant, for every table of sensors (ICM_20948_C.c:43)  *)
(* and every number of calls, failed writes and restarts: the sets and     *)
(* registers are of their types, the remembered bank is the chip's unless  *)
(* it is stale, each routine is in its place, and what enable_dmp_sensor   *)
(* has written is what the enabled sensors ask for.                        *)
THEOREM SensorsInvariant == Spec => []SensorsInv
<1>1. Init => SensorsInv
  <2> SUFFICES ASSUME Init PROVE SensorsInv
    OBVIOUS
  <2>1. TypeOK
    BY SensorsAssumption DEF Init, TypeOK, Results
  <2>2. CachedBankIsReal /\ PlaceInv /\ AppliedInv
    BY DEF Init, BankInit, CachedBankIsReal, NoBank, PlaceInv, AppliedInv,
           Wrote, First, After
  <2> QED
    BY <2>1, <2>2 DEF SensorsInv
<1>2. SensorsInv /\ [Next]_vars => SensorsInv'
  BY TypeStep, BankStep, PlaceStep, AppliedStep DEF SensorsInv
<1> QED
  BY <1>1, <1>2, PTL DEF Spec

(* enable_dmp_sensor that returns Ok has made the DMP output what all      *)
(* enabled sensors need, whatever failed or was killed before it.          *)
THEOREM EnabledIsApplied == Spec => []OkEnableApplies
<1>1. SensorsInv => OkEnableApplies
  <2> SUFFICES ASSUME SensorsInv, Done("enable"), ~stale
               PROVE  /\ setting.out1 = UNION {Outputs[s] : s \in enabled}
                      /\ setting.out2 = UNION {Accuracy[b] : b \in setting.out1}
                      /\ \A s \in enabled : Needs[s] \subseteq setting.ready
    BY DEF OkEnableApplies
  <2>1. /\ setting["out1"] = Derived("out1") /\ setting["out2"] = Derived("out2")
        /\ setting["ready"] = Derived("ready")
    BY DEF SensorsInv, AppliedInv, Wrote, Done, After
  <2>2. \A s \in enabled : s \in Sensors /\ s # Unknown
    BY SensorsAssumption DEF SensorsInv, TypeOK, Supported
  <2>3. ControlBits(enabled) = UNION {Outputs[s] : s \in enabled}
    BY <2>2 DEF ControlBits
  <2> QED
    BY <2>1, <2>2, <2>3 DEF Derived, DataReady
<1> QED
  BY <1>1, SensorsInvariant, PTL

(* Writing a parameter leaves the control registers of the other bank      *)
(* alone as long as the remembered bank is the chip's                      *)
(* (ICM_20948_rpi.cpp, initializeDMP).                                     *)
THEOREM ParametersAreKeptOut == Spec => ParametersKeepOut
<1>1. ASSUME SensorsInv, [Next]_vars, pc = "idle", op' = "parameter", ~stale
      PROVE  UNCHANGED setting
  <2>1. CASE \E o \in BOOLEAN : WriteDMPmems(o)
    BY <1>1, <2>1, OtherBankAlone DEF WriteDMPmems, SensorsInv
  <2>2. CASE UNCHANGED vars
    BY <2>2 DEF vars
  <2>3. CASE Next /\ ~\E o \in BOOLEAN : WriteDMPmems(o)
    BY <1>1, <2>3 DEF Next, EnableDMPSensor, EnableUnsupported, EnableDMPSensorInt,
       EnableIntUnsupported, SetDMPODRrate, SetDMPODRrateUnknown, Wake,
       WriteControl, WriteInterrupts, WriteInterval, ResetCounter, LowPower, Restart, Call, After
  <2> QED
    BY <1>1, <2>1, <2>2, <2>3
<1>2. SensorsInv /\ [Next]_vars =>
        [pc = "idle" /\ op' = "parameter" /\ ~stale => UNCHANGED setting]_vars
  BY <1>1
<1> QED
  BY <1>2, SensorsInvariant, PTL DEF Spec, ParametersKeepOut

(* No step takes an output away from a sensor that stays enabled: out1     *)
(* changes only to what all enabled sensors need (ICM_20948_C.c:1706), so  *)
(* this needs neither a good bank nor a call that comes to its end.        *)
THEOREM OutputsAreKept == Spec => NoOutputTakenAway
<1>1. ASSUME SensorsInv, [Next]_vars
      PROVE  setting'.out1 \in {setting.out1, ControlBits(enabled)}
  <2>1. setting.out1 = setting["out1"] /\ DOMAIN setting = {"out1", "out2", "ready",
          "motion", "intr", "interval", "reset"}
    BY <1>1 DEF SensorsInv, TypeOK
  <2>2. CASE WriteControl
    <3>1. setting' \in {setting, [setting EXCEPT ![pc] = Derived(pc)]}
      BY <2>2, WriteMemsFacts DEF WriteControl
    <3>2. CASE pc = "out1"
      BY <2>1, <3>1, <3>2 DEF Derived
    <3>3. CASE pc # "out1"
      BY <2>1, <3>1, <3>3
    <3> QED
      BY <3>2, <3>3
  <2>3. CASE WriteInterrupts
    <3>1. setting' \in {setting, [setting EXCEPT !.intr = ControlBits(enabled_intr)]}
      BY <2>3, WriteMemsFacts DEF WriteInterrupts
    <3> QED
      BY <2>1, <3>1
  <2>4. CASE WriteInterval
    <3>1. setting' \in {setting, [setting EXCEPT !.interval = want, !.reset = FALSE]}
      BY <2>4, WriteMemsFacts DEF WriteInterval
    <3> QED
      BY <2>1, <3>1
  <2>5. CASE ResetCounter
    <3>1. setting' \in {setting, [setting EXCEPT !.reset = TRUE]}
      BY <2>5, WriteMemsFacts DEF ResetCounter
    <3> QED
      BY <2>1, <3>1
  <2>6. CASE \E o \in BOOLEAN : WriteDMPmems(o)
    <3>1. setting' \in {setting, Overlaid}
      BY <2>6, WriteMemsFacts DEF WriteDMPmems
    <3> QED
      BY <2>1, <3>1 DEF Overlaid
  <2>7. CASE Restart
    BY <2>1, <2>7 DEF Restart
  <2>8. CASE UNCHANGED setting
    BY <2>8
  <2> QED
    BY <1>1, <2>2, <2>3, <2>4, <2>5, <2>6, <2>7, <2>8
       DEF Next, vars, EnableDMPSensor, EnableUnsupported, EnableDMPSensorInt,
           EnableIntUnsupported, SetDMPODRrate, SetDMPODRrateUnknown, Wake,
           LowPower
<1>2. ASSUME SensorsInv, NEW s \in enabled
      PROVE  Outputs[s] \subseteq ControlBits(enabled)
  BY <1>2, SensorsAssumption DEF SensorsInv, TypeOK, Supported, ControlBits
<1>3. SensorsInv /\ [Next]_vars =>
        [\A s \in enabled \cap enabled' :
           Outputs[s] \subseteq setting.out1 => Outputs[s] \subseteq setting'.out1]_vars
  BY <1>1, <1>2
<1> QED
  BY <1>3, SensorsInvariant, PTL DEF Spec, NoOutputTakenAway
=============================================================================
