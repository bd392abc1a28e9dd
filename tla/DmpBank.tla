------------------------------ MODULE DmpBank ------------------------------
(***************************************************************************)
(* The bank of DMP memory: the register MEM_BANK_SEL of the chip, and the  *)
(* bank the driver remembers to have selected (imu/util/ICM_20948_C.c).    *)
(* Every access to DMP memory goes through it, the reads and writes of     *)
(* module DmpMemory and the control registers of module DmpSensors alike.  *)
(***************************************************************************)
EXTENDS Integers

CONSTANT Banks          \* number of banks

NoBank == 255
BankNumbers == 0..(Banks - 1)

ASSUME BanksAssumption == Banks \in 1..NoBank

VARIABLES bankSel,          \* chip: MEM_BANK_SEL
          last_mems_bank,   \* ICM_20948_Device_t._last_mems_bank
          stale             \* history: MEM_BANK_SEL may differ from it

bank == <<bankSel, last_mems_bank, stale>>

BankInit == bankSel = 0 /\ last_mems_bank = NoBank /\ stale = FALSE

(* begin: the driver remembers no bank, and the chip is reset.             *)
BankBegin == bankSel' = 0 /\ last_mems_bank' = NoBank /\ stale' = FALSE

(* The register is not written when the remembered bank is the wanted one. *)
SelectSkipped(b) == b = last_mems_bank /\ UNCHANGED bank

(* Mutant of SelectWorks: the bank is remembered but never written.        *)
SelectWorks_NotWritten(b) ==
  /\ b # last_mems_bank
  /\ last_mems_bank' = b /\ stale' = FALSE
  /\ UNCHANGED bankSel

SelectWorks(b) ==
  /\ b # last_mems_bank
  /\ last_mems_bank' = b
  /\ bankSel' = b
  /\ stale' = FALSE

(* The bank is remembered before the register is written.                  *)
SelectFails(b) ==
  /\ b # last_mems_bank
  /\ last_mems_bank' = b
  /\ bankSel' \in {bankSel, b}
  /\ stale' = TRUE

(* A software reset: the chip forgets its registers, the driver does not   *)
(* forget what it remembers of them.                                       *)
BankReset == bankSel' = 0 /\ stale' = TRUE /\ UNCHANGED last_mems_bank

(* Unless a bank selection failed or the chip was reset since the last     *)
(* good one, the bank the driver remembers is the chip's.                  *)
CachedBankIsReal ==
  ~stale /\ last_mems_bank # NoBank => bankSel = last_mems_bank
=============================================================================
