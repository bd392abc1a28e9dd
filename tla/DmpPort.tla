------------------------------ MODULE DmpPort ------------------------------
(***************************************************************************)
(* What inv_icm20948_write_mems and inv_icm20948_read_mems promise of DMP  *)
(* memory, without banks, start addresses and bursts: a call moves bytes   *)
(* between its own range of memory and its caller's buffer, in any         *)
(* portions, and returns Ok only when all of them have moved.              *)
(***************************************************************************)
EXTENDS Naturals, Sequences

VARIABLES mem,      \* the memory
          call,     \* the call that runs: [kind, reg, data], or NoCall
          buffer,   \* its caller's buffer
          answer    \* "none" until it returns, then "Ok" or "Err"

vars == <<mem, call, buffer, answer>>

NoCall == [kind |-> "none", reg |-> 0, data |-> << >>]
Offset(a) == a - call.reg + 1
Covers(a) == a \in call.reg..(call.reg + Len(call.data) - 1)

Init == call = NoCall /\ answer = "none"

(* A caller fills its buffer as it likes before it calls.                  *)
Call ==
  /\ call = NoCall /\ call' # NoCall
  /\ answer' = "none"
  /\ UNCHANGED mem

(* Some bytes of the range are stored ...                                  *)
Store ==
  /\ call.kind = "write"
  /\ \A a \in DOMAIN mem :
       mem'[a] # mem[a] => Covers(a) /\ mem'[a] = call.data[Offset(a)]
  /\ UNCHANGED buffer

(* ... or fetched.                                                         *)
Fetch ==
  /\ call.kind = "read"
  /\ \A i \in DOMAIN buffer :
       buffer'[i] # buffer[i] =>
         i \in DOMAIN call.data /\ buffer'[i] = mem[call.reg + i - 1]
  /\ UNCHANGED mem

Moved ==
  \A i \in DOMAIN call.data :
    mem'[call.reg + i - 1] = IF call.kind = "write" THEN call.data[i]
                                                    ELSE buffer'[i]

Work ==
  /\ answer = "none" /\ UNCHANGED call
  /\ Store \/ Fetch
  /\ answer' \in {"none", "Ok", "Err"}
  /\ answer' = "Ok" => Moved

(* The caller takes the answer, or gives up.                               *)
Leave ==
  /\ call # NoCall /\ call' = NoCall
  /\ answer' = "none"
  /\ UNCHANGED mem

(* Between calls the caller uses its buffer.                               *)
Use == call = NoCall /\ UNCHANGED <<mem, call, answer>>

Next == Call \/ Work \/ Leave \/ Use

Spec == Init /\ [][Next]_vars
=============================================================================
