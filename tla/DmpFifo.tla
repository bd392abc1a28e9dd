------------------------------ MODULE DmpFifo ------------------------------
(***************************************************************************)
(* The DMP's output FIFO: the DMP appends frames byte by byte while        *)
(* inv_icm20948_read_dmp_data (imu/util/ICM_20948_C.c) takes one frame     *)
(* apart, and the client's loop (imu/imu_test.cpp) calls it again and      *)
(* again.                                                                  *)
(*                                                                         *)
(* A frame is a sequence of fields; the first is the header, which says    *)
(* which fields follow, the last is the footer.  A byte is the frame it    *)
(* belongs to and its place in it.  The reader keeps a count of the bytes  *)
(* it believes waiting and asks the device again only when that count is   *)
(* too small for the next field.  The client never stops by itself: it is  *)
(* killed, anywhere, and started again.                                    *)
(***************************************************************************)
EXTENDS Integers, Sequences

CONSTANTS Kinds,        \* the frames the DMP emits: where each field ends
          Capacity,     \* bytes the FIFO holds
          CountBase,    \* values of the lower byte of the FIFO's count
          MaxFrames,    \* bound: frames the DMP emits
          MaxFaults,    \* bound: bus transactions that fail
          MaxResets     \* bound: resets of the FIFO and restarts

Total(k)   == k[Len(k)]
Size(k, n) == k[n] - (IF n = 1 THEN 0 ELSE k[n - 1])

(* Frames differ in the fields that follow the header, which all have.     *)
ASSUME FifoAssumption ==
  /\ Kinds # {}
  /\ \A k \in Kinds :
       /\ k \in Seq(Nat \ {0}) /\ Len(k) >= 2
       /\ \A i, j \in 1..Len(k) : i < j => k[i] < k[j]
  /\ \A k, l \in Kinds : k[1] = l[1]
  /\ Capacity \in Nat \ {0} /\ CountBase \in Nat \ {0}
  /\ MaxFrames \in Nat /\ MaxFaults \in Nat /\ MaxResets \in Nat

VARIABLES fifo,         \* the bytes in the FIFO
          making,       \* the frame the DMP is writing
          pc,           \* where the reader is
          kind, field,  \* the frame as the header describes it, next field
          fifo_count,   \* the reader's count
          high,         \* the count when its upper byte was read
          got,          \* the bytes this call has read
          status,       \* what the last call returned
          cut,          \* history: bytes of a frame were dropped or left
          seen,         \* history: the last frame returned as valid
          wiped,        \* history: the last frame that a reset took away
          faults, resets

dmp    == <<fifo, making>>
frame  == <<kind, field, got>>
reader == <<pc, frame, fifo_count, high, status, seen>>
bounds == <<wiped, resets>>
vars   == <<dmp, reader, cut, faults, bounds>>

Between == making.pos = 0

Init ==
  /\ fifo = << >>
  /\ making \in [frame : {0}, pos : {0}, kind : Kinds]
  /\ pc = "idle" /\ kind = making.kind /\ field = 1
  /\ fifo_count = 0 /\ high = 0
  /\ got = << >> /\ status = "none"
  /\ cut = FALSE /\ seen = 0 /\ wiped = 0 /\ faults = 0 /\ resets = 0

Works == UNCHANGED faults
Fails == faults < MaxFaults /\ faults' = faults + 1

-----------------------------------------------------------------------------
(***************************************************************************)
(* The DMP.  A full FIFO is in stream mode: the oldest byte makes room.    *)
(***************************************************************************)
BeginFrame(k) ==
  /\ Between /\ making.frame < MaxFrames
  /\ making' = [frame |-> making.frame + 1, pos |-> 1, kind |-> k]
  /\ UNCHANGED <<fifo, reader, cut, faults, bounds>>

EmitByte ==
  /\ ~Between
  /\ fifo' = Append(IF Len(fifo) = Capacity THEN Tail(fifo) ELSE fifo, making)
  /\ cut' = (cut \/ Len(fifo) = Capacity)
  /\ making' = [making EXCEPT !.pos =
                  IF @ = Total(making.kind) THEN 0 ELSE @ + 1]
  /\ UNCHANGED <<reader, faults, bounds>>

(* The client is killed and started again.  Its setup resets the chip and  *)
(* starts the DMP, which may emit frames until setup resets the FIFO.      *)
Restart ==
  /\ resets < MaxResets /\ resets' = resets + 1
  /\ pc' = "setup" /\ making' = [making EXCEPT !.pos = 0]
  /\ fifo' = << >> /\ got' = << >> /\ cut' = FALSE
  /\ kind' = making.kind /\ field' = 1 /\ fifo_count' = 0 /\ high' = 0
  /\ status' = "none" /\ wiped' = making.frame
  /\ UNCHANGED <<seen, faults>>

(* resetFIFO, at the end of setup or between two reads: what is in the     *)
(* FIFO goes; a frame the DMP is in the middle of arrives without its      *)
(* beginning.                                                              *)
ResetFIFO ==
  /\ \/ pc = "idle" /\ resets < MaxResets /\ resets' = resets + 1
     \/ pc = "setup" /\ UNCHANGED resets
  /\ pc' = "idle"
  /\ fifo' = << >> /\ cut' = (making.pos > 1)
  /\ wiped' = IF making.pos = 1 THEN making.frame - 1 ELSE making.frame
  /\ got' = << >> /\ status' = "none"
  /\ UNCHANGED <<making, kind, field, fifo_count, high, seen, faults>>

-----------------------------------------------------------------------------
(***************************************************************************)
(* inv_icm20948_read_dmp_data.                                             *)
(***************************************************************************)
Return(s, bytes) ==
  /\ pc' = "idle" /\ status' = s
  /\ seen' = IF s \in {"Ok", "More"} THEN bytes[1].frame ELSE seen
  /\ cut' = (cut \/ (s \in {"Incomplete", "Err"} /\ bytes # << >>))

(* Mutant of ReadDMPdataFromFIFO: the FIFO is reset before it is read. *)
ReadDMPdataFromFIFO_Flushes ==
  /\ pc = "idle" /\ Between
  /\ pc' = "count" /\ got' = << >> /\ field' = 1 /\ fifo' = << >>
  /\ UNCHANGED <<making, kind, fifo_count, high, status, seen, cut, faults,
                 bounds>>

ReadDMPdataFromFIFO ==
  /\ pc = "idle"
  /\ pc' = "count" /\ got' = << >> /\ field' = 1
  /\ UNCHANGED <<dmp, kind, fifo_count, high, status, seen, cut, faults,
                 bounds>>

Field == Size(kind, field)

(* Mutant of CheckCount: the count taken before the header is trusted for  *)
(* every field.                                                            *)
CheckCount_Trusts ==
  /\ pc = "check"
  /\ pc' = "read"
  /\ UNCHANGED <<dmp, frame, fifo_count, high, status, seen, cut, faults, bounds>>

(* Before every later field: the old count is trusted if it is enough.     *)
CheckCount ==
  /\ pc = "check" /\ fifo_count >= Field
  /\ pc' = "read"
  /\ UNCHANGED <<dmp, frame, fifo_count, high, status, seen, cut, faults, bounds>>

(* get_FIFO_count, before the header and whenever the old count is too     *)
(* small: first the upper byte of the count ...                            *)
GetCountHigh ==
  /\ pc = "count" \/ (pc = "check" /\ fifo_count < Field)
  /\ \/ /\ Works
        /\ pc' = "low" /\ high' = Len(fifo)
        /\ UNCHANGED <<status, seen, cut>>
     \/ /\ Fails
        /\ Return("Err", got)
        /\ UNCHANGED high
  /\ UNCHANGED <<dmp, frame, fifo_count, bounds>>

(* ... and then the lower one, in a transaction of its own.  The driver    *)
(* does not say whether the chip holds the lower byte back (the first      *)
(* value) or gives that of the bytes now waiting (the second).             *)
Counts == {high, (high \div CountBase) * CountBase + (Len(fifo) % CountBase)}

(* Mutant of GetCountLow: the reader waits for a full FIFO. *)
GetCountLow_WaitsFull ==
  /\ pc = "low" /\ Works
  /\ fifo_count' \in Counts
  /\ IF fifo_count' < Capacity
     THEN Return("NoData", << >>)
     ELSE pc' = "read" /\ UNCHANGED <<status, seen, cut>>
  /\ UNCHANGED <<dmp, frame, high, bounds>>

GetCountLow ==
  /\ pc = "low" /\ high' = 0
  /\ \/ /\ Works
        /\ fifo_count' \in Counts
        /\ IF fifo_count' < Field
           THEN Return(IF field = 1 THEN "NoData" ELSE "Incomplete", got)
           ELSE pc' = "read" /\ UNCHANGED <<status, seen, cut>>
     \/ /\ Fails
        /\ Return("Err", got)
        /\ UNCHANGED fifo_count
  /\ UNCHANGED <<dmp, frame, bounds>>

(* A first byte that is a frame's first is that frame's header; any other  *)
(* is decoded as whatever its bits say.                                    *)
Decoded(byte) == IF byte.pos = 1 THEN {byte.kind} ELSE Kinds

Available == IF Len(fifo) < Field THEN Len(fifo) ELSE Field
Taken == SubSeq(fifo, 1, Available)
Rest  == SubSeq(fifo, Available + 1, Len(fifo))

(* Mutant of Left: the count is not decremented. *)
Left_Kept == fifo_count

Left == fifo_count - Field

(* A failed read may already have drained the FIFO.                        *)
ReadField ==
  /\ pc = "read"
  /\ \/ /\ Works
        /\ fifo' = Rest /\ got' = got \o Taken
        /\ fifo_count' = Left
        /\ kind' \in IF field = 1 THEN Decoded(fifo[1]) ELSE {kind}
        /\ IF field < Len(kind')
           THEN /\ pc' = "check" /\ field' = field + 1
                /\ UNCHANGED <<status, seen, cut>>
           ELSE /\ UNCHANGED field
                /\ Return(IF fifo_count' > 0 THEN "More" ELSE "Ok", got')
     \/ /\ Fails
        /\ \/ UNCHANGED <<fifo, got>> /\ Return("Err", got)
           \/ fifo' = Rest /\ got' = got \o Taken /\ Return("Err", got')
        /\ UNCHANGED <<kind, field, fifo_count>>
  /\ UNCHANGED <<making, high, bounds>>

Step == CheckCount \/ GetCountHigh \/ GetCountLow \/ ReadField

Next ==
  \/ \E k \in Kinds : BeginFrame(k)
  \/ EmitByte \/ ResetFIFO \/ Restart
  \/ ReadDMPdataFromFIFO \/ Step

Spec == Init /\ [][Next]_vars

(***************************************************************************)
(* The DMP finishes a frame it began; a setup that works comes to its end; *)
(* the client's loop never stops calling, and a call runs to its end:      *)
(* there is nothing to wait for.                                           *)
(***************************************************************************)
Fairness ==
  /\ WF_vars(EmitByte)
  /\ WF_vars(pc = "setup" /\ ResetFIFO)
  /\ WF_vars(ReadDMPdataFromFIFO)
  /\ WF_vars(Step)

FairSpec == Spec /\ Fairness

-----------------------------------------------------------------------------
Bytes == [frame : 0..MaxFrames, pos : Nat, kind : Kinds]

(* The variables hold values of their types; the reader's count is that of *)
(* bytes a FIFO of this capacity can hold.                                 *)
TypeOK ==
  /\ fifo \in Seq(Bytes) /\ Len(fifo) \in 0..Capacity /\ got \in Seq(Bytes)
  /\ making \in Bytes /\ making.pos \in 0..Total(making.kind)
  /\ pc \in {"setup", "idle", "count", "low", "check", "read"}
  /\ kind \in Kinds /\ field \in 1..Len(kind)
  /\ fifo_count \in 0..Capacity /\ high \in 0..Capacity
  /\ status \in {"none", "NoData", "Incomplete", "Err", "Ok", "More"}
  /\ seen \in 0..MaxFrames /\ wiped \in 0..MaxFrames /\ cut \in BOOLEAN
  /\ faults \in 0..MaxFaults /\ resets \in 0..MaxResets

(* Inside a call the reader never believes in bytes that are not there,    *)
(* though it goes on using a count taken several transactions ago, though  *)
(* the two bytes of that count are read at different times, and though the *)
(* FIFO may overflow meanwhile.                                            *)
CountNeverHigh == pc \in {"check", "read"} => fifo_count <= Len(fifo)

Whole(bytes) ==
  /\ bytes # << >> /\ Len(bytes) = Total(bytes[1].kind)
  /\ \A i \in DOMAIN bytes :
       bytes[i].pos = i /\ bytes[i].frame = bytes[1].frame

Valid == pc = "idle" /\ status \in {"Ok", "More"}

(* "readDMPdataFromFIFO will return ICM_20948_Stat_Ok if a valid frame was *)
(* read": what an Ok or More call has read is one frame.                   *)
OkFrameIsValid == Valid => Whole(got)

(* As long as no call was abandoned half way and nothing overflowed, every *)
(* Ok or More call has read exactly one whole frame, however the DMP's     *)
(* bytes arrived between the reader's counts.                              *)
FramesStayWhole == ~cut => OkFrameIsValid

(* Until then frames come back in the order they were emitted, and none is *)
(* skipped but those a reset or a restart took away.                       *)
Newest == IF seen > wiped THEN seen ELSE wiped

FramesInOrder == [][seen' # seen /\ ~cut' => seen' = 1 + Newest]_vars

(* No frame waits for ever: a frame the DMP has finished is returned by    *)
(* some later call, unless bytes of a frame were dropped before it or a    *)
(* reset or a restart takes it away.                                       *)
EveryFrameReturned ==
  \A n \in 1..MaxFrames :
    (making.frame >= n /\ Between) ~> (seen >= n \/ cut \/ wiped >= n)

-----------------------------------------------------------------------------
(***************************************************************************)
(* The inductive invariant behind the reader's properties.                 *)
(***************************************************************************)
InCall == pc \in {"count", "low", "check", "read"}

(* No count, new or old, is above what the FIFO holds, and a field is read *)
(* only when the count covers it.                                          *)
CountInv ==
  /\ pc = "low" => high <= Len(fifo)
  /\ CountNeverHigh
  /\ pc = "read" => Field <= fifo_count

(* The bytes the running call has read, and those that come after them:    *)
(* the FIFO's, and the one the DMP is about to append.                     *)
Pending == IF InCall THEN got ELSE << >>
Coming  == IF Between THEN << >> ELSE <<making>>
Stream  == (Pending \o fifo) \o Coming

(* A call has read the fields before the next one, of the frame whose      *)
(* header it decoded.                                                      *)
GotInv ==
  /\ InCall => Len(got) = IF field = 1 THEN 0 ELSE kind[field - 1]
  /\ InCall /\ ~cut /\ field > 1 => kind = got[1].kind
  /\ pc = "count" => field = 1
  /\ pc = "check" => field > 1

(* No byte is of a frame not begun yet.                                    *)
FrameInv ==
  /\ seen <= making.frame /\ wiped <= making.frame
  /\ \A i \in DOMAIN fifo : fifo[i].frame <= making.frame
  /\ \A i \in DOMAIN Pending : Pending[i].frame <= making.frame
  /\ making.pos = 1 =>
       /\ seen < making.frame
       /\ \A i \in DOMAIN fifo : fifo[i].frame < making.frame
       /\ \A i \in DOMAIN Pending : Pending[i].frame < making.frame

Ends(b) == b.pos = Total(b.kind)

(* Bytes of whole frames, one frame after the other, from the first byte   *)
(* of the first one.                                                       *)
Straight(s) ==
  /\ s # << >> => s[1].pos = 1
  /\ \A i, j \in DOMAIN s :
       i <= j /\ s[i].pos + (j - i) <= Total(s[i].kind) =>
         s[j] = [s[i] EXCEPT !.pos = @ + (j - i)]
  /\ \A i \in DOMAIN s :
       i < Len(s) /\ Ends(s[i]) =>
         s[i + 1].pos = 1 /\ s[i + 1].frame = s[i].frame + 1

(* As long as nothing was cut the stream is straight, begins with the      *)
(* frame after the newest one that was returned or taken away, and ends    *)
(* where the DMP is.                                                       *)
StreamInv ==
  ~cut =>
    /\ Straight(Stream)
    /\ IF Stream = << >> THEN making.frame = Newest
                        ELSE Stream[1].frame = 1 + Newest
    /\ Between /\ Stream # << >> =>
         /\ Ends(Stream[Len(Stream)])
         /\ Stream[Len(Stream)].frame = making.frame

FifoInv == TypeOK /\ CountInv /\ GotInv /\ FrameInv /\ StreamInv
             /\ FramesStayWhole
=============================================================================
