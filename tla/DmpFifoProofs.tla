---------------------------- MODULE DmpFifoProofs ----------------------------
(***************************************************************************)
(* Proofs about DmpFifo, for every set of frames, every capacity and any   *)
(* number of frames, failed transactions, resets and restarts.             *)
(***************************************************************************)
EXTENDS DmpFifo, SequenceTheorems, TLAPS

(* The places where the fields of a frame end. *)
LEMMA FrameFacts ==
  ASSUME NEW k \in Kinds
  PROVE  /\ Len(k) \in Nat /\ Len(k) >= 2 /\ Total(k) \in Nat \ {0}
         /\ \A n \in 1..Len(k) : k[n] \in Nat \ {0} /\ k[n] <= Total(k)
         /\ \A n \in 1..Len(k) : Size(k, n) \in Nat \ {0}
         /\ \A n \in 1..Len(k) : n > 1 => k[n] = k[n - 1] + Size(k, n)
         /\ Size(k, 1) = k[1]
         /\ \A l \in Kinds : l[1] = k[1]
<1>1. /\ k \in Seq(Nat \ {0}) /\ Len(k) >= 2
      /\ \A i, j \in 1..Len(k) : i < j => k[i] < k[j]
  BY FifoAssumption
<1>2. Len(k) \in Nat /\ \A n \in 1..Len(k) : k[n] \in Nat \ {0}
  BY <1>1, LenProperties, ElementOfSeq
<1>3. Total(k) \in Nat \ {0} /\ \A n \in 1..Len(k) : k[n] <= Total(k)
  <2>1. Len(k) \in 1..Len(k)
    BY <1>1, <1>2
  <2>2. Total(k) = k[Len(k)]
    BY DEF Total
  <2>3. Total(k) \in Nat \ {0}
    BY <1>2, <2>1, <2>2
  <2> SUFFICES ASSUME NEW n \in 1..Len(k)
               PROVE  k[n] <= Total(k)
    BY <2>3
  <2>4. CASE n = Len(k)
    BY <2>2, <2>3, <2>4
  <2>5. CASE n < Len(k)
    BY <1>1, <1>2, <2>1, <2>2, <2>5
  <2> QED
    BY <1>2, <2>4, <2>5
<1>4. ASSUME NEW n \in 1..Len(k)
      PROVE  /\ Size(k, n) \in Nat \ {0}
             /\ n > 1 => k[n] = k[n - 1] + Size(k, n)
  <2>1. CASE n = 1
    BY <1>2, <2>1 DEF Size
  <2>2. CASE n > 1
    <3>1. n - 1 \in 1..Len(k) /\ n - 1 < n
      BY <1>2, <2>2
    <3>2. k[n - 1] \in Nat /\ k[n] \in Nat /\ k[n - 1] < k[n]
      BY <1>1, <1>2, <3>1
    <3>3. Size(k, n) = k[n] - k[n - 1]
      BY <2>2 DEF Size
    <3> QED
      BY <3>2, <3>3
  <2> QED
    BY <1>2, <2>1, <2>2
<1>5. Size(k, 1) = k[1]
  <2>1. k[1] \in Nat
    BY <1>1, <1>2
  <2> QED
    BY <2>1 DEF Size
<1>6. \A l \in Kinds : l[1] = k[1]
  BY FifoAssumption
<1> QED
  BY <1>1, <1>2, <1>3, <1>4, <1>5, <1>6

-----------------------------------------------------------------------------
(* Straight streams. *)

(* The next byte of the frame, or the first one of the next frame.         *)
LEMMA StraightAppend ==
  ASSUME NEW s \in Seq(Bytes), NEW b \in Bytes, Straight(s),
         s = << >> => b.pos = 1,
         s # << >> =>
           IF Ends(s[Len(s)])
           THEN b.pos = 1 /\ b.frame = s[Len(s)].frame + 1
           ELSE b = [s[Len(s)] EXCEPT !.pos = @ + 1]
  PROVE  Straight(Append(s, b))
<1> DEFINE t == Append(s, b)
           n == Len(s)
<1>1. /\ n \in Nat /\ DOMAIN s = 1..n /\ \A i \in 1..n : s[i] \in Bytes
      /\ s = << >> <=> n = 0
  BY LenProperties, ElementOfSeq, EmptySeq
<1>2. /\ t \in Seq(Bytes) /\ t # << >> /\ Len(t) = n + 1
      /\ \A i \in 1..n : t[i] = s[i]
      /\ t[n + 1] = b
  BY AppendProperties
<1>3. DOMAIN t = 1..n + 1 /\ \A i \in 1..n + 1 : t[i] \in Bytes
  BY <1>1, <1>2, LenProperties, ElementOfSeq
<1> HIDE DEF t, n
<1>4. t[1].pos = 1
  BY <1>1, <1>2 DEF Straight, n
<1>5. ASSUME NEW i \in 1..n + 1, NEW j \in 1..n + 1, i <= j,
             t[i].pos + (j - i) <= Total(t[i].kind)
      PROVE  t[j] = [t[i] EXCEPT !.pos = @ + (j - i)]
  <2>0. t[i] \in Bytes /\ t[i].pos \in Nat /\ t[i].kind \in Kinds
    BY <1>3 DEF Bytes
  <2>1. CASE j <= n
    <3>1. i \in DOMAIN s /\ j \in DOMAIN s /\ t[i] = s[i] /\ t[j] = s[j]
      BY <1>1, <1>2, <1>5, <2>1
    <3> QED
      BY <3>1, <1>5 DEF Straight
  <2>2. CASE i = j
    <3>1. t[i].pos + (j - i) = t[i].pos
      BY <1>1, <2>0, <2>2
    <3> QED
      BY <3>1, <2>0, <2>2 DEF Bytes
  <2>3. CASE i <= n /\ j = n + 1
    <3>1. /\ i \in DOMAIN s /\ n \in DOMAIN s /\ n \in 1..n /\ t[i] = s[i]
          /\ s # << >> /\ s[n] \in Bytes
      BY <1>1, <1>2, <2>3
    <3>2. s[i].pos + (n - i) <= Total(s[i].kind)
      <4>1. Total(s[i].kind) \in Nat
        BY <2>0, <3>1, FrameFacts
      <4> QED
        BY <4>1, <1>1, <1>5, <2>0, <2>3, <3>1
    <3>3. s[n] = [s[i] EXCEPT !.pos = @ + (n - i)]
      BY <3>1, <3>2, <1>1, <2>3 DEF Straight
    <3>4. s[n].pos = s[i].pos + (n - i) /\ s[n].kind = s[i].kind
      BY <3>3, <3>1, <2>0 DEF Bytes
    <3>5. s[n].pos < Total(s[n].kind)
      <4>1. Total(s[i].kind) \in Nat
        BY <2>0, <3>1, FrameFacts
      <4> QED
        BY <4>1, <3>1, <3>4, <1>1, <1>5, <2>0, <2>3
    <3>6. ~Ends(s[n])
      <4>1. Total(s[n].kind) \in Nat /\ s[n].pos \in Nat
        BY <3>1, FrameFacts DEF Bytes
      <4> QED
        BY <4>1, <3>5 DEF Ends
    <3>7. b = [s[n] EXCEPT !.pos = @ + 1]
      BY <3>1, <3>6 DEF n
    <3>8. s[i].pos + (n - i) + 1 = s[i].pos + (j - i)
      BY <1>1, <2>0, <2>3, <3>1
    <3>9. b = [s[i] EXCEPT !.pos = @ + (j - i)]
      BY <3>3, <3>7, <3>8, <3>1, <2>0 DEF Bytes
    <3> QED
      BY <3>1, <3>9, <1>2, <2>3
  <2> QED
    BY <1>1, <1>5, <2>1, <2>2, <2>3
<1>6. ASSUME NEW i \in 1..n + 1, i < n + 1, Ends(t[i])
      PROVE  t[i + 1].pos = 1 /\ t[i + 1].frame = t[i].frame + 1
  <2>1. i \in 1..n /\ i \in DOMAIN s /\ t[i] = s[i]
    BY <1>1, <1>2, <1>6
  <2>2. CASE i < n
    <3>1. i + 1 \in 1..n /\ t[i + 1] = s[i + 1]
      BY <1>1, <1>2, <2>1, <2>2
    <3> QED
      BY <3>1, <2>1, <2>2, <1>6 DEF Straight, n
  <2>3. CASE i = n
    <3>1. s # << >> /\ Ends(s[Len(s)])
      BY <1>1, <1>6, <2>1, <2>3 DEF n
    <3> QED
      BY <3>1, <1>2, <2>1, <2>3 DEF n
  <2> QED
    BY <1>1, <2>1, <2>2, <2>3
<1> QED
  BY <1>2, <1>3, <1>4, <1>5, <1>6 DEF Straight, t

(* What is left when whole frames are taken off.                           *)
LEMMA StraightRest ==
  ASSUME NEW s \in Seq(Bytes), NEW t \in Seq(Bytes), NEW n \in 1..Len(s),
         Straight(s), Ends(s[n]), Len(t) = Len(s) - n,
         \A i \in 1..Len(t) : t[i] = s[n + i]
  PROVE  /\ Straight(t)
         /\ t # << >> => t[1].frame = s[n].frame + 1
<1>1. /\ Len(s) \in Nat /\ DOMAIN s = 1..Len(s)
      /\ Len(t) \in Nat /\ DOMAIN t = 1..Len(t)
      /\ t # << >> <=> Len(t) > 0
  BY LenProperties, EmptySeq
<1>2. ASSUME t # << >>
      PROVE  t[1].pos = 1 /\ t[1].frame = s[n].frame + 1
  <2>1. 1 \in 1..Len(t) /\ n \in DOMAIN s /\ n < Len(s)
    BY <1>1, <1>2
  <2> QED
    BY <2>1 DEF Straight
<1>3. ASSUME NEW i \in 1..Len(t), NEW j \in 1..Len(t), i <= j,
             t[i].pos + (j - i) <= Total(t[i].kind)
      PROVE  t[j] = [t[i] EXCEPT !.pos = @ + (j - i)]
  <2>1. /\ n + i \in DOMAIN s /\ n + j \in DOMAIN s /\ n + i <= n + j
        /\ (n + j) - (n + i) = j - i
    BY <1>1, <1>3
  <2>2. t[i] = s[n + i] /\ t[j] = s[n + j]
    OBVIOUS
  <2>3. s[n + i].pos + ((n + j) - (n + i)) <= Total(s[n + i].kind)
    BY <1>3, <2>1, <2>2
  <2>4. s[n + j] = [s[n + i] EXCEPT !.pos = @ + ((n + j) - (n + i))]
    BY <2>1, <2>3 DEF Straight
  <2> QED
    BY <2>1, <2>2, <2>4
<1>4. ASSUME NEW i \in 1..Len(t), i < Len(t), Ends(t[i])
      PROVE  t[i + 1].pos = 1 /\ t[i + 1].frame = t[i].frame + 1
  <2>1. /\ n + i \in DOMAIN s /\ n + i < Len(s) /\ i + 1 \in 1..Len(t)
        /\ n + (i + 1) = (n + i) + 1
    BY <1>1, <1>4
  <2>2. t[i] = s[n + i] /\ t[i + 1] = s[n + i + 1]
    BY <2>1
  <2> QED
    BY <2>1, <2>2, <1>4 DEF Straight
<1> QED
  BY <1>1, <1>2, <1>3, <1>4 DEF Straight

LEMMA Regroup ==
  ASSUME NEW s \in Seq(Bytes), NEW t \in Seq(Bytes), NEW u \in Seq(Bytes)
  PROVE  (s \o t) \o u = s \o (t \o u)
BY ConcatAssociative

-----------------------------------------------------------------------------
(* The stream of a typed state. *)
LEMMA StreamIsSeq ==
  ASSUME TypeOK
  PROVE  /\ Pending \in Seq(Bytes) /\ fifo \in Seq(Bytes)
         /\ Pending \o fifo \in Seq(Bytes)
         /\ Coming \in Seq(Bytes) /\ Stream \in Seq(Bytes)
         /\ making \in Bytes /\ making.pos \in Nat /\ making.frame \in Nat
         /\ making.kind \in Kinds
<1>1. /\ fifo \in Seq(Bytes) /\ got \in Seq(Bytes) /\ making \in Bytes
  BY DEF TypeOK
<1>2. Pending \in Seq(Bytes)
  BY <1>1, EmptySeq DEF Pending
<1>3. << >> \in Seq(Bytes) /\ <<making>> \in Seq(Bytes)
  BY <1>1, EmptySeq
<1>4. Coming \in Seq(Bytes)
  BY <1>3 DEF Coming
<1>5. Pending \o fifo \in Seq(Bytes)
  BY <1>1, <1>2, ConcatProperties
<1>6. Stream \in Seq(Bytes)
  BY <1>4, <1>5, ConcatProperties DEF Stream
<1>7. making.pos \in Nat /\ making.frame \in Nat /\ making.kind \in Kinds
  BY <1>1, FifoAssumption DEF Bytes
<1> QED
  BY <1>1, <1>2, <1>4, <1>5, <1>6, <1>7

(* A failed transaction is counted. *)
LEMMA FaultTyped ==
  ASSUME TypeOK, Works \/ Fails
  PROVE  faults' \in 0..MaxFaults
<1>1. faults \in 0..MaxFaults /\ MaxFaults \in Nat
  BY FifoAssumption DEF TypeOK
<1> QED
  BY <1>1 DEF Works, Fails

(* Steps that leave FIFO and DMP alone keep the stream, or cut it when a   *)
(* call gives up what it has read.                                         *)
LEMMA QuietStep ==
  ASSUME FrameInv, StreamInv, UNCHANGED <<fifo, making, seen, wiped>>,
         \/ Pending' = Pending /\ cut' = cut
         \/ Pending' = << >> /\ cut'
  PROVE  FrameInv' /\ StreamInv'
<1>1. CASE Pending' = Pending /\ cut' = cut
  <2>1. Coming' = Coming
    BY DEF Coming, Between
  <2>2. Stream' = Stream
    BY <1>1, <2>1 DEF Stream
  <2>3. StreamInv'
    BY <1>1, <2>2 DEF StreamInv, Between, Newest, Straight, Ends, Total
  <2>4. FrameInv'
    BY <1>1 DEF FrameInv
  <2> QED
    BY <2>3, <2>4
<1>2. CASE Pending' = << >> /\ cut'
  <2>1. FrameInv'
    BY <1>2 DEF FrameInv
  <2>2. StreamInv'
    BY <1>2 DEF StreamInv
  <2> QED
    BY <2>1, <2>2
<1> QED
  BY <1>1, <1>2

(* Rounding a count down and adding the last digit of a later, larger one  *)
(* gives no more than the later count.                                     *)
LEMMA CountBelow ==
  ASSUME NEW h \in Nat, NEW l \in Nat, NEW b \in Nat \ {0}, h <= l
  PROVE  (h \div b) * b + (l % b) \in 0..l
<1> DEFINE x == h \div b
           y == l \div b
           r == l % b
           q == h % b
<1>1. /\ x \in Nat /\ q \in 0..b - 1 /\ h = x * b + q
  <2>1. q \in 0..b - 1
    OBVIOUS
  <2>2. x \in Nat
    OBVIOUS
  <2>3. h = x * b + q
    OBVIOUS
  <2> QED
    BY <2>1, <2>2, <2>3
<1>2. /\ y \in Nat /\ r \in 0..b - 1 /\ l = y * b + r
  <2>1. r \in 0..b - 1
    OBVIOUS
  <2>2. y \in Nat
    OBVIOUS
  <2>3. l = y * b + r
    OBVIOUS
  <2> QED
    BY <2>1, <2>2, <2>3
<1> HIDE DEF x, y, r, q
<1>3. ASSUME NEW m \in Nat, NEW n \in Nat, m < n
      PROVE  m * b + b <= n * b
  <2>1. PICK k \in Nat : n = m + 1 + k
    <3>1. n - m - 1 \in Nat /\ n = m + 1 + (n - m - 1)
      BY <1>3
    <3> QED
      BY <3>1
  <2>2. n * b = m * b + b + k * b
    BY <2>1
  <2>3. k * b >= 0
    OBVIOUS
  <2> QED
    BY <2>2, <2>3
<1>4. x * b \in Nat /\ y * b \in Nat
  BY <1>1, <1>2
<1>5. x * b <= y * b
  <2>1. CASE y < x
    <3>1. y * b + b <= x * b
      BY <1>1, <1>2, <1>3, <2>1
    <3> QED
      BY <3>1, <1>1, <1>2, <1>4
  <2>2. CASE x < y
    <3>1. x * b + b <= y * b
      BY <1>1, <1>2, <1>3, <2>2
    <3> QED
      BY <3>1, <1>4
  <2>3. CASE x = y
    BY <2>3, <1>4
  <2> QED
    BY <1>1, <1>2, <2>1, <2>2, <2>3
<1>6. x * b + r \in 0..l
  BY <1>2, <1>4, <1>5
<1> QED
  BY <1>6 DEF x, r

-----------------------------------------------------------------------------
(* The invariant step by step. *)
LEMMA FifoInit == Init => FifoInv
<1> SUFFICES ASSUME Init
             PROVE  FifoInv
  OBVIOUS
<1>1. /\ fifo = << >> /\ got = << >> /\ pc = "idle" /\ field = 1
      /\ fifo_count = 0 /\ high = 0 /\ status = "none" /\ cut = FALSE
      /\ seen = 0 /\ wiped = 0 /\ faults = 0 /\ resets = 0
      /\ making \in [frame : {0}, pos : {0}, kind : Kinds]
      /\ kind = making.kind
  BY DEF Init
<1>2. making.frame = 0 /\ making.pos = 0 /\ making.kind \in Kinds
  BY <1>1
<1>3. << >> \in Seq(Bytes) /\ Len(<< >>) = 0
  BY EmptySeq
<1>4. Len(kind) \in Nat /\ Len(kind) >= 2 /\ Total(kind) \in Nat
  BY <1>1, <1>2, FrameFacts
<1>5. /\ Capacity \in Nat /\ MaxFrames \in Nat /\ MaxFaults \in Nat
      /\ MaxResets \in Nat
  BY FifoAssumption
<1>6. making \in Bytes
  BY <1>1, <1>5 DEF Bytes
<1>7. TypeOK
  <2>1. cut \in BOOLEAN
    BY <1>1
  <2>2. making.pos \in 0..Total(making.kind) /\ field \in 1..Len(kind)
    BY <1>1, <1>2, <1>4
  <2>3. /\ fifo_count \in 0..Capacity /\ high \in 0..Capacity
        /\ seen \in 0..MaxFrames /\ wiped \in 0..MaxFrames
        /\ faults \in 0..MaxFaults /\ resets \in 0..MaxResets
    BY <1>1, <1>5
  <2>4. fifo \in Seq(Bytes) /\ Len(fifo) \in 0..Capacity /\ got \in Seq(Bytes)
    BY <1>1, <1>3, <1>5
  <2> QED
    BY <2>1, <2>2, <2>3, <2>4, <1>1, <1>2, <1>6 DEF TypeOK
<1>8. CountInv /\ GotInv
  BY <1>1 DEF CountInv, CountNeverHigh, GotInv, InCall
<1>9. Pending = << >> /\ Coming = << >>
  BY <1>1, <1>2 DEF Pending, InCall, Coming, Between
<1>10. Stream = << >>
  <2>1. << >> \o << >> = << >>
    BY <1>3, ConcatEmptySeq
  <2> QED
    BY <2>1, <1>1, <1>9 DEF Stream
<1>11. DOMAIN << >> = {}
  OBVIOUS
<1>12. FrameInv
  BY <1>1, <1>2, <1>9, <1>11 DEF FrameInv
<1>13. StreamInv
  BY <1>1, <1>2, <1>10, <1>11 DEF StreamInv, Straight, Newest
<1>14. FramesStayWhole
  BY <1>1 DEF FramesStayWhole, OkFrameIsValid, Valid
<1> QED
  BY <1>7, <1>8, <1>12, <1>13, <1>14 DEF FifoInv

LEMMA CallStep == FifoInv /\ ReadDMPdataFromFIFO => FifoInv'
<1> SUFFICES ASSUME FifoInv, ReadDMPdataFromFIFO
             PROVE  FifoInv'
  OBVIOUS
<1>0. TypeOK /\ FrameInv /\ StreamInv
  BY DEF FifoInv
<1>1. /\ pc = "idle" /\ pc' = "count" /\ got' = << >> /\ field' = 1
      /\ UNCHANGED <<fifo, making, kind, fifo_count, high, status, seen, cut,
                     faults, wiped, resets>>
  BY DEF ReadDMPdataFromFIFO, dmp, bounds
<1>2. Len(kind) \in Nat /\ Len(kind) >= 2
  BY <1>0, FrameFacts DEF TypeOK
<1>3. << >> \in Seq(Bytes) /\ Len(<< >>) = 0
  BY EmptySeq
<1>4. TypeOK'
  <2>1. field' \in 1..Len(kind')
    BY <1>1, <1>2
  <2> QED
    BY <2>1, <1>0, <1>1, <1>3 DEF TypeOK
<1>5. CountInv' /\ GotInv' /\ FramesStayWhole'
  BY <1>1, <1>3 DEF CountInv, CountNeverHigh, GotInv, InCall, FramesStayWhole,
                    OkFrameIsValid, Valid
<1>6. Pending' = Pending /\ cut' = cut
  BY <1>1 DEF Pending, InCall
<1>7. FrameInv' /\ StreamInv'
  BY <1>0, <1>1, <1>6, QuietStep
<1> QED
  BY <1>4, <1>5, <1>7 DEF FifoInv

LEMMA CheckStep == FifoInv /\ CheckCount => FifoInv'
<1> SUFFICES ASSUME FifoInv, CheckCount
             PROVE  FifoInv'
  OBVIOUS
<1>0. TypeOK /\ FrameInv /\ StreamInv /\ CountInv /\ GotInv
  BY DEF FifoInv
<1>1. /\ pc = "check" /\ fifo_count >= Field /\ pc' = "read"
      /\ UNCHANGED <<fifo, making, kind, field, got, fifo_count, high, status,
                     seen, cut, faults, wiped, resets>>
  BY DEF CheckCount, dmp, frame, bounds
<1>2. TypeOK'
  BY <1>0, <1>1 DEF TypeOK
<1>3. Field' = Field /\ Field \in Nat /\ fifo_count \in Nat
  <2>1. Field' = Field
    BY <1>1 DEF Field, Size
  <2>2. Field \in Nat
    BY <1>0, FrameFacts DEF TypeOK, Field
  <2>3. fifo_count \in Nat
    BY <1>0, FifoAssumption DEF TypeOK
  <2> QED
    BY <2>1, <2>2, <2>3
<1>4. CountInv'
  BY <1>0, <1>1, <1>3 DEF CountInv, CountNeverHigh
<1>5. GotInv' /\ FramesStayWhole'
  BY <1>0, <1>1 DEF GotInv, InCall, FramesStayWhole, OkFrameIsValid, Valid
<1>6. Pending' = Pending /\ cut' = cut
  BY <1>1 DEF Pending, InCall
<1>7. FrameInv' /\ StreamInv'
  BY <1>0, <1>1, <1>6, QuietStep
<1> QED
  BY <1>2, <1>4, <1>5, <1>7 DEF FifoInv

(* A call that returns without a frame leaves the stream as it is, when it *)
(* has read nothing, or cuts it.                                           *)
LEMMA GivesUp ==
  ASSUME FifoInv, InCall, Works \/ Fails,
         UNCHANGED <<fifo, making, kind, field, got, wiped, resets>>,
         fifo_count' \in 0..Capacity, high' \in 0..Capacity,
         NEW s \in {"NoData", "Incomplete", "Err"},
         s = "NoData" => got = << >>,
         Return(s, got)
  PROVE  FifoInv'
<1>0. TypeOK /\ FrameInv /\ StreamInv
  BY DEF FifoInv
<1>1. /\ pc' = "idle" /\ status' = s /\ seen' = seen
      /\ cut' = (cut \/ got # << >>)
  BY DEF Return
<1>2. faults' \in 0..MaxFaults
  BY <1>0, FaultTyped
<1>3. cut' \in BOOLEAN
  BY <1>1
<1>4. TypeOK'
  BY <1>0, <1>1, <1>2, <1>3 DEF TypeOK
<1>5. CountInv' /\ GotInv' /\ FramesStayWhole'
  BY <1>1 DEF CountInv, CountNeverHigh, GotInv, InCall, FramesStayWhole,
              OkFrameIsValid, Valid
<1>6. \/ Pending' = Pending /\ cut' = cut
      \/ Pending' = << >> /\ cut'
  <2>1. Pending = got /\ Pending' = << >>
    BY <1>1 DEF Pending, InCall
  <2>2. CASE got = << >>
    <3>1. cut' = cut
      BY <1>1, <2>2, <1>0 DEF TypeOK
    <3> QED
      BY <2>1, <2>2, <3>1
  <2>3. CASE got # << >>
    BY <1>1, <2>1, <2>3
  <2> QED
    BY <2>2, <2>3
<1>7. FrameInv' /\ StreamInv'
  BY <1>0, <1>1, <1>6, QuietStep
<1> QED
  BY <1>4, <1>5, <1>7 DEF FifoInv

LEMMA HighStep == FifoInv /\ GetCountHigh => FifoInv'
<1> SUFFICES ASSUME FifoInv, GetCountHigh
             PROVE  FifoInv'
  OBVIOUS
<1>0. TypeOK /\ FrameInv /\ StreamInv /\ CountInv /\ GotInv /\ InCall
  BY DEF FifoInv, GetCountHigh, InCall
<1>1. /\ pc \in {"count", "check"}
      /\ UNCHANGED <<fifo, making, kind, field, got, fifo_count, wiped, resets>>
  BY DEF GetCountHigh, dmp, frame, bounds
<1>2. CASE /\ Works
           /\ pc' = "low" /\ high' = Len(fifo)
           /\ UNCHANGED <<status, seen, cut>>
  <2>1. faults' \in 0..MaxFaults
    BY <1>0, <1>2, FaultTyped
  <2>2. Len(fifo) \in 0..Capacity /\ Len(fifo) \in Nat
    BY <1>0, FifoAssumption DEF TypeOK
  <2>3. TypeOK'
    BY <1>0, <1>1, <1>2, <2>1, <2>2 DEF TypeOK
  <2>4. CountInv'
    BY <1>1, <1>2, <2>2 DEF CountInv, CountNeverHigh
  <2>5. GotInv' /\ FramesStayWhole'
    BY <1>0, <1>1, <1>2
       DEF GotInv, InCall, FramesStayWhole, OkFrameIsValid, Valid
  <2>6. Pending' = Pending /\ cut' = cut
    BY <1>1, <1>2 DEF Pending, InCall
  <2>7. FrameInv' /\ StreamInv'
    BY <1>0, <1>1, <1>2, <2>6, QuietStep
  <2> QED
    BY <2>3, <2>4, <2>5, <2>7 DEF FifoInv
<1>3. CASE Fails /\ Return("Err", got) /\ UNCHANGED high
  <2>1. fifo_count' \in 0..Capacity /\ high' \in 0..Capacity
    BY <1>0, <1>1, <1>3 DEF TypeOK
  <2> QED
    BY <1>0, <1>1, <1>3, <2>1, GivesUp
<1> QED
  BY <1>2, <1>3 DEF GetCountHigh

LEMMA LowStep == FifoInv /\ GetCountLow => FifoInv'
<1> SUFFICES ASSUME FifoInv, GetCountLow
             PROVE  FifoInv'
  OBVIOUS
<1>0. /\ TypeOK /\ FrameInv /\ StreamInv /\ CountInv /\ GotInv /\ InCall
      /\ pc = "low" /\ high' = 0
  BY DEF FifoInv, GetCountLow, InCall
<1>1. UNCHANGED <<fifo, making, kind, field, got, wiped, resets>>
  BY DEF GetCountLow, dmp, frame, bounds
<1>2. /\ Len(fifo) \in 0..Capacity /\ Len(fifo) \in Nat /\ Capacity \in Nat
      /\ high \in Nat /\ high <= Len(fifo) /\ 0 \in 0..Capacity
      /\ CountBase \in Nat \ {0}
  <2>1. Capacity \in Nat /\ CountBase \in Nat \ {0}
    BY FifoAssumption
  <2>2. /\ Len(fifo) \in 0..Capacity /\ high \in 0..Capacity
        /\ high <= Len(fifo)
    BY <1>0 DEF TypeOK, CountInv
  <2> QED
    BY <2>1, <2>2
<1>3. CASE /\ Works
           /\ fifo_count' \in Counts
           /\ IF fifo_count' < Field
              THEN Return(IF field = 1 THEN "NoData" ELSE "Incomplete", got)
              ELSE pc' = "read" /\ UNCHANGED <<status, seen, cut>>
  <2>1. fifo_count' \in 0..Len(fifo)
    <3>1. (high \div CountBase) * CountBase + (Len(fifo) % CountBase)
            \in 0..Len(fifo)
      BY <1>2, CountBelow
    <3>2. high \in 0..Len(fifo)
      BY <1>2
    <3> QED
      BY <1>3, <3>1, <3>2 DEF Counts
  <2>2. fifo_count' \in 0..Capacity
    BY <1>2, <2>1
  <2>3. Field \in Nat /\ Field' = Field
    <3>1. Field' = Field
      BY <1>1 DEF Field, Size
    <3> QED
      BY <3>1, <1>0, FrameFacts DEF TypeOK, Field
  <2>4. CASE fifo_count' < Field
    <3> DEFINE s == IF field = 1 THEN "NoData" ELSE "Incomplete"
    <3>1. Return(s, got)
      BY <1>3, <2>4
    <3>2. s \in {"NoData", "Incomplete", "Err"}
      OBVIOUS
    <3>3. s = "NoData" => got = << >>
      <4>1. field = 1 => Len(got) = 0
        BY <1>0 DEF GotInv
      <4>2. got \in Seq(Bytes)
        BY <1>0 DEF TypeOK
      <4> QED
        BY <4>1, <4>2, EmptySeq
    <3> HIDE DEF s
    <3> QED
      BY <1>0, <1>1, <1>2, <1>3, <2>2, <3>1, <3>2, <3>3, GivesUp
  <2>5. CASE ~(fifo_count' < Field)
    <3>1. pc' = "read" /\ UNCHANGED <<status, seen, cut>>
      BY <1>3, <2>5
    <3>2. faults' \in 0..MaxFaults
      BY <1>0, <1>3, FaultTyped
    <3>3. TypeOK'
      BY <1>0, <1>1, <1>2, <2>2, <3>1, <3>2 DEF TypeOK
    <3>4. CountInv'
      BY <1>1, <1>2, <2>1, <2>3, <2>5, <3>1 DEF CountInv, CountNeverHigh
    <3>5. GotInv' /\ FramesStayWhole'
      BY <1>0, <1>1, <3>1
         DEF GotInv, InCall, FramesStayWhole, OkFrameIsValid, Valid
    <3>6. Pending' = Pending /\ cut' = cut
      BY <1>0, <1>1, <3>1 DEF Pending, InCall
    <3>7. FrameInv' /\ StreamInv'
      BY <1>0, <1>1, <3>1, <3>6, QuietStep
    <3> QED
      BY <3>3, <3>4, <3>5, <3>7 DEF FifoInv
  <2> QED
    BY <2>4, <2>5
<1>4. CASE Fails /\ Return("Err", got) /\ UNCHANGED fifo_count
  <2>1. fifo_count' \in 0..Capacity
    BY <1>0, <1>4 DEF TypeOK
  <2> QED
    BY <1>0, <1>1, <1>2, <1>4, <2>1, GivesUp
<1> QED
  BY <1>3, <1>4 DEF GetCountLow

(* The DMP's next byte comes to the end of the stream. *)
LEMMA StreamGrows ==
  ASSUME TypeOK, StreamInv, ~cut, NEW b \in Bytes,
         Stream # << >> =>
           IF Ends(Stream[Len(Stream)])
           THEN b.pos = 1 /\ b.frame = Stream[Len(Stream)].frame + 1
           ELSE b = [Stream[Len(Stream)] EXCEPT !.pos = @ + 1],
         Stream = << >> => b.pos = 1 /\ b.frame = 1 + Newest
  PROVE  /\ Straight(Append(Stream, b)) /\ Append(Stream, b) # << >>
         /\ Append(Stream, b)[1].frame = 1 + Newest
         /\ Append(Stream, b)[Len(Append(Stream, b))] = b
<1>1. Stream \in Seq(Bytes) /\ Straight(Stream)
  BY StreamIsSeq DEF StreamInv
<1>2. Straight(Append(Stream, b))
  BY <1>1, StraightAppend
<1>3. /\ Append(Stream, b) # << >>
      /\ Len(Append(Stream, b)) = Len(Stream) + 1
      /\ \A i \in 1..Len(Stream) : Append(Stream, b)[i] = Stream[i]
      /\ Append(Stream, b)[Len(Stream) + 1] = b
  BY <1>1, AppendProperties
<1>4. Append(Stream, b)[1].frame = 1 + Newest
  <2>1. CASE Stream = << >>
    <3>1. Append(Stream, b)[1] = b
      BY <1>3, <2>1, EmptySeq
    <3> QED
      BY <3>1, <2>1
  <2>2. CASE Stream # << >>
    <3>1. 1 \in 1..Len(Stream)
      BY <1>1, <2>2, EmptySeq
    <3> QED
      BY <3>1, <1>3, <2>2 DEF StreamInv
  <2> QED
    BY <2>1, <2>2
<1> QED
  BY <1>2, <1>3, <1>4

LEMMA BeginStep ==
  ASSUME NEW k \in Kinds
  PROVE  FifoInv /\ BeginFrame(k) => FifoInv'
<1> SUFFICES ASSUME FifoInv, BeginFrame(k)
             PROVE  FifoInv'
  OBVIOUS
<1>0. TypeOK /\ FrameInv /\ StreamInv /\ CountInv /\ GotInv /\ FramesStayWhole
  BY DEF FifoInv
<1>1. /\ making.pos = 0 /\ making.frame < MaxFrames
      /\ making' = [frame |-> making.frame + 1, pos |-> 1, kind |-> k]
      /\ UNCHANGED <<fifo, pc, kind, field, got, fifo_count, high, status,
                     seen, cut, faults, wiped, resets>>
  BY DEF BeginFrame, Between, reader, frame, bounds
<1>2. /\ making.frame \in 0..MaxFrames /\ making.frame \in Nat
      /\ MaxFrames \in Nat /\ Total(k) \in Nat \ {0}
  BY <1>0, FifoAssumption, FrameFacts DEF TypeOK, Bytes
<1>3. /\ making' \in Bytes /\ making'.pos = 1 /\ making'.kind = k
      /\ making'.frame = making.frame + 1
  BY <1>1, <1>2 DEF Bytes
<1>4. TypeOK'
  <2>1. making'.pos \in 0..Total(making'.kind)
    BY <1>2, <1>3
  <2> QED
    BY <2>1, <1>0, <1>1, <1>3 DEF TypeOK
<1>5. CountInv' /\ GotInv' /\ FramesStayWhole'
  <2>1. Field' = Field
    BY <1>1 DEF Field, Size
  <2>2. CountInv'
    BY <2>1, <1>0, <1>1 DEF CountInv, CountNeverHigh
  <2>3. GotInv'
    BY <1>0, <1>1 DEF GotInv, InCall
  <2>4. FramesStayWhole'
    BY <1>0, <1>1 DEF FramesStayWhole, OkFrameIsValid, Valid, Whole
  <2> QED
    BY <2>2, <2>3, <2>4
<1>6. Pending' = Pending /\ Coming = << >> /\ Coming' = <<making'>>
  BY <1>1, <1>3 DEF Pending, InCall, Coming, Between
<1>7. FrameInv'
  <2>1. \A i \in DOMAIN fifo : fifo[i].frame \in Nat
    <3>1. \A i \in DOMAIN fifo : fifo[i] \in Bytes
      BY <1>0, LenProperties, ElementOfSeq DEF TypeOK
    <3> QED
      BY <3>1 DEF Bytes
  <2>2. \A i \in DOMAIN Pending : Pending[i].frame \in Nat
    <3>1. \A i \in DOMAIN Pending : Pending[i] \in Bytes
      BY <1>0, StreamIsSeq, LenProperties, ElementOfSeq
    <3> QED
      BY <3>1 DEF Bytes
  <2>3. seen \in Nat /\ wiped \in Nat
    BY <1>0, <1>2 DEF TypeOK
  <2> QED
    BY <2>1, <2>2, <2>3, <1>0, <1>1, <1>2, <1>3, <1>6 DEF FrameInv
<1>8. StreamInv'
  <2> SUFFICES ASSUME ~cut
               PROVE  /\ Straight(Stream') /\ Stream' # << >>
                      /\ Stream'[1].frame = 1 + Newest
    BY <1>1, <1>3 DEF StreamInv, Between, Newest, Straight, Ends, Total
  <2>1. Stream = Pending \o fifo /\ Stream' = Append(Stream, making')
    <3>1. Pending \o fifo \in Seq(Bytes)
      BY <1>0, StreamIsSeq
    <3>2. (Pending \o fifo) \o << >> = Pending \o fifo
      BY <3>1, ConcatEmptySeq
    <3>3. Append(Pending \o fifo, making') = (Pending \o fifo) \o <<making'>>
      BY <3>1, <1>3, AppendIsConcat
    <3> QED
      BY <3>2, <3>3, <1>1, <1>6 DEF Stream
  <2>2. Stream # << >> => /\ Ends(Stream[Len(Stream)])
                          /\ Stream[Len(Stream)].frame = making.frame
    BY <1>0, <1>1 DEF StreamInv, Between
  <2>3. Stream = << >> => making'.frame = 1 + Newest
    BY <1>0, <1>2, <1>3 DEF StreamInv
  <2> QED
    BY <2>1, <2>2, <2>3, <1>0, <1>3, StreamGrows
<1> QED
  BY <1>4, <1>5, <1>7, <1>8 DEF FifoInv

LEMMA ResetStep == FifoInv /\ (ResetFIFO \/ Restart) => FifoInv'
<1> SUFFICES ASSUME FifoInv, ResetFIFO \/ Restart
             PROVE  FifoInv'
  OBVIOUS
<1>0. TypeOK /\ FrameInv
  BY DEF FifoInv
<1>1. /\ fifo' = << >> /\ got' = << >> /\ pc' \in {"idle", "setup"}
      /\ status' = "none" /\ UNCHANGED <<seen, faults>>
  BY DEF ResetFIFO, Restart
<1>2. << >> \in Seq(Bytes) /\ Len(<< >>) = 0 /\ DOMAIN << >> = {}
  BY EmptySeq
<1>3. /\ MaxFrames \in Nat /\ MaxResets \in Nat /\ Capacity \in Nat
      /\ making.frame \in 0..MaxFrames /\ making.frame \in Nat
      /\ making.pos \in Nat /\ making.kind \in Kinds /\ making \in Bytes
      /\ making.pos \in 0..Total(making.kind)
      /\ Total(making.kind) \in Nat
      /\ seen \in Nat /\ seen <= making.frame
      /\ making.pos = 1 => seen < making.frame
  BY <1>0, FifoAssumption, FrameFacts DEF TypeOK, Bytes, FrameInv
<1>4. resets' \in 0..MaxResets
  <2>1. resets \in 0..MaxResets
    BY <1>0 DEF TypeOK
  <2>2. resets' = resets \/ (resets < MaxResets /\ resets' = resets + 1)
    BY DEF ResetFIFO, Restart
  <2> QED
    BY <2>1, <2>2, <1>3
<1>5. /\ making' \in Bytes /\ making'.frame = making.frame
      /\ making'.pos \in 0..Total(making'.kind)
      /\ making'.pos = making.pos \/ making'.pos = 0
      /\ wiped' = IF making'.pos = 1 THEN making.frame - 1 ELSE making.frame
      /\ cut' \in BOOLEAN /\ (making'.pos > 1 => cut')
      /\ kind' \in Kinds /\ field' \in 1..Len(kind')
      /\ fifo_count' \in 0..Capacity /\ high' \in 0..Capacity
  <2>1. CASE ResetFIFO
    <3>1. cut' \in BOOLEAN /\ (making.pos > 1 => cut')
      <4>1. CASE making.pos > 1
        <5>1. cut'
          BY <2>1, <4>1 DEF ResetFIFO
        <5>2. cut' = (making.pos > 1)
          BY <2>1 DEF ResetFIFO
        <5>3. (making.pos > 1) = TRUE
          BY <4>1
        <5> QED
          BY <5>1, <5>2, <5>3
      <4>2. CASE ~(making.pos > 1)
        <5>1. cut' = (making.pos > 1)
          BY <2>1 DEF ResetFIFO
        <5>2. (making.pos > 1) = FALSE
          BY <4>2
        <5>3. cut' = FALSE
          BY <5>1, <5>2
        <5> QED
          BY <5>3, <4>2
      <4> QED
        BY <4>1, <4>2
    <3>2. /\ making' = making
          /\ wiped' = IF making.pos = 1 THEN making.frame - 1 ELSE making.frame
          /\ UNCHANGED <<kind, field, fifo_count, high>>
      BY <2>1 DEF ResetFIFO
    <3>3. /\ kind \in Kinds /\ field \in 1..Len(kind)
          /\ fifo_count \in 0..Capacity /\ high \in 0..Capacity
      BY <1>0 DEF TypeOK
    <3> QED
      BY <3>1, <3>2, <3>3, <1>3
  <2>2. CASE Restart
    <3>1. making' = [making EXCEPT !.pos = 0]
      BY <2>2 DEF Restart
    <3>2. /\ making' \in Bytes /\ making'.frame = making.frame
          /\ making'.pos = 0 /\ making'.kind = making.kind
      BY <3>1, <1>3 DEF Bytes
    <3>3. kind' = making.kind /\ field' = 1 /\ fifo_count' = 0 /\ high' = 0
      BY <2>2 DEF Restart
    <3>4. Len(kind') \in Nat /\ Len(kind') >= 2
      BY <1>3, <3>3, FrameFacts
    <3>5. cut' = FALSE /\ wiped' = making.frame
      BY <2>2 DEF Restart
    <3>6. cut' \in BOOLEAN /\ ~(making'.pos > 1)
      <4>1. cut' \in BOOLEAN
        BY <3>5
      <4>2. ~(making'.pos > 1)
        BY <3>2
      <4> QED
        BY <4>1, <4>2
    <3>7. field' \in 1..Len(kind')
      BY <3>3, <3>4
    <3>8. 0 \in 0..Total(making'.kind) /\ 0 \in 0..Capacity
      BY <1>3, <3>2
    <3> QED
      BY <1>3, <3>2, <3>3, <3>5, <3>6, <3>7, <3>8
  <2> QED
    BY <2>1, <2>2
<1>6. wiped' \in 0..MaxFrames /\ wiped' <= making.frame
  BY <1>3, <1>5
<1>7. TypeOK'
  <2>1. Len(fifo') \in 0..Capacity
    BY <1>1, <1>2, <1>3
  <2> QED
    BY <2>1, <1>0, <1>1, <1>2, <1>4, <1>5, <1>6 DEF TypeOK
<1>8. CountInv' /\ GotInv' /\ FramesStayWhole'
  BY <1>1 DEF CountInv, CountNeverHigh, GotInv, InCall, FramesStayWhole,
              OkFrameIsValid, Valid
<1>9. Pending' = << >>
  BY <1>1 DEF Pending, InCall
<1>10. FrameInv'
  BY <1>1, <1>2, <1>3, <1>5, <1>6, <1>9 DEF FrameInv
<1>11. Stream' = Coming'
  <2>1. Coming' \in Seq(Bytes)
    BY <1>7, <1>2, <1>5 DEF Coming, Between
  <2>2. << >> \o << >> = << >> /\ << >> \o Coming' = Coming'
    BY <1>2, <2>1, ConcatEmptySeq
  <2> QED
    BY <2>2, <1>1, <1>9 DEF Stream
<1>12. StreamInv'
  <2> SUFFICES ASSUME ~cut'
               PROVE  /\ Straight(Stream')
                      /\ IF Stream' = << >>
                         THEN making'.frame = Newest'
                         ELSE Stream'[1].frame = 1 + Newest'
                      /\ making'.pos = 0 => Stream' = << >>
    BY DEF StreamInv, Between, Straight, Ends, Total
  <2>1. making'.pos = 0 \/ making'.pos = 1
    <3>1. ~(making'.pos > 1)
      BY <1>5
    <3>2. making'.pos \in Nat
      BY <1>3, <1>5
    <3> QED
      BY <3>1, <3>2
  <2>2. CASE making'.pos = 0
    <3>1. Stream' = << >>
      BY <1>11, <2>2 DEF Coming, Between
    <3>2. wiped' = making.frame
      BY <1>5, <2>2
    <3>3. Newest' = making.frame
      BY <1>1, <1>3, <3>2 DEF Newest
    <3> QED
      BY <3>1, <3>3, <1>2, <1>5, <2>2 DEF Straight
  <2>3. CASE making'.pos = 1
    <3>1. Stream' = <<making'>>
      BY <1>11, <2>3 DEF Coming, Between
    <3>2. Append(<< >>, making') = <<making'>>
      OBVIOUS
    <3>3. Straight(<< >>)
      BY <1>2 DEF Straight
    <3>4. Straight(Append(<< >>, making'))
      BY <1>2, <1>5, <2>3, <3>3, StraightAppend
    <3>5. wiped' = making.frame - 1 /\ making.pos = 1
      BY <1>5, <2>3
    <3>6. Newest' = making.frame - 1
      BY <1>1, <1>3, <3>5 DEF Newest
    <3> QED
      BY <3>1, <3>2, <3>4, <3>6, <1>3, <1>5, <2>3
  <2> QED
    BY <2>1, <2>2, <2>3
<1> QED
  BY <1>7, <1>8, <1>10, <1>12 DEF FifoInv

LEMMA EmitStep == FifoInv /\ EmitByte => FifoInv'
<1> SUFFICES ASSUME FifoInv, EmitByte
             PROVE  FifoInv'
  OBVIOUS
<1> DEFINE base == IF Len(fifo) = Capacity THEN Tail(fifo) ELSE fifo
<1>0. TypeOK /\ FrameInv /\ StreamInv /\ CountInv /\ GotInv /\ FramesStayWhole
  BY DEF FifoInv
<1>1. /\ making.pos # 0 /\ fifo' = Append(base, making)
      /\ making' = [making EXCEPT !.pos =
                      IF @ = Total(making.kind) THEN 0 ELSE @ + 1]
      /\ UNCHANGED <<pc, kind, field, got, fifo_count, high, status, seen,
                     faults, wiped, resets>>
  BY DEF EmitByte, Between, reader, frame, bounds
<1>2. /\ making \in Bytes /\ making.pos \in Nat /\ making.pos >= 1
      /\ making.kind \in Kinds /\ making.frame \in 0..MaxFrames
      /\ making.frame \in Nat
      /\ Total(making.kind) \in Nat /\ making.pos <= Total(making.kind)
      /\ Capacity \in Nat \ {0}
      /\ fifo \in Seq(Bytes) /\ Len(fifo) \in Nat /\ Len(fifo) <= Capacity
  <2>1. /\ making \in Bytes /\ making.kind \in Kinds /\ making.pos \in Nat
        /\ making.frame \in 0..MaxFrames /\ MaxFrames \in Nat
    BY <1>0, FifoAssumption DEF TypeOK, Bytes
  <2>2. Total(making.kind) \in Nat
    BY <2>1, FrameFacts
  <2>3. making.pos \in 0..Total(making.kind)
    BY <1>0 DEF TypeOK
  <2>4. /\ Capacity \in Nat \ {0} /\ fifo \in Seq(Bytes)
        /\ Len(fifo) \in 0..Capacity
    BY <1>0, FifoAssumption DEF TypeOK
  <2> QED
    BY <1>1, <2>1, <2>2, <2>3, <2>4
<1>3. /\ making' \in Bytes /\ making'.kind = making.kind
      /\ making'.frame = making.frame /\ making'.pos # 1
      /\ making'.pos \in 0..Total(making.kind)
      /\ Ends(making) => making'.pos = 0
      /\ ~Ends(making) => /\ making'.pos # 0
                          /\ making' = [making EXCEPT !.pos = @ + 1]
  <2>1. CASE making.pos = Total(making.kind)
    <3>1. making' = [making EXCEPT !.pos = 0]
      BY <1>1, <2>1
    <3> QED
      BY <3>1, <1>2, <2>1 DEF Bytes, Ends
  <2>2. CASE making.pos # Total(making.kind)
    <3>1. making' = [making EXCEPT !.pos = @ + 1]
      BY <1>1, <2>2
    <3>2. /\ making.pos + 1 \in Nat /\ making.pos + 1 # 1
          /\ making.pos + 1 # 0 /\ making.pos + 1 \in 0..Total(making.kind)
      BY <1>2, <2>2
    <3>3. ~Ends(making)
      BY <2>2 DEF Ends
    <3>4. /\ making' \in Bytes /\ making'.kind = making.kind
          /\ making'.frame = making.frame /\ making'.pos = making.pos + 1
      BY <3>1, <3>2, <1>2 DEF Bytes
    <3> QED
      BY <3>1, <3>2, <3>3, <3>4
  <2> QED
    BY <2>1, <2>2
<1>4. /\ base \in Seq(Bytes) /\ Len(base) \in Nat /\ Len(base) < Capacity
      /\ Len(fifo) <= Len(base) + 1
      /\ \A i \in 1..Len(base) : \E j \in 1..Len(fifo) : base[i] = fifo[j]
  <2>1. CASE Len(fifo) = Capacity
    <3>1. fifo # << >> /\ base = Tail(fifo)
      BY <1>2, <2>1, EmptySeq
    <3>2. /\ Tail(fifo) \in Seq(Bytes) /\ Len(Tail(fifo)) = Len(fifo) - 1
          /\ \A i \in 1..Len(Tail(fifo)) : Tail(fifo)[i] = fifo[i + 1]
      BY <1>2, <3>1, HeadTailProperties
    <3>3. \A i \in 1..Len(Tail(fifo)) : i + 1 \in 1..Len(fifo)
      BY <1>2, <3>2
    <3>4. Len(base) = Len(fifo) - 1 /\ Len(base) \in Nat
      BY <1>2, <2>1, <3>1, <3>2
    <3> QED
      BY <1>2, <2>1, <3>1, <3>2, <3>3, <3>4
  <2>2. CASE Len(fifo) # Capacity
    BY <1>2, <2>2
  <2> QED
    BY <2>1, <2>2
<1> HIDE DEF base
<1>5. /\ fifo' \in Seq(Bytes) /\ Len(fifo') = Len(base) + 1
      /\ \A i \in 1..Len(base) : fifo'[i] = base[i]
      /\ fifo'[Len(base) + 1] = making
      /\ DOMAIN fifo' = 1..Len(base) + 1 /\ DOMAIN fifo = 1..Len(fifo)
  BY <1>1, <1>2, <1>4, AppendProperties, LenProperties
<1>6. cut' \in BOOLEAN
  BY DEF EmitByte
<1>7. TypeOK'
  <2>1. Len(fifo') \in 0..Capacity
    BY <1>2, <1>4, <1>5
  <2>2. making'.pos \in 0..Total(making'.kind)
    BY <1>3
  <2> QED
    BY <2>1, <2>2, <1>0, <1>1, <1>3, <1>5, <1>6 DEF TypeOK
<1>8. CountInv'
  <2>1. Field' = Field
    BY <1>1 DEF Field, Size
  <2>2. high \in Nat /\ fifo_count \in Nat
    BY <1>0, <1>2 DEF TypeOK
  <2>3. Len(fifo) <= Len(fifo') /\ Len(fifo') \in Nat
    BY <1>2, <1>4, <1>5
  <2>4. CountNeverHigh'
    BY <2>2, <2>3, <1>0, <1>1, <1>2 DEF CountInv, CountNeverHigh
  <2>5. pc' = "low" => high' <= Len(fifo')
    BY <2>2, <2>3, <1>0, <1>1, <1>2 DEF CountInv
  <2> QED
    BY <2>1, <2>4, <2>5, <1>0, <1>1 DEF CountInv
<1>9. cut => cut'
  BY DEF EmitByte
<1>10. GotInv' /\ FramesStayWhole'
  <2>1. GotInv'
    BY <1>0, <1>1, <1>9 DEF GotInv, InCall
  <2>2. FramesStayWhole'
    BY <1>0, <1>1, <1>9
       DEF FramesStayWhole, OkFrameIsValid, Valid, Whole
  <2> QED
    BY <2>1, <2>2
<1>11. Pending' = Pending
  BY <1>1 DEF Pending, InCall
<1>12. FrameInv'
  <2>1. \A i \in 1..Len(base) : base[i].frame <= making.frame
    BY <1>0, <1>4, <1>5 DEF FrameInv
  <2>2. \A i \in DOMAIN fifo' : fifo'[i].frame <= making.frame
    <3> SUFFICES ASSUME NEW i \in DOMAIN fifo'
                 PROVE  fifo'[i].frame <= making.frame
      OBVIOUS
    <3>1. CASE i \in 1..Len(base)
      BY <2>1, <3>1, <1>5
    <3>2. CASE i = Len(base) + 1
      BY <1>2, <1>5, <3>2
    <3> QED
      BY <1>4, <1>5, <3>1, <3>2
  <2> QED
    BY <2>2, <1>0, <1>1, <1>3, <1>11 DEF FrameInv
<1>13. StreamInv'
  <2>1. CASE Len(fifo) = Capacity
    <3>1. cut'
      BY <2>1 DEF EmitByte
    <3> QED
      BY <3>1 DEF StreamInv
  <2>2. CASE Len(fifo) # Capacity
    <3> SUFFICES ASSUME ~cut'
                 PROVE  StreamInv'
      BY DEF StreamInv
    <3>1. ~cut
      BY <1>9
    <3>2. /\ Pending \in Seq(Bytes) /\ Pending \o fifo \in Seq(Bytes)
          /\ <<making>> \in Seq(Bytes)
      BY <1>0, <1>2, StreamIsSeq
    <3>3. Stream = (Pending \o fifo) \o <<making>>
      BY <1>1 DEF Stream, Coming, Between
    <3>4. Stream = Append(Pending \o fifo, making)
      BY <1>2, <3>2, <3>3, AppendIsConcat
    <3>5. Pending' \o fifo' = Stream
      <4>1. fifo' = fifo \o <<making>>
        BY <1>1, <1>2, <2>2, AppendIsConcat DEF base
      <4>2. Pending \o (fifo \o <<making>>) = (Pending \o fifo) \o <<making>>
        BY <1>2, <3>2, ConcatAssociative
      <4> QED
        BY <4>1, <4>2, <3>3, <1>11
    <3>6. /\ Stream \in Seq(Bytes) /\ Stream # << >>
          /\ Stream[Len(Stream)] = making
      <4> DEFINE front == Pending \o fifo
      <4>1. front \in Seq(Bytes) /\ Stream = Append(front, making)
        BY <3>2, <3>4
      <4> HIDE DEF front
      <4> QED
        BY <1>2, <4>1, AppendProperties
    <3>7. Straight(Stream) /\ Stream[1].frame = 1 + Newest
      BY <1>0, <3>1, <3>6 DEF StreamInv
    <3>8. Newest' = Newest
      BY <1>1 DEF Newest
    <3>9. CASE Ends(making)
      <4>1. making'.pos = 0
        BY <1>3, <3>9
      <4>2. Coming' = << >>
        BY <4>1 DEF Coming, Between
      <4>3. Stream \o << >> = Stream
        BY <3>6, ConcatEmptySeq
      <4>4. Stream' = Stream
        BY <3>5, <4>2, <4>3 DEF Stream
      <4> QED
        BY <4>1, <4>4, <3>6, <3>7, <3>8, <3>9, <1>3
           DEF StreamInv, Between, Straight, Ends, Total
    <3>10. CASE ~Ends(making)
      <4>1. making'.pos # 0 /\ making' = [making EXCEPT !.pos = @ + 1]
        BY <1>3, <3>10
      <4>2. Coming' = <<making'>>
        BY <4>1 DEF Coming, Between
      <4>3. Append(Stream, making') = Stream \o <<making'>>
        BY <3>6, <1>3, AppendIsConcat
      <4>4. Stream' = Append(Stream, making')
        BY <3>5, <4>2, <4>3 DEF Stream
      <4>5. /\ Straight(Append(Stream, making'))
            /\ Append(Stream, making') # << >>
            /\ Append(Stream, making')[1].frame = 1 + Newest
        BY <1>0, <1>3, <3>1, <3>6, <3>10, <4>1, StreamGrows
      <4>6. ~Between'
        BY <4>1 DEF Between
      <4>7. /\ Straight(Stream') /\ Stream' # << >>
            /\ Stream'[1].frame = 1 + Newest'
        BY <4>4, <4>5, <3>8
      <4> QED
        BY <4>6, <4>7 DEF StreamInv, Straight, Ends, Total
    <3> QED
      BY <3>9, <3>10
  <2> QED
    BY <2>1, <2>2
<1> QED
  BY <1>7, <1>8, <1>10, <1>12, <1>13 DEF FifoInv

Members(s) == {s[i] : i \in DOMAIN s}

(* What a read takes: the next field of the frame, the first bytes of the  *)
(* stream being those this call has read.                                  *)
LEMMA ReadFacts ==
  ASSUME FifoInv, pc = "read", NEW g, g = got \o Taken
  PROVE  /\ /\ fifo_count \in 0..Capacity /\ Field \in Nat \ {0}
            /\ Field <= fifo_count /\ fifo_count <= Len(fifo)
            /\ Len(fifo) \in 0..Capacity /\ Capacity \in Nat
         /\ /\ Rest \in Seq(Bytes) /\ Len(Rest) = Len(fifo) - Field
            /\ Members(Rest) \subseteq Members(fifo)
         /\ /\ g \in Seq(Bytes) /\ Len(g) = kind[field] /\ Len(g) \in Nat \ {0}
            /\ Members(g) \subseteq Members(got) \cup Members(fifo)
            /\ IF field = 1 THEN fifo # << >> /\ g[1] = fifo[1]
                            ELSE got # << >> /\ g[1] = got[1]
         /\ /\ Pending = got /\ Stream = (g \o Rest) \o Coming
            /\ Coming \in Seq(Bytes)
<1>0. /\ TypeOK /\ CountInv /\ GotInv /\ InCall
  BY DEF FifoInv, InCall
<1>1. /\ kind \in Kinds /\ field \in 1..Len(kind) /\ Len(kind) \in Nat
      /\ fifo \in Seq(Bytes) /\ got \in Seq(Bytes) /\ Len(fifo) \in 0..Capacity
      /\ Capacity \in Nat /\ fifo_count \in 0..Capacity /\ field \in Nat
  BY <1>0, FifoAssumption, FrameFacts DEF TypeOK
<1>2. Field \in Nat \ {0}
  BY <1>1, FrameFacts DEF Field
<1>3. Field <= fifo_count /\ fifo_count <= Len(fifo)
  BY <1>0 DEF CountInv, CountNeverHigh
<1> DEFINE n == Field
<1>4. n \in 1..Len(fifo) /\ Len(fifo) \in Nat
  BY <1>1, <1>2, <1>3
<1>5. Taken = SubSeq(fifo, 1, n) /\ Rest = SubSeq(fifo, n + 1, Len(fifo))
  <2>1. Available = n
    BY <1>1, <1>2, <1>3, <1>4 DEF Available
  <2> QED
    BY <2>1 DEF Taken, Rest
<1>6. Len(got) = IF field = 1 THEN 0 ELSE kind[field - 1]
  BY <1>0 DEF GotInv
<1>7. kind[field] = Len(got) + n /\ Len(got) \in Nat
  <2>1. Len(got) \in Nat
    BY <1>1, LenProperties
  <2>2. CASE field = 1
    <3>1. Size(kind, 1) = kind[1]
      BY <1>1, FrameFacts
    <3>2. Len(got) = 0 /\ n = kind[1]
      BY <1>6, <2>2, <3>1 DEF Field
    <3> QED
      BY <1>4, <2>1, <2>2, <3>2
  <2>3. CASE field # 1
    <3>1. field > 1
      BY <1>1, <2>3
    <3>2. kind[field] = kind[field - 1] + Size(kind, field)
      BY <1>1, <3>1, FrameFacts
    <3> QED
      BY <1>6, <2>1, <2>3, <3>2 DEF Field
  <2> QED
    BY <2>2, <2>3
<1> HIDE DEF n
<1>8. /\ Taken \in Seq(Bytes) /\ Len(Taken) = n
      /\ \A i \in 1..n : Taken[i] = fifo[i]
  BY <1>1, <1>4, <1>5, SubSeqProperties
<1>9. /\ Rest \in Seq(Bytes) /\ Len(Rest) = Len(fifo) - n
      /\ \A i \in 1..Len(fifo) - n : Rest[i] = fifo[n + i]
  <2>1. n + 1 \in 1..Len(fifo) + 1
    BY <1>4
  <2>2. /\ Rest \in Seq(Bytes) /\ Len(Rest) = Len(fifo) - n
    BY <1>1, <1>4, <1>5, <2>1, SubSeqProperties
  <2>3. \A i \in 1..Len(fifo) - n : Rest[i] = fifo[n + i]
    BY <1>1, <1>4, <1>5, <2>1, SubSeqProperties
  <2> QED
    BY <2>2, <2>3
<1>10. Taken \o Rest = fifo
  BY <1>1, <1>4, <1>5, ConcatAdjacentSubSeq, SubSeqFull
<1>11. /\ g \in Seq(Bytes) /\ Len(g) = Len(got) + n
       /\ \A i \in 1..Len(got) + n :
            g[i] = IF i <= Len(got) THEN got[i] ELSE Taken[i - Len(got)]
  <2>1. got \in Seq(Bytes) /\ Taken \in Seq(Bytes) /\ g = got \o Taken
    BY <1>1, <1>8
  <2>2. /\ got \o Taken \in Seq(Bytes)
        /\ Len(got \o Taken) = Len(got) + Len(Taken)
        /\ \A i \in 1..Len(got) + Len(Taken) : (got \o Taken)[i] =
             IF i <= Len(got) THEN got[i] ELSE Taken[i - Len(got)]
    BY <2>1, ConcatProperties
  <2> QED
    BY <2>1, <2>2, <1>8
<1>12. /\ DOMAIN Rest = 1..Len(fifo) - n /\ DOMAIN fifo = 1..Len(fifo)
       /\ DOMAIN got = 1..Len(got) /\ DOMAIN g = 1..Len(got) + n
  BY <1>1, <1>9, <1>11, LenProperties
<1>13. Members(Rest) \subseteq Members(fifo)
  <2>1. \A i \in DOMAIN Rest : n + i \in DOMAIN fifo
    BY <1>4, <1>12
  <2> QED
    BY <2>1, <1>9, <1>12 DEF Members
<1>14. Members(g) \subseteq Members(got) \cup Members(fifo)
  <2> SUFFICES ASSUME NEW i \in DOMAIN g
               PROVE  \/ \E j \in DOMAIN got : g[i] = got[j]
                      \/ \E j \in DOMAIN fifo : g[i] = fifo[j]
    BY DEF Members
  <2>1. CASE i <= Len(got)
    <3>1. i \in DOMAIN got /\ g[i] = got[i]
      BY <1>7, <1>11, <1>12, <2>1
    <3> QED
      BY <3>1
  <2>2. CASE ~(i <= Len(got))
    <3>1. i - Len(got) \in 1..n /\ i - Len(got) \in DOMAIN fifo
      BY <1>4, <1>7, <1>12, <2>2
    <3>2. g[i] = fifo[i - Len(got)]
      BY <1>8, <1>11, <1>12, <2>2, <3>1
    <3> QED
      BY <3>1, <3>2
  <2> QED
    BY <2>1, <2>2
<1>15. IF field = 1 THEN fifo # << >> /\ g[1] = fifo[1]
                    ELSE got # << >> /\ g[1] = got[1]
  <2>0. 1 \in 1..Len(got) + n /\ 1 \in 1..n
    BY <1>4, <1>7
  <2>1. CASE field = 1
    <3>1. Len(got) = 0
      BY <1>6, <2>1
    <3>2. fifo # << >>
      BY <1>1, <1>4, EmptySeq
    <3>3. g[1] = Taken[1]
      BY <1>11, <2>0, <3>1
    <3> QED
      BY <1>8, <2>0, <2>1, <3>2, <3>3
  <2>2. CASE field # 1
    <3>1. field - 1 \in 1..Len(kind)
      BY <1>1, <2>2
    <3>2. Len(got) >= 1
      BY <1>1, <1>6, <1>7, <2>2, <3>1, FrameFacts
    <3>3. got # << >>
      BY <1>1, <3>2, EmptySeq
    <3> QED
      BY <1>11, <2>0, <2>2, <3>2, <3>3
  <2> QED
    BY <2>1, <2>2
<1>16. Pending = got
  BY <1>0 DEF Pending
<1>17. g \o Rest = got \o fifo
  <2>1. got \in Seq(Bytes) /\ Taken \in Seq(Bytes) /\ Rest \in Seq(Bytes)
    BY <1>1, <1>8, <1>9
  <2>2. (got \o Taken) \o Rest = got \o (Taken \o Rest)
    BY <2>1, ConcatAssociative
  <2>3. g = got \o Taken
    OBVIOUS
  <2> QED
    BY <2>2, <2>3, <1>10
<1>18. Stream = (g \o Rest) \o Coming
  BY <1>16, <1>17 DEF Stream
<1>19. Coming \in Seq(Bytes)
  BY <1>0, StreamIsSeq
<1>20. Len(g) = kind[field] /\ Len(g) \in Nat \ {0}
  BY <1>4, <1>7, <1>11
<1> QED
  BY <1>1, <1>2, <1>3, <1>9, <1>11, <1>13, <1>14, <1>15, <1>16, <1>18, <1>19,
     <1>20 DEF n

(* The last read of a frame: what the call has read is that frame, and the *)
(* stream goes on with the next one.                                       *)
LEMMA WholeFrame ==
  ASSUME FifoInv, pc = "read", field = Len(kind), ~cut,
         NEW g, g = got \o Taken, NEW r, r = Rest \o Coming
  PROVE  /\ Whole(g) /\ g[1].frame = 1 + Newest
         /\ Straight(r)
         /\ IF r = << >> THEN making.frame = g[1].frame
                         ELSE r[1].frame = 1 + g[1].frame
         /\ Between /\ r # << >> => /\ Ends(r[Len(r)])
                                    /\ r[Len(r)].frame = making.frame
<1> DEFINE N == Total(kind)
           s == Stream
<1>0. TypeOK /\ GotInv /\ StreamInv /\ InCall /\ field # 1 /\ kind \in Kinds
  <2>1. TypeOK /\ GotInv /\ StreamInv /\ InCall
    BY DEF FifoInv, InCall
  <2>2. kind \in Kinds
    BY <2>1 DEF TypeOK
  <2>3. Len(kind) >= 2 /\ Len(kind) \in Nat
    BY <2>2, FrameFacts
  <2> QED
    BY <2>1, <2>2, <2>3
<1>1. /\ Rest \in Seq(Bytes) /\ g \in Seq(Bytes) /\ Coming \in Seq(Bytes)
      /\ Len(g) = kind[field] /\ Len(g) \in Nat \ {0}
      /\ got # << >> /\ g[1] = got[1] /\ s = (g \o Rest) \o Coming
  BY <1>0, ReadFacts
<1>2. Len(g) = N
  BY <1>1 DEF Total
<1>3. s = g \o r
  <2>1. g \in Seq(Bytes) /\ Rest \in Seq(Bytes) /\ Coming \in Seq(Bytes)
    BY <1>1
  <2>2. (g \o Rest) \o Coming = g \o (Rest \o Coming)
    BY <2>1, Regroup
  <2>3. s = (g \o Rest) \o Coming
    BY <1>1
  <2> QED
    BY <2>2, <2>3
<1>4. r \in Seq(Bytes)
  BY <1>1, ConcatProperties
<1>5. s \in Seq(Bytes) /\ Straight(s)
  BY <1>0, StreamIsSeq DEF StreamInv
<1> HIDE DEF s, N
<1>6. /\ Len(s) = N + Len(r) /\ Len(r) \in Nat /\ N \in Nat \ {0}
      /\ \A i \in 1..N : s[i] = g[i]
      /\ \A i \in 1..Len(r) : s[N + i] = r[i]
  <2>1. Len(r) \in Nat /\ N \in Nat \ {0}
    BY <1>1, <1>2, <1>4, LenProperties
  <2>2. /\ Len(s) = N + Len(r)
        /\ \A i \in 1..N + Len(r) : s[i] = IF i <= N THEN g[i] ELSE r[i - N]
    <3>1. g \in Seq(Bytes) /\ r \in Seq(Bytes)
      BY <1>1, <1>4
    <3>2. /\ Len(g \o r) = Len(g) + Len(r)
          /\ \A i \in 1..Len(g) + Len(r) : (g \o r)[i] =
               IF i <= Len(g) THEN g[i] ELSE r[i - Len(g)]
      BY <3>1, ConcatProperties
    <3> QED
      BY <3>2, <1>2, <1>3
  <2>3. ASSUME NEW i \in 1..N
        PROVE  s[i] = g[i]
    <3>1. i \in 1..N + Len(r) /\ i <= N
      BY <2>1
    <3> QED
      BY <2>2, <3>1
  <2>4. ASSUME NEW i \in 1..Len(r)
        PROVE  s[N + i] = r[i]
    <3>1. N + i \in 1..N + Len(r) /\ ~(N + i <= N) /\ (N + i) - N = i
      BY <2>1
    <3> QED
      BY <2>2, <3>1
  <2> QED
    BY <2>1, <2>2, <2>3, <2>4
<1>7. /\ DOMAIN s = 1..Len(s) /\ 1 \in DOMAIN s /\ N \in DOMAIN s
      /\ DOMAIN g = 1..N /\ 1 \in DOMAIN g /\ s # << >> /\ s[1] = g[1]
  <2>1. DOMAIN s = 1..Len(s) /\ DOMAIN g = 1..N
    BY <1>1, <1>2, <1>5, LenProperties
  <2>2. s # << >>
    BY <1>5, <1>6, EmptySeq
  <2> QED
    BY <2>1, <2>2, <1>6
<1>8. /\ s[1].pos = 1 /\ s[1].kind = kind /\ s[1] \in Bytes
      /\ s[1].frame = 1 + Newest
  <2>1. s[1].pos = 1
    BY <1>5, <1>7 DEF Straight
  <2>2. kind = got[1].kind
    <3>1. field > 1
      BY <1>0 DEF TypeOK
    <3> QED
      BY <1>0, <3>1 DEF GotInv
  <2>3. s[1].frame = 1 + Newest
    BY <1>0, <1>7 DEF StreamInv, s
  <2>4. s[1] \in Bytes
    BY <1>5, <1>7, ElementOfSeq
  <2> QED
    BY <2>1, <2>2, <2>3, <2>4, <1>1, <1>7
<1>9. ASSUME NEW i \in 1..N
      PROVE  /\ s[i].pos = i /\ s[i].frame = s[1].frame
             /\ s[i].kind = kind
  <2>1. i \in DOMAIN s /\ 1 <= i
    BY <1>6, <1>7
  <2>2. s[1].pos + (i - 1) = i /\ i <= Total(s[1].kind)
    BY <1>6, <1>8 DEF N
  <2>3. s[i] = [s[1] EXCEPT !.pos = @ + (i - 1)]
    <3>1. \A j \in DOMAIN s :
            1 <= j /\ s[1].pos + (j - 1) <= Total(s[1].kind) =>
              s[j] = [s[1] EXCEPT !.pos = @ + (j - 1)]
      BY <1>5, <1>7 DEF Straight
    <3> QED
      BY <2>1, <2>2, <3>1
  <2> QED
    BY <1>8, <2>2, <2>3 DEF Bytes
<1>10. Whole(g) /\ g[1].frame = 1 + Newest
  <2>1. g # << >> /\ g[1].kind = kind
    BY <1>1, <1>7, <1>8, EmptySeq
  <2>2. \A i \in DOMAIN g : g[i].pos = i /\ g[i].frame = g[1].frame
    BY <1>6, <1>7, <1>9
  <2> QED
    BY <1>2, <1>7, <1>8, <2>1, <2>2 DEF Whole, N
<1>11. N \in 1..Len(s) /\ Ends(s[N]) /\ s[N].frame = g[1].frame
  <2>1. N \in 1..N /\ N \in 1..Len(s)
    BY <1>6
  <2>2. s[N].pos = N /\ s[N].kind = kind /\ s[N].frame = s[1].frame
    BY <2>1, <1>9
  <2> QED
    BY <2>1, <2>2, <1>7 DEF Ends, N
<1>12. Straight(r) /\ (r # << >> => r[1].frame = s[N].frame + 1)
  <2>1. Len(r) = Len(s) - N /\ \A i \in 1..Len(r) : r[i] = s[N + i]
    BY <1>6
  <2> QED
    BY <2>1, <1>4, <1>5, <1>11, StraightRest
<1>13. g[1].frame \in Nat
  <2>1. MaxFrames \in Nat
    BY FifoAssumption
  <2>2. s[1].frame \in 0..MaxFrames
    BY <1>8 DEF Bytes
  <2> QED
    BY <2>1, <2>2, <1>7
<1>14. r # << >> => r[1].frame = 1 + g[1].frame
  <2>1. g[1].frame + 1 = 1 + g[1].frame
    <3>1. \A f \in Nat : f + 1 = 1 + f
      OBVIOUS
    <3> QED
      BY <3>1, <1>13, Zenon
  <2>2. r # << >> => r[1].frame = g[1].frame + 1
    BY <1>11, <1>12
  <2> QED
    BY <2>1, <2>2
<1>15. ASSUME Between
       PROVE  Ends(s[Len(s)]) /\ s[Len(s)].frame = making.frame
  BY <1>0, <1>7, <1>15 DEF StreamInv, s
<1>16. ASSUME r = << >>
       PROVE  making.frame = g[1].frame
  <2>1. Len(s) = N
    BY <1>6, <1>16, EmptySeq
  <2>2. Between
    <3> SUFFICES ASSUME ~Between
                 PROVE  FALSE
      OBVIOUS
    <3>1. Coming = <<making>>
      BY DEF Coming
    <3>2. Len(r) = Len(Rest) + 1 /\ Len(Rest) \in Nat
      BY <1>1, <3>1, ConcatProperties, LenProperties
    <3> QED
      BY <1>16, <3>2, EmptySeq
  <2> QED
    BY <2>1, <2>2, <1>11, <1>15
<1>17. ASSUME Between, r # << >>
       PROVE  Ends(r[Len(r)]) /\ r[Len(r)].frame = making.frame
  <2>1. Len(r) \in 1..Len(r)
    BY <1>4, <1>6, <1>17, EmptySeq
  <2>2. r[Len(r)] = s[Len(s)]
    BY <1>6, <2>1
  <2> QED
    BY <2>2, <1>15, <1>17
<1> QED
  BY <1>10, <1>12, <1>14, <1>16, <1>17

LEMMA ReadFrames ==
  ASSUME FifoInv, pc = "read", UNCHANGED <<making, wiped>>, fifo' = Rest,
         NEW g, g = got \o Taken,
         Pending' = g \/ Pending' = << >>,
         seen' = seen \/ seen' = g[1].frame
  PROVE  FrameInv'
<1>0. FrameInv /\ TypeOK
  BY DEF FifoInv
<1>1. 1 \in DOMAIN g
  <2>1. g \in Seq(Bytes) /\ Len(g) \in Nat \ {0}
    BY ReadFacts
  <2> QED
    BY <2>1, LenProperties
<1>2. /\ Members(Rest) \subseteq Members(fifo)
      /\ Members(g) \subseteq Members(got) \cup Members(fifo)
      /\ Pending = got
  BY ReadFacts
<1> DEFINE Old(b) == /\ b.frame <= making.frame
                     /\ making.pos = 1 => b.frame < making.frame
<1>3. \A b \in Members(fifo) \cup Members(got) : Old(b)
  BY <1>0, <1>2 DEF FrameInv, Members
<1>4. \A b \in Members(Rest) \cup Members(g) : Old(b)
  BY <1>2, <1>3
<1>5. /\ \A i \in DOMAIN Rest : Old(Rest[i])
      /\ \A i \in DOMAIN g : Old(g[i])
  BY <1>4 DEF Members
<1>6. seen' <= making.frame /\ (making.pos = 1 => seen' < making.frame)
  <2>1. CASE seen' = seen
    BY <1>0, <2>1 DEF FrameInv
  <2>2. CASE seen' = g[1].frame
    BY <1>1, <1>5, <2>2
  <2> QED
    BY <2>1, <2>2
<1>7. DOMAIN << >> = {}
  BY EmptySeq
<1>8. \A i \in DOMAIN Pending' : Old(Pending'[i])
  BY <1>5, <1>7
<1> QED
  BY <1>0, <1>5, <1>6, <1>8 DEF FrameInv

(* A field that is not the frame's last one.                               *)
LEMMA ReadMore ==
  ASSUME FifoInv, pc = "read", Works, NEW g, g = got \o Taken,
         fifo' = Rest, got' = g, fifo_count' = Left,
         kind' \in IF field = 1 THEN Decoded(fifo[1]) ELSE {kind},
         field < Len(kind'), pc' = "check", field' = field + 1,
         UNCHANGED <<status, seen, cut, making, high, wiped, resets>>
  PROVE  FifoInv'
<1>0. TypeOK /\ GotInv /\ StreamInv /\ InCall
  BY DEF FifoInv, InCall
<1>1. /\ kind \in Kinds /\ field \in 1..Len(kind) /\ field \in Nat
      /\ field >= 1
  <2>1. kind \in Kinds /\ field \in 1..Len(kind)
    BY <1>0 DEF TypeOK
  <2> QED
    BY <2>1, FrameFacts
<1>2. /\ g \in Seq(Bytes) /\ Len(g) = kind[field] /\ Rest \in Seq(Bytes)
      /\ Len(Rest) = Len(fifo) - Field /\ Pending = got
      /\ Stream = (g \o Rest) \o Coming
      /\ IF field = 1 THEN fifo # << >> /\ g[1] = fifo[1]
                      ELSE got # << >> /\ g[1] = got[1]
  BY ReadFacts
<1>3. /\ fifo_count \in 0..Capacity /\ Field \in Nat \ {0}
      /\ Field <= fifo_count /\ fifo_count <= Len(fifo)
      /\ Len(fifo) \in 0..Capacity /\ Capacity \in Nat
  BY ReadFacts
<1>4. kind' \in Kinds
  <2>1. CASE field = 1
    <3>1. fifo # << >> /\ fifo \in Seq(Bytes)
      BY <1>0, <1>2, <2>1 DEF TypeOK
    <3>2. fifo[1] \in Bytes
      <4>1. 1 \in 1..Len(fifo)
        BY <3>1, EmptySeq, LenProperties
      <4> QED
        BY <3>1, <4>1, ElementOfSeq
    <3>3. fifo[1].kind \in Kinds
      BY <3>2 DEF Bytes
    <3> QED
      BY <2>1, <3>3 DEF Decoded
  <2>2. CASE field # 1
    BY <1>1, <2>2
  <2> QED
    BY <2>1, <2>2
<1>5. Len(g) = kind'[field' - 1] /\ field' > 1 /\ field' \in 1..Len(kind')
  <2>1. field' - 1 = field /\ field' > 1
    BY <1>1
  <2>2. field' \in 1..Len(kind')
    <3>1. Len(kind') \in Nat
      BY <1>4, FrameFacts
    <3> QED
      BY <3>1, <1>1
  <2>3. kind'[field] = kind[field]
    <3>1. CASE field = 1
      BY <1>1, <1>4, <3>1, FrameFacts
    <3>2. CASE field # 1
      BY <3>2
    <3> QED
      BY <3>1, <3>2
  <2> QED
    BY <1>2, <2>1, <2>2, <2>3
<1>6. ~cut => kind' = g[1].kind
  <2> SUFFICES ASSUME ~cut
               PROVE  kind' = g[1].kind
    OBVIOUS
  <2>1. CASE field = 1
    <3>1. got = << >>
      <4>1. Len(got) = 0 /\ got \in Seq(Bytes)
        BY <1>0, <2>1 DEF GotInv, TypeOK
      <4> QED
        BY <4>1, EmptySeq
    <3>2. /\ fifo \in Seq(Bytes) /\ fifo # << >> /\ Coming \in Seq(Bytes)
          /\ g[1] = fifo[1]
      BY <1>0, <1>2, <2>1, StreamIsSeq DEF TypeOK
    <3>3. Stream = fifo \o Coming
      <4>1. << >> \o fifo = fifo
        BY <3>2, ConcatEmptySeq
      <4> QED
        BY <4>1, <1>2, <3>1 DEF Stream
    <3>4. Stream # << >> /\ Stream[1] = fifo[1]
      <4>1. Len(fifo) \in Nat /\ Len(fifo) > 0 /\ Len(Coming) \in Nat
        BY <3>2, EmptySeq, LenProperties
      <4>2. /\ Len(fifo \o Coming) = Len(fifo) + Len(Coming)
            /\ (fifo \o Coming)[1] = fifo[1]
        BY <3>2, <4>1, ConcatProperties
      <4>3. Stream # << >>
        BY <3>3, <4>1, <4>2, EmptySeq
      <4> QED
        BY <3>3, <4>2, <4>3
    <3>5. Stream[1].pos = 1
      BY <1>0, <3>4 DEF StreamInv, Straight
    <3> QED
      BY <2>1, <3>2, <3>4, <3>5 DEF Decoded
  <2>2. CASE field # 1
    <3>1. kind' = kind /\ field > 1
      BY <1>1, <2>2
    <3> QED
      BY <1>0, <1>2, <2>2, <3>1 DEF GotInv
  <2> QED
    BY <2>1, <2>2
<1>7. fifo_count' \in 0..Capacity /\ fifo_count' <= Len(fifo')
  <2>1. Len(fifo') = Len(fifo) - Field /\ fifo_count' = fifo_count - Field
    BY <1>2 DEF Left
  <2> QED
    BY <1>3, <2>1
<1>8. Len(fifo') \in 0..Capacity
  BY <1>2, <1>3
<1>9. faults' \in 0..MaxFaults
  BY <1>0, FaultTyped
<1>10. TypeOK'
  BY <1>0, <1>2, <1>4, <1>5, <1>7, <1>8, <1>9 DEF TypeOK
<1>11. CountInv' /\ FramesStayWhole'
  <2>1. pc' # "low" /\ pc' # "read" /\ pc' # "idle"
    OBVIOUS
  <2>2. CountNeverHigh'
    BY <1>7 DEF CountNeverHigh
  <2>3. CountInv'
    BY <2>1, <2>2 DEF CountInv
  <2>4. FramesStayWhole'
    BY <2>1 DEF FramesStayWhole, OkFrameIsValid, Valid
  <2> QED
    BY <2>3, <2>4
<1>12. GotInv'
  <2>1. Len(got') = IF field' = 1 THEN 0 ELSE kind'[field' - 1]
    <3>1. field' # 1
      BY <1>1
    <3> QED
      BY <3>1, <1>5
  <2>2. ~cut' => kind' = got'[1].kind
    BY <1>6
  <2>3. pc' # "count" /\ field' > 1
    BY <1>5
  <2> QED
    BY <2>1, <2>2, <2>3 DEF GotInv
<1>13. Pending' = g
  BY DEF Pending, InCall
<1>14. FrameInv'
  BY <1>13, ReadFrames
<1>15. StreamInv'
  <2>1. Coming' = Coming
    BY DEF Coming, Between
  <2>2. Stream' = Stream
    BY <1>2, <1>13, <2>1 DEF Stream
  <2> QED
    BY <1>0, <2>2 DEF StreamInv, Between, Newest, Straight, Ends, Total
<1> QED
  BY <1>10, <1>11, <1>12, <1>14, <1>15 DEF FifoInv

(* The frame's last field: the call returns the frame.                     *)
LEMMA ReadLast ==
  ASSUME FifoInv, pc = "read", Works, NEW g, g = got \o Taken,
         fifo' = Rest, got' = g, fifo_count' = Left,
         UNCHANGED <<kind, field, making, high, wiped, resets>>,
         field = Len(kind), NEW s \in {"Ok", "More"}, Return(s, g)
  PROVE  FifoInv' /\ (~cut => seen' = 1 + Newest)
<1>0. TypeOK /\ FrameInv /\ StreamInv /\ InCall
  BY DEF FifoInv, InCall
<1>1. /\ pc' = "idle" /\ status' = s /\ seen' = g[1].frame
  BY DEF Return
<1>2. cut' \in BOOLEAN /\ (cut' <=> cut)
  <2>1. cut' = (cut \/ (s \in {"Incomplete", "Err"} /\ g # << >>))
    BY DEF Return
  <2>2. s \notin {"Incomplete", "Err"}
    OBVIOUS
  <2> QED
    BY <2>1, <2>2
<1>3. /\ g \in Seq(Bytes) /\ Len(g) \in Nat \ {0}
      /\ Rest \in Seq(Bytes) /\ Len(Rest) = Len(fifo) - Field
      /\ Coming \in Seq(Bytes)
  BY ReadFacts
<1>4. /\ fifo_count \in 0..Capacity /\ Field \in Nat \ {0}
      /\ Field <= fifo_count /\ fifo_count <= Len(fifo)
      /\ Len(fifo) \in 0..Capacity /\ Capacity \in Nat
  BY ReadFacts
<1>5. fifo_count' \in 0..Capacity /\ Len(fifo') \in 0..Capacity
  BY <1>3, <1>4 DEF Left
<1>6. faults' \in 0..MaxFaults
  BY <1>0, FaultTyped
<1>7. seen' \in 0..MaxFrames
  <2>1. 1 \in 1..Len(g)
    BY <1>3
  <2>2. g[1] \in Bytes
    BY <1>3, <2>1, ElementOfSeq
  <2> QED
    BY <1>1, <2>2 DEF Bytes
<1>8. TypeOK'
  <2>1. /\ fifo' \in Seq(Bytes) /\ got' \in Seq(Bytes)
    BY <1>3
  <2>2. status' \in {"none", "NoData", "Incomplete", "Err", "Ok", "More"}
    BY <1>1
  <2> QED
    BY <1>0, <1>1, <1>2, <1>5, <1>6, <1>7, <2>1, <2>2 DEF TypeOK
<1>9. CountInv' /\ GotInv'
  BY <1>1 DEF CountInv, CountNeverHigh, GotInv, InCall
<1>10. Pending' = << >>
  BY <1>1 DEF Pending, InCall
<1>11. FrameInv'
  BY <1>1, <1>10, ReadFrames
<1> DEFINE r == Rest \o Coming
<1>12. Stream' = r
  <2>1. Coming' = Coming
    BY DEF Coming, Between
  <2>2. << >> \o Rest = Rest
    BY <1>3, ConcatEmptySeq
  <2> QED
    BY <1>10, <2>1, <2>2 DEF Stream
<1>13. ASSUME ~cut
       PROVE  /\ Whole(g) /\ g[1].frame = 1 + Newest
              /\ Straight(r)
              /\ IF r = << >> THEN making.frame = g[1].frame
                              ELSE r[1].frame = 1 + g[1].frame
              /\ Between /\ r # << >> => /\ Ends(r[Len(r)])
                                         /\ r[Len(r)].frame = making.frame
  BY <1>13, WholeFrame
<1> HIDE DEF r
<1>14. FramesStayWhole'
  <2>1. ~cut' => Whole(g)
    BY <1>2, <1>13
  <2>2. ~cut' => Whole(got)'
    BY <2>1 DEF Whole, Total
  <2> QED
    BY <2>2 DEF FramesStayWhole, OkFrameIsValid, Valid
<1>15. ~cut => seen' = 1 + Newest
  BY <1>1, <1>13
<1>16. ~cut => Newest' = g[1].frame
  <2>1. seen \in Nat /\ wiped \in Nat
    BY <1>0, FifoAssumption DEF TypeOK
  <2>2. ~cut => seen' > wiped
    BY <1>15, <2>1 DEF Newest
  <2>3. wiped' = wiped
    OBVIOUS
  <2>4. ~cut => Newest' = seen'
    BY <2>2, <2>3 DEF Newest
  <2> QED
    BY <2>4, <1>1
<1>17. StreamInv'
  <2>1. Between' = Between /\ making' = making
    BY DEF Between
  <2> QED
    BY <1>2, <1>12, <1>13, <1>16, <2>1 DEF StreamInv, Straight, Ends, Total
<1> QED
  BY <1>8, <1>9, <1>11, <1>14, <1>15, <1>17 DEF FifoInv

(* A failed read that drained the FIFO.                                    *)
LEMMA ReadDrains ==
  ASSUME FifoInv, pc = "read", Fails, NEW g, g = got \o Taken,
         fifo' = Rest, got' = g, Return("Err", g),
         UNCHANGED <<kind, field, fifo_count, making, high, wiped, resets>>
  PROVE  FifoInv' /\ seen' = seen
<1>0. TypeOK
  BY DEF FifoInv
<1>1. /\ g \in Seq(Bytes) /\ Len(g) \in Nat \ {0}
      /\ Rest \in Seq(Bytes) /\ Len(Rest) = Len(fifo) - Field
  BY ReadFacts
<1>2. /\ Field \in Nat \ {0} /\ Field <= fifo_count /\ fifo_count <= Len(fifo)
      /\ Len(fifo) \in 0..Capacity /\ Capacity \in Nat
      /\ fifo_count \in 0..Capacity
  BY ReadFacts
<1>3. g # << >>
  BY <1>1, EmptySeq
<1>4. /\ pc' = "idle" /\ status' = "Err" /\ seen' = seen
  BY DEF Return
<1>5. cut' = TRUE
  BY <1>3 DEF Return
<1>6. faults' \in 0..MaxFaults
  BY <1>0, FaultTyped
<1>7. Len(fifo') \in 0..Capacity
  BY <1>1, <1>2
<1>8. TypeOK'
  <2>1. fifo' \in Seq(Bytes) /\ got' \in Seq(Bytes) /\ cut' \in BOOLEAN
    BY <1>1, <1>5
  <2> QED
    BY <1>0, <1>4, <1>6, <1>7, <2>1 DEF TypeOK
<1>9. CountInv' /\ GotInv' /\ FramesStayWhole'
  BY <1>4 DEF CountInv, CountNeverHigh, GotInv, InCall, FramesStayWhole,
              OkFrameIsValid, Valid
<1>10. Pending' = << >>
  BY <1>4 DEF Pending, InCall
<1>11. FrameInv'
  BY <1>4, <1>10, ReadFrames
<1>12. StreamInv'
  BY <1>5 DEF StreamInv
<1> QED
  BY <1>4, <1>8, <1>9, <1>11, <1>12 DEF FifoInv

LEMMA ReadStep ==
  FifoInv /\ ReadField =>
    FifoInv' /\ (seen' # seen /\ ~cut => seen' = 1 + Newest)
<1> SUFFICES ASSUME FifoInv, ReadField
             PROVE  FifoInv' /\ (seen' # seen /\ ~cut => seen' = 1 + Newest)
  OBVIOUS
<1> DEFINE g == got \o Taken
<1>0. TypeOK /\ InCall /\ pc = "read" /\ UNCHANGED <<making, high, wiped, resets>>
  BY DEF FifoInv, InCall, ReadField, bounds
<1>1. CASE /\ Works
           /\ fifo' = Rest /\ got' = g
           /\ fifo_count' = Left
           /\ kind' \in IF field = 1 THEN Decoded(fifo[1]) ELSE {kind}
           /\ IF field < Len(kind')
              THEN /\ pc' = "check" /\ field' = field + 1
                   /\ UNCHANGED <<status, seen, cut>>
              ELSE /\ UNCHANGED field
                   /\ Return(IF fifo_count' > 0 THEN "More" ELSE "Ok", got')
  <2> HIDE DEF g
  <2>0. g = got \o Taken
    BY DEF g
  <2>1. CASE field < Len(kind')
    <3>1. /\ pc' = "check" /\ field' = field + 1
          /\ UNCHANGED <<status, seen, cut>>
      BY <1>1, <2>1
    <3>2. FifoInv'
      BY <1>0, <1>1, <2>0, <2>1, <3>1, ReadMore
    <3> QED
      BY <3>1, <3>2
  <2>2. CASE ~(field < Len(kind'))
    <3> DEFINE s == IF fifo_count' > 0 THEN "More" ELSE "Ok"
    <3>1. Return(s, g) /\ field' = field /\ s \in {"Ok", "More"}
      BY <1>1, <2>2
    <3>2. field # 1
      <4> SUFFICES ASSUME field = 1
                   PROVE  FALSE
        OBVIOUS
      <4>1. fifo # << >> /\ fifo \in Seq(Bytes)
        BY <1>0, <2>0, ReadFacts DEF TypeOK
      <4>2. fifo[1] \in Bytes
        <5>1. 1 \in 1..Len(fifo)
          BY <4>1, EmptySeq, LenProperties
        <5> QED
          BY <4>1, <5>1, ElementOfSeq
      <4>3. kind' \in Kinds
        BY <1>1, <4>2 DEF Decoded, Bytes
      <4>4. Len(kind') \in Nat /\ Len(kind') >= 2
        BY <4>3, FrameFacts
      <4> QED
        BY <2>2, <4>4
    <3>3. kind' = kind
      BY <1>1, <3>2
    <3>4. field = Len(kind)
      <4>1. kind \in Kinds /\ field \in 1..Len(kind)
        BY <1>0 DEF TypeOK
      <4>2. Len(kind) \in Nat
        BY <4>1, FrameFacts
      <4>3. ~(field < Len(kind))
        BY <2>2, <3>3
      <4> QED
        BY <4>1, <4>2, <4>3
    <3> HIDE DEF s
    <3>5. FifoInv' /\ (~cut => seen' = 1 + Newest)
      BY <1>0, <1>1, <2>0, <3>1, <3>3, <3>4, ReadLast
    <3> QED
      BY <3>5
  <2> QED
    BY <2>1, <2>2
<1>2. CASE /\ Fails /\ UNCHANGED <<fifo, got>> /\ Return("Err", got)
           /\ UNCHANGED <<kind, field, fifo_count>>
  <2>1. fifo_count' \in 0..Capacity /\ high' \in 0..Capacity
    BY <1>0, <1>2 DEF TypeOK
  <2>2. FifoInv'
    BY <1>0, <1>2, <2>1, GivesUp
  <2>3. seen' = seen
    BY <1>2 DEF Return
  <2> QED
    BY <2>2, <2>3
<1>3. CASE /\ Fails /\ fifo' = Rest /\ got' = g /\ Return("Err", got')
           /\ UNCHANGED <<kind, field, fifo_count>>
  <2> HIDE DEF g
  <2>0. g = got \o Taken /\ Return("Err", g)
    BY <1>3 DEF g
  <2> QED
    BY <1>0, <1>3, <2>0, ReadDrains
<1> QED
  BY <1>1, <1>2, <1>3 DEF ReadField

LEMMA FifoStutter == FifoInv /\ UNCHANGED vars => FifoInv'
<1> SUFFICES ASSUME FifoInv, UNCHANGED vars
             PROVE  FifoInv'
  OBVIOUS
<1>0. TypeOK /\ CountInv /\ GotInv /\ FrameInv /\ StreamInv /\ FramesStayWhole
  BY DEF FifoInv
<1>1. UNCHANGED <<fifo, making, pc, kind, field, got, fifo_count, high, status,
                  seen, cut, faults, wiped, resets>>
  BY DEF vars, dmp, reader, frame, bounds
<1>2. TypeOK'
  BY <1>0, <1>1 DEF TypeOK
<1>3. CountInv' /\ GotInv'
  BY <1>0, <1>1 DEF CountInv, CountNeverHigh, GotInv, InCall, Field, Size
<1>4. Pending' = Pending /\ cut' = cut
  BY <1>1 DEF Pending, InCall
<1>5. FrameInv' /\ StreamInv'
  BY <1>0, <1>1, <1>4, QuietStep
<1>6. FramesStayWhole'
  BY <1>0, <1>1 DEF FramesStayWhole, OkFrameIsValid, Valid, Whole
<1> QED
  BY <1>2, <1>3, <1>5, <1>6 DEF FifoInv

LEMMA FifoStep == FifoInv /\ [Next]_vars => FifoInv'
<1> SUFFICES ASSUME FifoInv, [Next]_vars
             PROVE  FifoInv'
  OBVIOUS
<1>1. CASE \E k \in Kinds : BeginFrame(k)
  BY <1>1, BeginStep
<1>2. CASE EmitByte
  BY <1>2, EmitStep
<1>3. CASE ResetFIFO \/ Restart
  BY <1>3, ResetStep
<1>4. CASE ReadDMPdataFromFIFO
  BY <1>4, CallStep
<1>5. CASE CheckCount
  BY <1>5, CheckStep
<1>6. CASE GetCountHigh
  BY <1>6, HighStep
<1>7. CASE GetCountLow
  BY <1>7, LowStep
<1>8. CASE ReadField
  BY <1>8, ReadStep
<1>9. CASE UNCHANGED vars
  BY <1>9, FifoStutter
<1> QED
  BY <1>1, <1>2, <1>3, <1>4, <1>5, <1>6, <1>7, <1>8, <1>9 DEF Next, Step

(* Only the last read of a frame returns it. *)
LEMMA OrderStep ==
  FifoInv /\ [Next]_vars => (seen' # seen /\ ~cut' => seen' = 1 + Newest)
<1> SUFFICES ASSUME FifoInv, [Next]_vars, seen' # seen, ~cut'
             PROVE  seen' = 1 + Newest
  OBVIOUS
<1>1. CASE ReadField
  <2>1. cut => cut'
    BY <1>1 DEF ReadField, Return
  <2> QED
    BY <1>1, <2>1, ReadStep
<1>2. CASE ~ReadField
  <2>1. \/ \E k \in Kinds : BeginFrame(k)
        \/ EmitByte \/ ResetFIFO \/ Restart \/ ReadDMPdataFromFIFO
        \/ CheckCount \/ GetCountHigh \/ GetCountLow \/ UNCHANGED vars
    BY <1>2 DEF Next, Step
  <2>2. seen' = seen
    BY <2>1 DEF BeginFrame, EmitByte, ResetFIFO, Restart, ReadDMPdataFromFIFO,
                CheckCount, GetCountHigh, GetCountLow, Return, vars, reader
  <2> QED
    BY <2>2
<1> QED
  BY <1>1, <1>2

-----------------------------------------------------------------------------
(* However the DMP's bytes arrive between the reader's transactions,       *)
(* whatever transaction fails, and wherever the client is killed, the      *)
(* reader's state, its count, what it has read and what is still to come   *)
(* fit together.                                                           *)
THEOREM FifoInvariant == Spec => []FifoInv
<1>1. Init => FifoInv
  BY FifoInit
<1>2. FifoInv /\ [Next]_vars => FifoInv'
  BY FifoStep
<1> QED
  BY <1>1, <1>2, PTL DEF Spec

(* Inside a call the reader never believes in bytes that are not there:    *)
(* its count, taken in two transactions and used again for later fields,   *)
(* is never above what inv_icm20948_read_dmp_data then finds.              *)
THEOREM CountIsNeverHigh == Spec => []CountNeverHigh
<1>1. FifoInv => CountNeverHigh
  BY DEF FifoInv, CountInv
<1> QED
  BY <1>1, FifoInvariant, PTL

(* As long as no bytes of a frame were dropped or left behind, every call  *)
(* that returns Ok or More has read exactly one whole frame.               *)
THEOREM FramesAreWhole == Spec => []FramesStayWhole
<1>1. FifoInv => FramesStayWhole
  BY DEF FifoInv
<1> QED
  BY <1>1, FifoInvariant, PTL

(* Until then frames are returned in the order the DMP emitted them, and   *)
(* none is skipped but those a reset or a restart took away.               *)
THEOREM FramesComeInOrder == Spec => FramesInOrder
<1>1. FifoInv /\ [Next]_vars => [seen' # seen /\ ~cut' => seen' = 1 + Newest]_vars
  BY OrderStep
<1> QED
  BY <1>1, FifoInvariant, PTL DEF Spec, FramesInOrder
=============================================================================
