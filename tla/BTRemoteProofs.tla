--------------------------- MODULE BTRemoteProofs ---------------------------
(***************************************************************************)
(* Proofs about BTRemote, for every set of bytes, any number of bytes sent *)
(* and any number of calls of get_data.                                    *)
(***************************************************************************)
EXTENDS BTRemote, SequenceTheorems, TLAPS

Records == [text : Seq(Printable), end : Nat]
Numbers == 1 .. Len(accepted)

LEMMA TypeFacts ==
  ASSUME TypeOK
  PROVE  /\ wire \in Seq(Bytes) /\ buf \in Seq(Bytes) /\ str \in Seq(Printable)
         /\ kept \in Seq(Printable \cup {"NL"})
         /\ accepted \in Seq(Records) /\ Len(accepted) \in Nat
         /\ DOMAIN accepted = Numbers
         /\ temp_strs \in Seq(Numbers) /\ data_in \in Seq(Numbers)
         /\ copy \in Seq(Numbers) /\ delivered \in Seq(Numbers)
         /\ Len(temp_strs) \in Nat /\ DOMAIN temp_strs = 1 .. Len(temp_strs)
         /\ Len(data_in) \in Nat /\ DOMAIN data_in = 1 .. Len(data_in)
         /\ Len(copy) \in Nat /\ DOMAIN copy = 1 .. Len(copy)
         /\ Len(delivered) \in Nat /\ DOMAIN delivered = 1 .. Len(delivered)
         /\ raced \in BOOLEAN /\ overtaken \in BOOLEAN
<1>1. /\ wire \in Seq(Bytes) /\ buf \in Seq(Bytes) /\ str \in Seq(Printable)
      /\ kept \in Seq(Printable \cup {"NL"}) /\ accepted \in Seq(Records)
      /\ raced \in BOOLEAN /\ overtaken \in BOOLEAN
  BY DEF TypeOK, Records
<1>2. Len(accepted) \in Nat /\ DOMAIN accepted = Numbers
  BY <1>1, LenProperties DEF Numbers
<1>3. /\ temp_strs \in Seq(Numbers) /\ data_in \in Seq(Numbers)
      /\ copy \in Seq(Numbers) /\ delivered \in Seq(Numbers)
  BY <1>2 DEF TypeOK
<1>4. \A s \in Seq(Numbers) : Len(s) \in Nat /\ DOMAIN s = 1 .. Len(s)
  BY LenProperties
<1> QED
  BY <1>1, <1>2, <1>3, <1>4

LEMMA MoreNumbers ==
  ASSUME NEW m \in Nat, NEW n \in Nat, m <= n, NEW s \in Seq(1 .. m)
  PROVE  s \in Seq(1 .. n)
<1>1. 1 .. m \subseteq 1 .. n
  OBVIOUS
<1>2. Len(s) \in Nat /\ DOMAIN s = 1 .. Len(s) /\ s \in [1 .. Len(s) -> 1 .. m]
  BY LenProperties
<1>3. s \in [1 .. Len(s) -> 1 .. n]
  BY <1>1, <1>2
<1> QED
  BY <1>2, <1>3, SeqDef

(* The steps that move no line keep everything said about them.            *)
LEMMA LinesKept ==
  ASSUME OrderInv, LossInv,
         UNCHANGED <<temp_strs, data_in, copy, delivered, accepted, overtaken>>,
         raced => raced',
         ~raced' => ~(thread' = "inserting" /\ caller' \in {"copying", "clearing"}),
         caller' \in {"copied", "clearing"} => caller \in {"copied", "clearing"}
  PROVE  OrderInv' /\ LossInv'
<1>1. OrderInv'
  <2> SUFFICES ASSUME ~raced'
               PROVE  OrderInv'
    BY DEF OrderInv
  <2> QED
    BY DEF OrderInv, Increasing, ToSet
<1>2. LossInv'
  <2>1. LostOnlyWhenOvertaken'
    BY DEF LossInv, LostOnlyWhenOvertaken, Held, ToSet
  <2>2. ~raced' /\ ~overtaken' /\ caller' \in {"copied", "clearing"} =>
          copy' = data_in'
    BY DEF LossInv
  <2> QED
    BY <2>1, <2>2 DEF LossInv
<1> QED
  BY <1>1, <1>2

LEMMA TextKept ==
  ASSUME CutAtNewlines, UNCHANGED <<accepted, kept, str>>
  PROVE  CutAtNewlines'
BY DEF CutAtNewlines, Start

-----------------------------------------------------------------------------
(* The invariant step by step. *)
LEMMA BTInit == Init => BTInv
<1> SUFFICES ASSUME Init
             PROVE  BTInv
  OBVIOUS
<1>1. /\ wire = <<>> /\ sent = 0 /\ thread = "setup" /\ buf = <<>> /\ str = <<>>
      /\ temp_strs = <<>> /\ data_in = <<>> /\ caller = "setup" /\ copy = <<>>
      /\ calls = 0 /\ raced = FALSE /\ overtaken = FALSE
      /\ accepted = <<>> /\ kept = <<>> /\ delivered = <<>>
  BY DEF Init
<1>2. \A S : <<>> \in Seq(S)
  BY EmptySeq
<1>3. Len(<<>>) = 0 /\ DOMAIN <<>> = {}
  OBVIOUS
<1>4. TypeOK
  <2>1. raced \in BOOLEAN /\ overtaken \in BOOLEAN
    BY <1>1
  <2>2. sent \in 0 .. MaxSent /\ calls \in 0 .. MaxCalls
    BY <1>1, MaxSentAssumption, MaxCallsAssumption
  <2> QED
    BY <1>1, <1>2, <2>1, <2>2 DEF TypeOK
<1>5. CutAtNewlines
  <2>1. SubSeq(<<>>, 1, 0) = <<>>
    BY <1>2, SubSeqEmpty
  <2> QED
    BY <1>1, <1>3, <2>1 DEF CutAtNewlines, Start
<1>6. ToSet(<<>>) = {}
  BY <1>3 DEF ToSet
<1>7. LineInv
  BY <1>1, <1>3 DEF LineInv
<1>8. OrderInv
  BY <1>1, <1>3, <1>6 DEF OrderInv, Increasing
<1>9. LossInv
  BY <1>1, <1>3 DEF LossInv, LostOnlyWhenOvertaken
<1> QED
  BY <1>4, <1>5, <1>7, <1>8, <1>9 DEF BTInv

LEMMA SetupStep ==
  BTInv /\ (SetupRemote \/ (\E b \in Bytes : RemoteSends(b)) \/ UNCHANGED vars)
    => BTInv'
<1> SUFFICES ASSUME BTInv, SetupRemote \/ (\E b \in Bytes : RemoteSends(b))
                             \/ UNCHANGED vars
             PROVE  BTInv'
  OBVIOUS
<1>0. TypeOK /\ CutAtNewlines /\ LineInv /\ OrderInv /\ LossInv
  BY DEF BTInv
<1>1. UNCHANGED <<buf, str, temp_strs, data_in, copy, calls, raced, overtaken,
                  accepted, kept, delivered>>
  BY DEF SetupRemote, RemoteSends, vars, portVars, threadVars, callerVars,
         ghostVars, textVars
<1>2. /\ \/ UNCHANGED <<thread, caller>>
         \/ thread' \in {"read", "none"} /\ caller' \in {"poll", "exited"}
              /\ caller = "setup" /\ UNCHANGED <<wire, sent>>
  BY DEF SetupRemote, RemoteSends, vars, portVars, threadVars, callerVars
<1>3. wire' \in Seq(Bytes) /\ sent' \in 0 .. MaxSent
  <2>1. wire \in Seq(Bytes) /\ sent \in 0 .. MaxSent
    BY <1>0 DEF TypeOK
  <2>2. CASE UNCHANGED <<wire, sent>>
    BY <2>1, <2>2
  <2>3. CASE \E b \in Bytes : RemoteSends(b)
    <3>1. PICK b \in Bytes : RemoteSends(b)
      BY <2>3
    <3>2. wire' = Append(wire, b) /\ sent < MaxSent /\ sent' = sent + 1
      BY <3>1 DEF RemoteSends
    <3>3. wire' \in Seq(Bytes)
      BY <2>1, <3>2, AppendProperties
    <3> QED
      BY <2>1, <3>2, <3>3, MaxSentAssumption
  <2> QED
    BY <2>2, <2>3 DEF SetupRemote, vars, portVars
<1>4. TypeOK'
  BY <1>0, <1>1, <1>2, <1>3 DEF TypeOK
<1>5. LineInv'
  <2>1. CASE UNCHANGED <<thread, caller>>
    BY <1>0, <1>1, <2>1 DEF LineInv
  <2>2. CASE thread' \in {"read", "none"} /\ caller = "setup"
    <3>1. thread = "setup"
      BY <1>0, <2>2 DEF LineInv
    <3> QED
      BY <1>0, <1>1, <1>2, <2>2, <3>1 DEF LineInv
  <2> QED
    BY <1>2, <2>1, <2>2
<1>6. CutAtNewlines'
  BY <1>0, <1>1, TextKept
<1>7. OrderInv' /\ LossInv'
  BY <1>0, <1>1, <1>2, LinesKept DEF OrderInv
<1> QED
  BY <1>4, <1>5, <1>6, <1>7 DEF BTInv

LEMMA ChunkStep ==
  BTInv /\ (ReadChunk \/ ReadFails \/ DropBytes \/ ChunkDone \/ Sleep) => BTInv'
<1> SUFFICES ASSUME BTInv,
                    ReadChunk \/ ReadFails \/ DropBytes \/ ChunkDone \/ Sleep
             PROVE  BTInv'
  OBVIOUS
<1>0. TypeOK /\ CutAtNewlines /\ LineInv /\ OrderInv /\ LossInv
  BY DEF BTInv
<1>1. UNCHANGED <<sent, str, temp_strs, data_in, caller, copy, calls, raced,
                  overtaken, accepted, kept, delivered>>
  BY DEF ReadChunk, ReadFails, DropBytes, ChunkDone, Sleep, portVars,
         threadVars, callerVars, ghostVars, textVars
<1>2. /\ wire \in Seq(Bytes) /\ buf \in Seq(Bytes)
      /\ Len(wire) \in Nat
  BY <1>0, TypeFacts, LenProperties
<1>3. wire' \in Seq(Bytes) /\ buf' \in Seq(Bytes)
  <2>1. CASE ReadChunk
    <3>1. PICK n \in 1 .. Len(wire) : /\ buf' = SubSeq(wire, 1, n)
                                      /\ wire' = SubSeq(wire, n + 1, Len(wire))
      BY <2>1 DEF ReadChunk
    <3>2. \A i \in 1 .. Len(wire) : wire[i] \in Bytes
      BY <1>2, ElementOfSeq
    <3>3. SubSeq(wire, 1, n) \in Seq(Bytes)
      BY <1>2, <3>2, SubSeqProperties
    <3>4. SubSeq(wire, n + 1, Len(wire)) \in Seq(Bytes)
      BY <1>2, <3>2, SubSeqProperties
    <3> QED
      BY <3>1, <3>3, <3>4
  <2>2. CASE DropBytes
    <3>1. buf # <<>> /\ wire' = wire /\ buf' \in {<<>>, Tail(buf)}
      BY <2>2 DEF DropBytes, portVars
    <3> QED
      BY <1>2, <3>1, HeadTailProperties, EmptySeq
  <2>3. CASE ReadFails \/ ChunkDone \/ Sleep
    BY <1>2, <2>3 DEF ReadFails, ChunkDone, Sleep, portVars
  <2> QED
    BY <2>1, <2>2, <2>3
<1>4. /\ thread \in {"read", "cut", "sleep"}
      /\ thread' \in {"read", "cut", "sleep", "insert"}
      /\ thread' \in {"read", "sleep"} => temp_strs = <<>>
  BY <1>0 DEF ReadChunk, ReadFails, DropBytes, ChunkDone, Sleep, threadVars,
              LineInv
<1>5. TypeOK'
  BY <1>0, <1>1, <1>3, <1>4 DEF TypeOK
<1>6. LineInv'
  BY <1>0, <1>1, <1>4 DEF LineInv
<1>7. CutAtNewlines'
  BY <1>0, <1>1, TextKept
<1>8. OrderInv' /\ LossInv'
  BY <1>0, <1>1, <1>4, LinesKept
<1> QED
  BY <1>5, <1>6, <1>7, <1>8 DEF BTInv

(* The begins of the three operations on data_in.                          *)
LEMMA BeginsStep ==
  BTInv /\ (InsertBegin \/ CopyBegin \/ ClearBegin) => BTInv'
<1> SUFFICES ASSUME BTInv, InsertBegin \/ CopyBegin \/ ClearBegin
             PROVE  BTInv'
  OBVIOUS
<1>0. TypeOK /\ CutAtNewlines /\ LineInv /\ OrderInv /\ LossInv
  BY DEF BTInv
<1>1. UNCHANGED <<wire, sent, buf, str, temp_strs, data_in, copy, overtaken,
                  accepted, kept, delivered>>
  BY DEF InsertBegin, CopyBegin, ClearBegin, portVars, threadVars, callerVars,
         textVars
<1>2. \/ /\ thread = "insert" /\ thread' = "inserting" /\ caller' = caller
         /\ raced' = (raced \/ caller \in {"copying", "clearing"})
         /\ calls' = calls
      \/ /\ caller = "poll" /\ caller' = "copying" /\ thread' = thread
         /\ raced' = (raced \/ thread = "inserting")
         /\ calls < MaxCalls /\ calls' = calls + 1
      \/ /\ caller = "copied" /\ caller' = "clearing" /\ thread' = thread
         /\ raced' = (raced \/ thread = "inserting")
         /\ calls' = calls
  BY DEF InsertBegin, CopyBegin, ClearBegin, threadVars, callerVars
<1>3. calls' \in 0 .. MaxCalls
  <2>1. calls \in 0 .. MaxCalls
    BY <1>0 DEF TypeOK
  <2>2. calls' = calls \/ (calls < MaxCalls /\ calls' = calls + 1)
    BY <1>2
  <2> QED
    BY <2>1, <2>2, MaxCallsAssumption
<1>4. /\ raced' \in BOOLEAN /\ (raced => raced')
      /\ ~raced' => ~(thread' = "inserting" /\ caller' \in {"copying", "clearing"})
  BY <1>2
<1>5. TypeOK'
  BY <1>0, <1>1, <1>2, <1>3, <1>4 DEF TypeOK
<1>6. LineInv'
  BY <1>0, <1>1, <1>2 DEF LineInv
<1>7. CutAtNewlines'
  BY <1>0, <1>1, TextKept
<1>8. OrderInv' /\ LossInv'
  BY <1>0, <1>1, <1>2, <1>4, LinesKept
<1> QED
  BY <1>5, <1>6, <1>7, <1>8 DEF BTInv

-----------------------------------------------------------------------------
(* Parts of a sequence that grows at its end. *)
LEMMA PartOfAppend ==
  ASSUME NEW S, NEW s \in Seq(S), NEW x \in S,
         NEW m \in Nat \ {0}, NEW n \in Int, n <= Len(s)
  PROVE  SubSeq(Append(s, x), m, n) = SubSeq(s, m, n)
<1>1. /\ Len(s) \in Nat /\ \A i \in 1 .. Len(s) : s[i] \in S
      /\ \A i \in 1 .. Len(s) : Append(s, x)[i] = s[i]
  BY LenProperties, ElementOfSeq, AppendProperties
<1>2. \A i \in m .. n : i \in 1 .. Len(s)
  BY <1>1
<1>3. \A i \in m .. n : s[i] \in S /\ Append(s, x)[i] \in S
  BY <1>1, <1>2
<1>4. /\ SubSeq(s, m, n) \in Seq(S) /\ SubSeq(Append(s, x), m, n) \in Seq(S)
      /\ Len(SubSeq(s, m, n)) = IF m <= n THEN n - m + 1 ELSE 0
      /\ Len(SubSeq(Append(s, x), m, n)) = IF m <= n THEN n - m + 1 ELSE 0
      /\ \A i \in 1 .. n - m + 1 : SubSeq(s, m, n)[i] = s[m + i - 1]
      /\ \A i \in 1 .. n - m + 1 :
           SubSeq(Append(s, x), m, n)[i] = Append(s, x)[m + i - 1]
  BY <1>3, SubSeqProperties
<1>5. \A i \in 1 .. n - m + 1 : m + i - 1 \in m .. n
  OBVIOUS
<1>6. \A i \in 1 .. n - m + 1 :
        SubSeq(Append(s, x), m, n)[i] = SubSeq(s, m, n)[i]
  BY <1>1, <1>2, <1>4, <1>5
<1>7. 1 .. Len(SubSeq(s, m, n)) \subseteq 1 .. n - m + 1
  BY <1>4
<1> QED
  BY <1>4, <1>6, <1>7, SeqEqual

LEMMA EndOfAppend ==
  ASSUME NEW S, NEW s \in Seq(S), NEW x \in S, NEW m \in 1 .. Len(s) + 1
  PROVE  SubSeq(Append(s, x), m, Len(s) + 1) = Append(SubSeq(s, m, Len(s)), x)
<1> DEFINE t == Append(s, x)
           k == Len(s)
           p == SubSeq(s, m, k)
<1>1. /\ k \in Nat /\ \A i \in 1 .. k : s[i] \in S
      /\ t \in Seq(S) /\ Len(t) = k + 1 /\ t[k + 1] = x
      /\ \A i \in 1 .. k : t[i] = s[i]
  BY LenProperties, ElementOfSeq, AppendProperties
<1>2. /\ p \in Seq(S) /\ Len(p) = k + 1 - m
      /\ \A i \in 1 .. k + 1 - m : p[i] = s[m + i - 1]
  <2>1. \A i \in m .. k : s[i] \in S
    BY <1>1
  <2>2. m \in Int /\ k \in Int /\ k - m + 1 = k + 1 - m
    BY <1>1
  <2>3. /\ p \in Seq(S) /\ Len(p) = IF m <= k THEN k - m + 1 ELSE 0
        /\ \A i \in 1 .. k - m + 1 : p[i] = s[m + i - 1]
    BY <2>1, <2>2, SubSeqProperties
  <2> QED
    BY <1>1, <2>2, <2>3
<1>3. /\ SubSeq(t, m, k + 1) \in Seq(S) /\ Len(SubSeq(t, m, k + 1)) = k + 2 - m
      /\ \A i \in 1 .. k + 2 - m : SubSeq(t, m, k + 1)[i] = t[m + i - 1]
  <2>1. \A i \in m .. k + 1 : t[i] \in S
    BY <1>1
  <2>2. m \in Int /\ k + 1 \in Int /\ (k + 1) - m + 1 = k + 2 - m /\ m <= k + 1
    BY <1>1
  <2>3. /\ SubSeq(t, m, k + 1) \in Seq(S)
        /\ Len(SubSeq(t, m, k + 1)) = (k + 1) - m + 1
        /\ \A i \in 1 .. (k + 1) - m + 1 : SubSeq(t, m, k + 1)[i] = t[m + i - 1]
    BY <2>1, <2>2, SubSeqProperties
  <2> QED
    BY <2>2, <2>3
<1> HIDE DEF t, k, p
<1>4. /\ Append(p, x) \in Seq(S) /\ Len(Append(p, x)) = k + 2 - m
      /\ \A i \in 1 .. k + 1 - m : Append(p, x)[i] = p[i]
      /\ Append(p, x)[k + 2 - m] = x
  <2>1. /\ Append(p, x) \in Seq(S) /\ Len(Append(p, x)) = Len(p) + 1
        /\ \A i \in 1 .. Len(p) : Append(p, x)[i] = p[i]
        /\ Append(p, x)[Len(p) + 1] = x
    BY <1>2, AppendProperties
  <2>2. Len(p) + 1 = k + 2 - m
    BY <1>1, <1>2
  <2> QED
    BY <1>2, <2>1, <2>2
<1>5. ASSUME NEW i \in 1 .. k + 2 - m
      PROVE  SubSeq(t, m, k + 1)[i] = Append(p, x)[i]
  <2>1. CASE i = k + 2 - m
    <3>1. m + i - 1 = k + 1
      BY <1>1, <2>1
    <3> QED
      BY <1>1, <1>3, <1>4, <2>1, <3>1
  <2>2. CASE i # k + 2 - m
    <3>1. i \in 1 .. k + 1 - m /\ m + i - 1 \in 1 .. k
      BY <1>1, <2>2 DEF k
    <3> QED
      BY <1>1, <1>2, <1>3, <1>4, <3>1
  <2> QED
    BY <2>1, <2>2
<1>6. SubSeq(t, m, k + 1) = Append(p, x)
  BY <1>3, <1>4, <1>5, SeqEqual
<1> QED
  BY <1>6 DEF t, k, p

(* A line begins among the bytes kept, or right after them.                *)
LEMMA StartIsKept ==
  ASSUME TypeOK, CutAtNewlines, NEW n \in 1 .. Len(accepted) + 1
  PROVE  Start(n) \in 1 .. Len(kept) + 1
<1>1. /\ Len(accepted) \in Nat /\ DOMAIN accepted = 1 .. Len(accepted)
      /\ accepted \in Seq(Records) /\ Len(kept) \in Nat
  BY TypeFacts, LenProperties DEF Numbers
<1>2. CASE n = 1
  BY <1>1, <1>2 DEF Start
<1>3. CASE n # 1
  <2>1. n - 1 \in 1 .. Len(accepted)
    BY <1>1, <1>3
  <2>2. accepted[n - 1].end \in Nat
    <3>1. accepted[n - 1] \in Records
      BY <1>1, <2>1, ElementOfSeq
    <3> QED
      BY <3>1 DEF Records
  <2>3. accepted[n - 1].end <= Len(kept)
    <3>1. accepted[n - 1].end \in Start(n - 1) .. Len(kept)
      BY <1>1, <2>1 DEF CutAtNewlines
    <3> QED
      BY <3>1
  <2>4. Start(n) = accepted[n - 1].end + 1
    BY <1>3 DEF Start
  <2> QED
    BY <1>1, <2>2, <2>3, <2>4
<1> QED
  BY <1>2, <1>3

(* The lines cut out so far stay what they are when a byte is kept.        *)
LEMMA OldLines ==
  ASSUME TypeOK, CutAtNewlines, NEW b \in Printable \cup {"NL"},
         NEW n \in DOMAIN accepted
  PROVE  /\ Start(n) \in 1 .. Len(kept) + 1
         /\ accepted[n].end \in Start(n) .. Len(kept) + 1
         /\ Append(kept, b)[accepted[n].end] = "NL"
         /\ accepted[n].text =
              SubSeq(Append(kept, b), Start(n), accepted[n].end - 1)
<1> DEFINE e == accepted[n].end
<1>1. /\ kept \in Seq(Printable \cup {"NL"}) /\ Len(kept) \in Nat
      /\ n \in 1 .. Len(accepted) /\ n \in 1 .. Len(accepted) + 1
  BY TypeFacts, LenProperties DEF Numbers
<1>2. Start(n) \in 1 .. Len(kept) + 1
  BY <1>1, StartIsKept
<1>3. /\ e \in Start(n) .. Len(kept) /\ kept[e] = "NL"
      /\ accepted[n].text = SubSeq(kept, Start(n), e - 1)
  BY DEF CutAtNewlines
<1> HIDE DEF e
<1>4. e \in 1 .. Len(kept) /\ e \in Start(n) .. Len(kept) + 1
  BY <1>1, <1>2, <1>3
<1>5. Append(kept, b)[e] = kept[e]
  BY <1>1, <1>4, AppendProperties
<1>6. SubSeq(Append(kept, b), Start(n), e - 1) = SubSeq(kept, Start(n), e - 1)
  <2>1. Start(n) \in Nat \ {0} /\ e - 1 \in Int /\ e - 1 <= Len(kept)
    BY <1>1, <1>2, <1>4
  <2> QED
    BY <1>1, <2>1, PartOfAppend
<1> QED
  BY <1>2, <1>3, <1>4, <1>5, <1>6 DEF e

LEMMA PrintableStep == BTInv /\ TakePrintable => BTInv'
<1> SUFFICES ASSUME BTInv, TakePrintable
             PROVE  BTInv'
  OBVIOUS
<1> DEFINE b == Head(buf)
<1>0. TypeOK /\ CutAtNewlines /\ LineInv /\ OrderInv /\ LossInv
  BY DEF BTInv
<1>1. /\ buf # <<>> /\ b \in Printable
      /\ str' = Append(str, b) /\ kept' = Append(kept, b) /\ buf' = Tail(buf)
      /\ UNCHANGED <<wire, sent, thread, temp_strs, data_in, caller, copy, calls,
                     raced, overtaken, accepted, delivered>>
  BY DEF TakePrintable, portVars, callerVars, ghostVars
<1> HIDE DEF b
<1>2. /\ buf \in Seq(Bytes) /\ str \in Seq(Printable)
      /\ kept \in Seq(Printable \cup {"NL"}) /\ Len(kept) \in Nat
      /\ Len(accepted) \in Nat
  BY <1>0, TypeFacts, LenProperties
<1>3. /\ buf' \in Seq(Bytes) /\ str' \in Seq(Printable)
      /\ kept' \in Seq(Printable \cup {"NL"}) /\ Len(kept') = Len(kept) + 1
  <2>1. buf' \in Seq(Bytes)
    BY <1>1, <1>2, HeadTailProperties
  <2>2. str' \in Seq(Printable)
    BY <1>1, <1>2, AppendProperties
  <2>3. b \in Printable \cup {"NL"}
    BY <1>1
  <2>4. kept' \in Seq(Printable \cup {"NL"}) /\ Len(kept') = Len(kept) + 1
    BY <1>1, <1>2, <2>3, AppendProperties
  <2> QED
    BY <2>1, <2>2, <2>4
<1>4. TypeOK'
  BY <1>0, <1>1, <1>3 DEF TypeOK
<1>5. LineInv'
  BY <1>0, <1>1 DEF LineInv
<1>6. CutAtNewlines'
  <2>1. b \in Printable \cup {"NL"}
    BY <1>1
  <2>2. \A n : Start(n)' = Start(n)
    BY <1>1 DEF Start
  <2>3. ASSUME NEW n \in DOMAIN accepted
        PROVE  /\ accepted[n].end \in Start(n) .. Len(kept')
               /\ kept'[accepted[n].end] = "NL"
               /\ accepted[n].text = SubSeq(kept', Start(n), accepted[n].end - 1)
    BY <1>0, <1>1, <1>3, <2>1, OldLines
  <2>4. str' = SubSeq(kept', Start(Len(accepted) + 1), Len(kept'))
    <3>1. str = SubSeq(kept, Start(Len(accepted) + 1), Len(kept))
      BY <1>0 DEF CutAtNewlines
    <3>2. Start(Len(accepted) + 1) \in 1 .. Len(kept) + 1
      BY <1>0, <1>2, StartIsKept
    <3>3. SubSeq(Append(kept, b), Start(Len(accepted) + 1), Len(kept) + 1)
            = Append(SubSeq(kept, Start(Len(accepted) + 1), Len(kept)), b)
      BY <1>2, <2>1, <3>2, EndOfAppend
    <3> QED
      BY <1>1, <1>3, <3>1, <3>3
  <2> QED
    BY <1>1, <2>2, <2>3, <2>4 DEF CutAtNewlines, Start
<1>7. OrderInv' /\ LossInv'
  BY <1>0, <1>1, LinesKept DEF OrderInv
<1> QED
  BY <1>4, <1>5, <1>6, <1>7 DEF BTInv

-----------------------------------------------------------------------------
(* The lines in a sequence. *)
LEMMA ToSetConcat ==
  ASSUME NEW S, NEW s \in Seq(S), NEW t \in Seq(S)
  PROVE  ToSet(s \o t) = ToSet(s) \cup ToSet(t)
<1>1. /\ s \o t \in Seq(S) /\ Len(s \o t) = Len(s) + Len(t)
      /\ \A i \in 1 .. Len(s) + Len(t) :
           (s \o t)[i] = IF i <= Len(s) THEN s[i] ELSE t[i - Len(s)]
  BY ConcatProperties
<1>2. /\ Len(s) \in Nat /\ DOMAIN s = 1 .. Len(s)
      /\ Len(t) \in Nat /\ DOMAIN t = 1 .. Len(t)
      /\ DOMAIN (s \o t) = 1 .. Len(s) + Len(t)
  BY <1>1, LenProperties
<1>3. \A i \in 1 .. Len(s) : i \in 1 .. Len(s) + Len(t) /\ (s \o t)[i] = s[i]
  BY <1>1, <1>2
<1>4. ASSUME NEW i \in 1 .. Len(t)
      PROVE  /\ Len(s) + i \in 1 .. Len(s) + Len(t)
             /\ (s \o t)[Len(s) + i] = t[i]
  <2>1. /\ Len(s) + i \in 1 .. Len(s) + Len(t) /\ ~(Len(s) + i <= Len(s))
        /\ (Len(s) + i) - Len(s) = i
    BY <1>2
  <2> QED
    BY <1>1, <2>1
<1>5. ASSUME NEW i \in 1 .. Len(s) + Len(t)
      PROVE  (s \o t)[i] \in ToSet(s) \cup ToSet(t)
  <2>1. CASE i <= Len(s)
    <3>1. i \in DOMAIN s /\ (s \o t)[i] = s[i]
      BY <1>1, <1>2, <2>1
    <3> QED
      BY <3>1 DEF ToSet
  <2>2. CASE ~(i <= Len(s))
    <3>1. i - Len(s) \in DOMAIN t /\ (s \o t)[i] = t[i - Len(s)]
      BY <1>1, <1>2, <2>2
    <3> QED
      BY <3>1 DEF ToSet
  <2> QED
    BY <2>1, <2>2
<1>6. ToSet(s \o t) \subseteq ToSet(s) \cup ToSet(t)
  BY <1>2, <1>5 DEF ToSet
<1>7. ToSet(s) \subseteq ToSet(s \o t)
  BY <1>2, <1>3 DEF ToSet
<1>8. ToSet(t) \subseteq ToSet(s \o t)
  <2> SUFFICES ASSUME NEW i \in 1 .. Len(t)
               PROVE  t[i] \in ToSet(s \o t)
    BY <1>2 DEF ToSet
  <2>1. Len(s) + i \in DOMAIN (s \o t) /\ (s \o t)[Len(s) + i] = t[i]
    BY <1>2, <1>4
  <2> QED
    BY <2>1 DEF ToSet
<1> QED
  BY <1>6, <1>7, <1>8

LEMMA ToSetOne ==
  ASSUME NEW S, NEW s \in Seq(S), NEW x \in S
  PROVE  ToSet(Append(s, x)) = ToSet(s) \cup {x}
<1>1. Append(s, x) = s \o <<x>> /\ <<x>> \in Seq(S)
  BY AppendIsConcat
<1>2. ToSet(s \o <<x>>) = ToSet(s) \cup ToSet(<<x>>)
  BY <1>1, ToSetConcat
<1>3. ToSet(<<x>>) = {x}
  <2>1. DOMAIN <<x>> = {1} /\ <<x>>[1] = x
    OBVIOUS
  <2> QED
    BY <2>1 DEF ToSet
<1> QED
  BY <1>1, <1>2, <1>3

LEMMA ToSetNone == ToSet(<<>>) = {}
BY DEF ToSet

LEMMA ConcatIncreases ==
  ASSUME NEW s \in Seq(Nat), NEW t \in Seq(Nat), Increasing(s), Increasing(t),
         \A i \in DOMAIN s, j \in DOMAIN t : s[i] < t[j]
  PROVE  Increasing(s \o t)
<1>1. /\ s \o t \in Seq(Nat) /\ Len(s \o t) = Len(s) + Len(t)
      /\ \A i \in 1 .. Len(s) + Len(t) :
           (s \o t)[i] = IF i <= Len(s) THEN s[i] ELSE t[i - Len(s)]
  BY ConcatProperties
<1>2. /\ Len(s) \in Nat /\ DOMAIN s = 1 .. Len(s)
      /\ Len(t) \in Nat /\ DOMAIN t = 1 .. Len(t)
      /\ DOMAIN (s \o t) = 1 .. Len(s) + Len(t)
  BY <1>1, LenProperties
<1> SUFFICES ASSUME NEW i \in 1 .. Len(s) + Len(t),
                    NEW j \in 1 .. Len(s) + Len(t), i < j
             PROVE  (s \o t)[i] < (s \o t)[j]
  BY <1>2 DEF Increasing
<1>3. CASE j <= Len(s)
  <2>1. i \in DOMAIN s /\ j \in DOMAIN s
    BY <1>2, <1>3
  <2>2. (s \o t)[i] = s[i] /\ (s \o t)[j] = s[j]
    BY <1>1, <1>2, <1>3
  <2> QED
    BY <2>1, <2>2 DEF Increasing
<1>4. CASE i <= Len(s) /\ ~(j <= Len(s))
  <2>1. i \in DOMAIN s /\ j - Len(s) \in DOMAIN t
    BY <1>2, <1>4
  <2>2. (s \o t)[i] = s[i] /\ (s \o t)[j] = t[j - Len(s)]
    BY <1>1, <1>4
  <2> QED
    BY <2>1, <2>2
<1>5. CASE ~(i <= Len(s))
  <2>1. /\ i - Len(s) \in DOMAIN t /\ j - Len(s) \in DOMAIN t
        /\ i - Len(s) < j - Len(s)
    BY <1>2, <1>5
  <2>2. (s \o t)[i] = t[i - Len(s)] /\ (s \o t)[j] = t[j - Len(s)]
    BY <1>1, <1>2, <1>5
  <2> QED
    BY <2>1, <2>2 DEF Increasing
<1> QED
  BY <1>3, <1>4, <1>5

(* The chunk's lines are newer than all others, one after the other.       *)
LEMMA ChunkLines ==
  ASSUME TypeOK, LineInv
  PROVE  /\ Increasing(temp_strs)
         /\ \A i \in DOMAIN temp_strs :
              temp_strs[i] > Len(accepted) - Len(temp_strs)
<1>1. /\ Len(accepted) \in Nat /\ Len(temp_strs) \in Nat
      /\ DOMAIN temp_strs = 1 .. Len(temp_strs)
  BY TypeFacts
<1>2. \A i \in DOMAIN temp_strs :
        temp_strs[i] = Len(accepted) - Len(temp_strs) + i
  BY DEF LineInv
<1> QED
  BY <1>1, <1>2 DEF Increasing

LEMMA NewlineStep == BTInv /\ TakeNewline => BTInv'
<1> SUFFICES ASSUME BTInv, TakeNewline
             PROVE  BTInv'
  OBVIOUS
<1> DEFINE m == Len(accepted)
           k == Len(kept)
           rec == [text |-> str, end |-> k + 1]
<1>0. TypeOK /\ CutAtNewlines /\ LineInv /\ OrderInv /\ LossInv
  BY DEF BTInv
<1>1. /\ buf # <<>> /\ temp_strs' = Append(temp_strs, m + 1) /\ str' = <<>>
      /\ kept' = Append(kept, "NL") /\ accepted' = Append(accepted, rec)
      /\ buf' = Tail(buf) /\ thread = "cut"
      /\ UNCHANGED <<wire, sent, thread, data_in, caller, copy, calls, raced,
                     overtaken, delivered>>
  BY DEF TakeNewline, portVars, callerVars, ghostVars
<1>2. /\ buf \in Seq(Bytes) /\ str \in Seq(Printable)
      /\ kept \in Seq(Printable \cup {"NL"}) /\ k \in Nat
      /\ accepted \in Seq(Records) /\ m \in Nat
      /\ temp_strs \in Seq(1 .. m) /\ data_in \in Seq(1 .. m)
      /\ copy \in Seq(1 .. m) /\ delivered \in Seq(1 .. m)
      /\ Len(temp_strs) \in Nat /\ DOMAIN temp_strs = 1 .. Len(temp_strs)
  BY <1>0, TypeFacts, LenProperties DEF Numbers
<1>3. rec \in Records /\ rec.text = str /\ rec.end = k + 1
  BY <1>2 DEF Records
<1> HIDE DEF rec
<1>4. /\ accepted' \in Seq(Records) /\ Len(accepted') = m + 1
      /\ \A n \in 1 .. m : accepted'[n] = accepted[n]
      /\ accepted'[m + 1] = rec /\ DOMAIN accepted' = 1 .. m + 1
  <2>1. /\ accepted' \in Seq(Records) /\ Len(accepted') = m + 1
        /\ \A n \in 1 .. m : accepted'[n] = accepted[n]
        /\ accepted'[m + 1] = rec
    BY <1>1, <1>2, <1>3, AppendProperties
  <2> QED
    BY <2>1, LenProperties
<1>5. /\ kept' \in Seq(Printable \cup {"NL"}) /\ Len(kept') = k + 1
      /\ kept'[k + 1] = "NL"
  <2>1. "NL" \in Printable \cup {"NL"}
    OBVIOUS
  <2> QED
    BY <1>1, <1>2, <2>1, AppendProperties
<1> HIDE DEF m, k
<1>6. /\ temp_strs' \in Seq(1 .. m + 1) /\ Len(temp_strs') = Len(temp_strs) + 1
      /\ \A i \in 1 .. Len(temp_strs) : temp_strs'[i] = temp_strs[i]
      /\ temp_strs'[Len(temp_strs) + 1] = m + 1
      /\ DOMAIN temp_strs' = 1 .. Len(temp_strs) + 1
  <2>1. temp_strs \in Seq(1 .. m + 1) /\ m + 1 \in 1 .. m + 1
    BY <1>2, MoreNumbers
  <2>2. /\ temp_strs' \in Seq(1 .. m + 1) /\ Len(temp_strs') = Len(temp_strs) + 1
        /\ \A i \in 1 .. Len(temp_strs) : temp_strs'[i] = temp_strs[i]
        /\ temp_strs'[Len(temp_strs) + 1] = m + 1
    BY <1>1, <2>1, AppendProperties
  <2> QED
    BY <2>2, LenProperties
<1>7. TypeOK'
  <2>1. /\ data_in \in Seq(1 .. m + 1) /\ copy \in Seq(1 .. m + 1)
        /\ delivered \in Seq(1 .. m + 1)
    BY <1>2, MoreNumbers
  <2>2. buf' \in Seq(Bytes) /\ str' \in Seq(Printable)
    BY <1>1, <1>2, HeadTailProperties, EmptySeq
  <2>3. \A s \in {temp_strs', data_in', copy', delivered'} :
          s \in Seq(DOMAIN accepted')
    BY <1>1, <1>4, <1>6, <2>1
  <2> QED
    BY <1>0, <1>1, <1>4, <1>5, <2>2, <2>3 DEF TypeOK, Records
<1>8. LineInv'
  <2>1. Len(temp_strs) <= m
    BY <1>0 DEF LineInv, m
  <2>2. \A i \in 1 .. Len(temp_strs) : temp_strs[i] = m - Len(temp_strs) + i
    BY <1>0, <1>2 DEF LineInv, m
  <2>3. \A i \in DOMAIN temp_strs' :
          temp_strs'[i] = Len(accepted') - Len(temp_strs') + i
    <3> SUFFICES ASSUME NEW i \in 1 .. Len(temp_strs) + 1
                 PROVE  temp_strs'[i] = (m + 1) - (Len(temp_strs) + 1) + i
      BY <1>4, <1>6
    <3>1. CASE i \in 1 .. Len(temp_strs)
      BY <1>2, <1>6, <2>2, <3>1
    <3>2. CASE i = Len(temp_strs) + 1
      BY <1>2, <1>6, <3>2
    <3> QED
      BY <1>2, <3>1, <3>2
  <2>4. Len(temp_strs') <= Len(accepted')
    BY <1>2, <1>4, <1>6, <2>1
  <2>5. /\ thread' = "cut" /\ (caller' \notin {"copied", "clearing"} => copy' = <<>>)
        /\ (caller' = "setup" => thread' = "setup")
    BY <1>0, <1>1 DEF LineInv
  <2> QED
    BY <2>3, <2>4, <2>5 DEF LineInv
<1>9. CutAtNewlines'
  <2>1. "NL" \in Printable \cup {"NL"}
    OBVIOUS
  <2>2. ASSUME NEW n \in 1 .. m + 1
        PROVE  Start(n)' = Start(n)
    <3>1. CASE n = 1
      BY <3>1 DEF Start
    <3>2. CASE n # 1
      <4>1. n - 1 \in 1 .. m
        BY <1>2, <3>2
      <4> QED
        BY <1>4, <3>2, <4>1 DEF Start
    <3> QED
      BY <3>1, <3>2
  <2>3. Start(m + 1) \in 1 .. k + 1
    <3>1. m + 1 \in 1 .. m + 1
      BY <1>2
    <3> QED
      BY <1>0, <3>1, StartIsKept DEF m, k
  <2>4. ASSUME NEW n \in 1 .. m + 1
        PROVE  /\ accepted'[n].end \in Start(n) .. Len(kept')
               /\ kept'[accepted'[n].end] = "NL"
               /\ accepted'[n].text
                    = SubSeq(kept', Start(n), accepted'[n].end - 1)
    <3>1. CASE n \in 1 .. m
      <4>1. n \in DOMAIN accepted /\ accepted'[n] = accepted[n]
        BY <1>2, <1>4, <3>1, LenProperties DEF m
      <4> QED
        BY <1>0, <1>1, <1>5, <2>1, <4>1, OldLines DEF k
    <3>2. CASE n = m + 1
      <4>1. accepted'[n].end = k + 1 /\ accepted'[n].text = str
        BY <1>3, <1>4, <3>2
      <4>2. k + 1 \in Start(n) .. Len(kept')
        BY <1>2, <1>5, <2>3, <3>2
      <4>3. str = SubSeq(kept, Start(n), k)
        BY <1>0, <3>2 DEF CutAtNewlines, m, k
      <4>4. SubSeq(kept', Start(n), k) = SubSeq(kept, Start(n), k)
        <5>1. Start(n) \in Nat \ {0} /\ k \in Int /\ k <= Len(kept)
          BY <1>2, <2>3, <3>2 DEF k
        <5> QED
          BY <1>1, <1>2, <2>1, <5>1, PartOfAppend
      <4>5. (k + 1) - 1 = k
        BY <1>2
      <4> QED
        BY <1>5, <4>1, <4>2, <4>3, <4>4, <4>5
    <3> QED
      BY <1>2, <3>1, <3>2
  <2>5. str' = SubSeq(kept', Start(Len(accepted) + 1)', Len(kept'))
    <3>1. Start(Len(accepted) + 1)' = k + 2
      <4>1. Len(accepted') + 1 # 1 /\ (Len(accepted') + 1) - 1 = m + 1
        BY <1>2, <1>4
      <4>2. accepted'[m + 1].end + 1 = k + 2
        BY <1>2, <1>3, <1>4
      <4> QED
        BY <4>1, <4>2 DEF Start
    <3>2. SubSeq(kept', k + 2, k + 1) = <<>>
      BY <1>2, SubSeqEmpty
    <3> QED
      BY <1>1, <1>5, <3>1, <3>2
  <2> QED
    BY <1>4, <2>2, <2>4, <2>5 DEF CutAtNewlines
<1>10. OrderInv'
  <2>1. Len(accepted') - Len(temp_strs') = Len(accepted) - Len(temp_strs)
    BY <1>2, <1>4, <1>6 DEF m
  <2> QED
    BY <1>0, <1>1, <2>1 DEF OrderInv, Increasing, ToSet
<1>11. LossInv'
  <2>1. ToSet(temp_strs') = ToSet(temp_strs) \cup {m + 1}
    <3>1. temp_strs \in Seq(1 .. m + 1) /\ m + 1 \in 1 .. m + 1
      BY <1>2, MoreNumbers
    <3>2. \A a \in Seq(1 .. m + 1), b \in 1 .. m + 1 :
            ToSet(Append(a, b)) = ToSet(a) \cup {b}
      BY ToSetOne
    <3> QED
      BY <1>1, <3>1, <3>2
  <2>2. Held' = Held \cup {m + 1}
    BY <1>1, <2>1 DEF Held
  <2>3. DOMAIN accepted' = DOMAIN accepted \cup {m + 1}
    BY <1>2, <1>4, LenProperties DEF m
  <2>4. LostOnlyWhenOvertaken'
    BY <1>0, <1>1, <2>2, <2>3 DEF LossInv, LostOnlyWhenOvertaken
  <2> QED
    BY <1>0, <1>1, <2>4 DEF LossInv
<1> QED
  BY <1>7, <1>8, <1>9, <1>10, <1>11 DEF BTInv

LEMMA InsertStep == BTInv /\ InsertEnd => BTInv'
<1> SUFFICES ASSUME BTInv, InsertEnd
             PROVE  BTInv'
  OBVIOUS
<1>0. TypeOK /\ CutAtNewlines /\ LineInv /\ OrderInv /\ LossInv
  BY DEF BTInv
<1>1. /\ thread = "inserting" /\ thread' \in {"sleep", "crashed"}
      /\ temp_strs' = <<>> /\ overtaken' = (overtaken \/ caller = "copied")
      /\ UNCHANGED <<wire, sent, buf, str, caller, copy, calls, raced, accepted,
                     kept, delivered>>
      /\ data_in' \in Garbage \cup {data_in}
      /\ ~raced => data_in' = data_in \o temp_strs
  <2>1. \/ ~raced /\ data_in' = data_in \o temp_strs /\ thread' = "sleep"
        \/ raced /\ data_in' \in Garbage /\ thread' = "sleep"
        \/ raced /\ data_in' = data_in /\ thread' = "crashed"
    BY DEF InsertEnd
  <2>2. /\ thread = "inserting" /\ temp_strs' = <<>>
        /\ overtaken' = (overtaken \/ caller = "copied")
        /\ UNCHANGED <<wire, sent, buf, str, caller, copy, calls, raced,
                       accepted, kept, delivered>>
    BY DEF InsertEnd, portVars, callerVars, textVars
  <2>3. thread' \in {"sleep", "crashed"}
    BY <2>1
  <2>4. ~raced => data_in' = data_in \o temp_strs
    BY <2>1
  <2>5. data_in' \in Garbage \cup {data_in}
    BY <2>1 DEF Garbage
  <2> QED
    BY <2>2, <2>3, <2>4, <2>5
<1>2. /\ temp_strs \in Seq(Numbers) /\ data_in \in Seq(Numbers)
      /\ copy \in Seq(Numbers) /\ delivered \in Seq(Numbers)
      /\ DOMAIN accepted = Numbers /\ Len(accepted) \in Nat
      /\ overtaken \in BOOLEAN
  BY <1>0, TypeFacts
<1>3. data_in' \in Seq(Numbers)
  <2>1. data_in \o temp_strs \in Seq(Numbers) /\ <<>> \in Seq(Numbers)
    BY <1>2, ConcatProperties, EmptySeq
  <2> QED
    BY <1>1, <1>2, <2>1 DEF Garbage
<1>4. overtaken' \in BOOLEAN /\ (overtaken => overtaken')
  BY <1>1
<1>5. TypeOK'
  <2>1. <<>> \in Seq(Numbers)
    BY EmptySeq
  <2>2. DOMAIN accepted' = Numbers
    BY <1>1, <1>2
  <2>3. \A s \in {temp_strs', data_in', copy', delivered'} :
          s \in Seq(DOMAIN accepted')
    BY <1>1, <1>2, <1>3, <2>1, <2>2
  <2> QED
    BY <1>0, <1>1, <1>4, <2>3 DEF TypeOK
<1>6. LineInv'
  <2>1. Len(<<>>) = 0 /\ DOMAIN <<>> = {}
    OBVIOUS
  <2> QED
    BY <1>0, <1>1, <1>2, <2>1 DEF LineInv
<1>7. CutAtNewlines'
  BY <1>0, <1>1, TextKept
<1>8. ASSUME ~raced
      PROVE  ToSet(data_in') = ToSet(data_in) \cup ToSet(temp_strs)
  <2>0. \A s, t \in Seq(Numbers) : ToSet(s \o t) = ToSet(s) \cup ToSet(t)
    BY ToSetConcat
  <2>1. ToSet(data_in \o temp_strs) = ToSet(data_in) \cup ToSet(temp_strs)
    BY <1>2, <2>0
  <2> QED
    BY <1>1, <1>8, <2>1
<1>9. OrderInv'
  <2> SUFFICES ASSUME ~raced
               PROVE  OrderInv'
    BY <1>1 DEF OrderInv
  <2> DEFINE old == Len(accepted) - Len(temp_strs)
  <2>1. /\ Increasing(delivered) /\ Increasing(data_in)
        /\ \A i \in DOMAIN delivered, j \in DOMAIN data_in :
             delivered[i] < data_in[j]
        /\ \A n \in ToSet(delivered) \cup ToSet(data_in) : n <= old
        /\ Len(copy) <= Len(data_in)
        /\ \A i \in DOMAIN copy : copy[i] = data_in[i]
    BY <1>0 DEF OrderInv
  <2>2. /\ Increasing(temp_strs)
        /\ \A i \in DOMAIN temp_strs : temp_strs[i] > old
    BY <1>0, ChunkLines
  <2>3. /\ Len(temp_strs) \in Nat /\ Len(temp_strs) <= Len(accepted)
        /\ old \in Nat
    BY <1>0, <1>2, LenProperties DEF LineInv
  <2>4. /\ temp_strs \in Seq(Nat) /\ data_in \in Seq(Nat)
        /\ delivered \in Seq(Nat)
        /\ \A i \in DOMAIN data_in : data_in[i] \in Nat
        /\ \A i \in DOMAIN temp_strs : temp_strs[i] \in Nat
        /\ \A i \in DOMAIN delivered : delivered[i] \in Nat
    <3>1. \A s \in Seq(Numbers) : s \in Seq(Nat)
      BY DEF Numbers
    <3>2. \A s \in Seq(Nat) : \A i \in DOMAIN s : s[i] \in Nat
      BY LenProperties, ElementOfSeq
    <3> QED
      BY <1>2, <3>1, <3>2
  <2> HIDE DEF old
  <2>5. /\ \A i \in DOMAIN data_in : data_in[i] <= old
        /\ \A i \in DOMAIN delivered : delivered[i] <= old
    BY <2>1 DEF ToSet
  <2>6. \A i \in DOMAIN data_in, j \in DOMAIN temp_strs :
          data_in[i] < temp_strs[j]
    BY <2>2, <2>3, <2>4, <2>5
  <2>7. Increasing(data_in \o temp_strs)
    BY <2>1, <2>2, <2>4, <2>6, ConcatIncreases
  <2>8. \A i \in DOMAIN delivered, n \in ToSet(data_in') : delivered[i] < n
    <3>1. \A i \in DOMAIN delivered, n \in ToSet(data_in) : delivered[i] < n
      BY <2>1 DEF ToSet
    <3>2. \A i \in DOMAIN delivered, j \in DOMAIN temp_strs :
            delivered[i] < temp_strs[j]
      BY <2>2, <2>3, <2>4, <2>5
    <3>3. \A i \in DOMAIN delivered, n \in ToSet(temp_strs) : delivered[i] < n
      BY <3>2 DEF ToSet
    <3> QED
      BY <1>8, <3>1, <3>3
  <2>9. \A i \in DOMAIN delivered, j \in DOMAIN data_in' :
          delivered[i] < data_in'[j]
    BY <2>8 DEF ToSet
  <2>10. \A n \in ToSet(delivered) \cup ToSet(data_in') : n <= Len(accepted)
    <3>1. \A s \in Seq(Numbers) : \A n \in ToSet(s) : n \in Numbers
      <4>1. \A s \in Seq(Numbers) : \A i \in DOMAIN s : s[i] \in Numbers
        BY LenProperties, ElementOfSeq
      <4> QED
        BY <4>1 DEF ToSet
    <3>2. \A n \in Numbers : n <= Len(accepted)
      BY <1>2 DEF Numbers
    <3> QED
      BY <1>2, <1>3, <3>1, <3>2
  <2>11. /\ Len(copy) <= Len(data_in')
         /\ \A i \in DOMAIN copy : copy[i] = data_in'[i]
    <3>1. /\ Len(data_in') = Len(data_in) + Len(temp_strs)
          /\ \A i \in 1 .. Len(data_in) + Len(temp_strs) :
               data_in'[i] = IF i <= Len(data_in) THEN data_in[i]
                             ELSE temp_strs[i - Len(data_in)]
      BY <1>1, <1>2, ConcatProperties
    <3>2. /\ Len(data_in) \in Nat /\ Len(temp_strs) \in Nat /\ Len(copy) \in Nat
          /\ DOMAIN copy = 1 .. Len(copy)
      BY <1>2, LenProperties
    <3>3. \A i \in DOMAIN copy :
            i <= Len(data_in) /\ i \in 1 .. Len(data_in) + Len(temp_strs)
      BY <2>1, <3>2
    <3> QED
      BY <2>1, <3>1, <3>2, <3>3
  <2>12. Len(accepted') - Len(temp_strs') = Len(accepted)
    <3>1. Len(<<>>) = 0
      OBVIOUS
    <3> QED
      BY <1>1, <1>2, <3>1
  <2> QED
    BY <1>1, <2>1, <2>7, <2>9, <2>10, <2>11, <2>12 DEF OrderInv, Increasing, ToSet
<1>10. LossInv'
  <2>1. ~raced' /\ ~overtaken' => caller' \notin {"copied", "clearing"}
    BY <1>0, <1>1 DEF OrderInv
  <2>2. ASSUME ~raced', ~overtaken'
        PROVE  DOMAIN accepted' \subseteq Held'
    <3>1. ~raced /\ ~overtaken
      BY <1>1, <1>4, <2>2
    <3>2. DOMAIN accepted \subseteq Held
      BY <1>0, <3>1 DEF LossInv, LostOnlyWhenOvertaken
    <3>3. Held \subseteq Held'
      BY <1>1, <1>8, <3>1 DEF Held, ToSet
    <3> QED
      BY <1>1, <3>2, <3>3
  <2> QED
    BY <2>1, <2>2 DEF LossInv, LostOnlyWhenOvertaken
<1> QED
  BY <1>5, <1>6, <1>7, <1>9, <1>10 DEF BTInv

LEMMA CopyStep == BTInv /\ CopyEnd => BTInv'
<1> SUFFICES ASSUME BTInv, CopyEnd
             PROVE  BTInv'
  OBVIOUS
<1>0. TypeOK /\ CutAtNewlines /\ LineInv /\ OrderInv /\ LossInv
  BY DEF BTInv
<1>1. /\ caller = "copying" /\ caller' = "copied"
      /\ IF raced THEN copy' \in Garbage ELSE copy' = data_in
      /\ UNCHANGED <<wire, sent, thread, buf, str, temp_strs, data_in, calls,
                     raced, overtaken, accepted, kept, delivered>>
  BY DEF CopyEnd, portVars, threadVars, ghostVars, textVars
<1>2. /\ temp_strs \in Seq(Numbers) /\ data_in \in Seq(Numbers)
      /\ delivered \in Seq(Numbers) /\ DOMAIN accepted = Numbers
      /\ Len(data_in) \in Nat
  BY <1>0, TypeFacts
<1>3. copy' \in Seq(Numbers)
  <2>1. data_in \o temp_strs \in Seq(Numbers) /\ <<>> \in Seq(Numbers)
    BY <1>2, ConcatProperties, EmptySeq
  <2>2. copy' \in Garbage \cup {data_in}
    BY <1>1
  <2> QED
    BY <1>2, <2>1, <2>2 DEF Garbage
<1>4. ~raced => copy' = data_in
  BY <1>1
<1>5. TypeOK'
  <2>1. DOMAIN accepted' = Numbers
    BY <1>1, <1>2
  <2>2. \A s \in {temp_strs', data_in', copy', delivered'} :
          s \in Seq(DOMAIN accepted')
    BY <1>1, <1>2, <1>3, <2>1
  <2> QED
    BY <1>0, <1>1, <2>2 DEF TypeOK
<1>6. LineInv'
  BY <1>0, <1>1 DEF LineInv
<1>7. CutAtNewlines'
  BY <1>0, <1>1, TextKept
<1>8. OrderInv'
  <2> SUFFICES ASSUME ~raced
               PROVE  OrderInv'
    BY <1>1 DEF OrderInv
  <2>1. Len(copy') <= Len(data_in') /\ \A i \in DOMAIN copy' : copy'[i] = data_in'[i]
    BY <1>1, <1>2, <1>4
  <2> QED
    BY <1>0, <1>1, <2>1 DEF OrderInv, Increasing, ToSet
<1>9. LossInv'
  <2>1. ASSUME ~raced, ~overtaken
        PROVE  DOMAIN accepted' \subseteq Held'
    <3>1. DOMAIN accepted \subseteq Held
      BY <1>0, <2>1 DEF LossInv, LostOnlyWhenOvertaken
    <3>2. ToSet(copy) = {}
      BY <1>0, <1>1, ToSetNone DEF LineInv
    <3>3. Held \subseteq Held'
      BY <1>1, <3>2 DEF Held, ToSet
    <3> QED
      BY <1>1, <3>1, <3>3
  <2> QED
    BY <1>1, <1>4, <2>1 DEF LossInv, LostOnlyWhenOvertaken
<1> QED
  BY <1>5, <1>6, <1>7, <1>8, <1>9 DEF BTInv

LEMMA ClearStep == BTInv /\ ClearEnd => BTInv'
<1> SUFFICES ASSUME BTInv, ClearEnd
             PROVE  BTInv'
  OBVIOUS
<1>0. TypeOK /\ CutAtNewlines /\ LineInv /\ OrderInv /\ LossInv
  BY DEF BTInv
<1>1. /\ caller = "clearing" /\ caller' = "poll"
      /\ IF raced THEN data_in' \in Garbage ELSE data_in' = <<>>
      /\ delivered' = delivered \o copy /\ copy' = <<>>
      /\ UNCHANGED <<wire, sent, thread, buf, str, temp_strs, calls, raced,
                     overtaken, accepted, kept>>
  BY DEF ClearEnd, portVars, threadVars, ghostVars, textVars
<1>2. /\ temp_strs \in Seq(Numbers) /\ data_in \in Seq(Numbers)
      /\ copy \in Seq(Numbers) /\ delivered \in Seq(Numbers)
      /\ DOMAIN accepted = Numbers /\ <<>> \in Seq(Numbers)
      /\ Len(copy) \in Nat /\ DOMAIN copy = 1 .. Len(copy)
      /\ Len(data_in) \in Nat /\ DOMAIN data_in = 1 .. Len(data_in)
  BY <1>0, TypeFacts, EmptySeq
<1>3. data_in' \in Seq(Numbers)
  <2>1. data_in \o temp_strs \in Seq(Numbers)
    BY <1>2, ConcatProperties
  <2>2. data_in' \in Garbage
    BY <1>1 DEF Garbage
  <2> QED
    BY <1>2, <2>1, <2>2 DEF Garbage
<1>4. delivered' \in Seq(Numbers)
  BY <1>1, <1>2, ConcatProperties
<1>5. TypeOK'
  <2>1. DOMAIN accepted' = Numbers
    BY <1>1, <1>2
  <2>2. \A s \in {temp_strs', data_in', copy', delivered'} :
          s \in Seq(DOMAIN accepted')
    BY <1>1, <1>2, <1>3, <1>4, <2>1
  <2> QED
    BY <1>0, <1>1, <2>2 DEF TypeOK
<1>6. LineInv'
  BY <1>0, <1>1 DEF LineInv
<1>7. CutAtNewlines'
  BY <1>0, <1>1, TextKept
<1>8. ToSet(delivered') = ToSet(delivered) \cup ToSet(copy)
  <2>1. \A s, t \in Seq(Numbers) : ToSet(s \o t) = ToSet(s) \cup ToSet(t)
    BY ToSetConcat
  <2> QED
    BY <1>1, <1>2, <2>1
<1>9. ASSUME ~raced
      PROVE  /\ data_in' = <<>> /\ \A i \in DOMAIN copy : i \in DOMAIN data_in
             /\ \A i \in DOMAIN copy : copy[i] = data_in[i]
  <2>1. Len(copy) <= Len(data_in) /\ \A i \in DOMAIN copy : copy[i] = data_in[i]
    BY <1>0, <1>9 DEF OrderInv
  <2>2. data_in' = <<>>
    BY <1>1, <1>9
  <2> QED
    BY <1>2, <2>1, <2>2
<1>10. OrderInv'
  <2> SUFFICES ASSUME ~raced
               PROVE  OrderInv'
    BY <1>1 DEF OrderInv
  <2>1. /\ Increasing(delivered) /\ Increasing(data_in)
        /\ \A i \in DOMAIN delivered, j \in DOMAIN data_in :
             delivered[i] < data_in[j]
        /\ \A n \in ToSet(delivered) \cup ToSet(data_in) :
             n <= Len(accepted) - Len(temp_strs)
    BY <1>0 DEF OrderInv
  <2>2. Increasing(copy)
    BY <1>9, <2>1 DEF Increasing
  <2>3. \A i \in DOMAIN delivered, j \in DOMAIN copy : delivered[i] < copy[j]
    BY <1>9, <2>1
  <2>4. copy \in Seq(Nat) /\ delivered \in Seq(Nat)
    <3>1. \A s \in Seq(Numbers) : s \in Seq(Nat)
      BY DEF Numbers
    <3> QED
      BY <1>2, <3>1
  <2>5. Increasing(delivered')
    BY <1>1, <2>1, <2>2, <2>3, <2>4, ConcatIncreases
  <2>6. ToSet(copy) \subseteq ToSet(data_in) /\ ToSet(data_in') = {}
    BY <1>9, ToSetNone DEF ToSet
  <2>7. \A n \in ToSet(delivered') \cup ToSet(data_in') :
          n <= Len(accepted') - Len(temp_strs')
    BY <1>1, <1>8, <2>1, <2>6
  <2>8. /\ DOMAIN data_in' = {} /\ DOMAIN copy' = {} /\ Len(copy') = 0
        /\ Len(data_in') = 0
    BY <1>1, <1>9
  <2>9. ~(thread' = "inserting" /\ caller' \in {"copying", "clearing"})
    BY <1>1
  <2>10. Increasing(data_in')
    BY <2>8 DEF Increasing
  <2> QED
    BY <2>5, <2>7, <2>8, <2>9, <2>10 DEF OrderInv, Increasing
<1>11. LossInv'
  <2>1. ASSUME ~raced, ~overtaken
        PROVE  DOMAIN accepted' \subseteq Held'
    <3>1. DOMAIN accepted \subseteq Held /\ copy = data_in
      BY <1>0, <1>1, <2>1 DEF LossInv, LostOnlyWhenOvertaken
    <3>2. Held \subseteq Held'
      BY <1>1, <1>8, <3>1 DEF Held
    <3> QED
      BY <1>1, <3>1, <3>2
  <2> QED
    BY <1>1, <2>1 DEF LossInv, LostOnlyWhenOvertaken
<1> QED
  BY <1>5, <1>6, <1>7, <1>10, <1>11 DEF BTInv

-----------------------------------------------------------------------------
(* However read() splits the bytes, and wherever the steps of bt_thread    *)
(* and of get_data fall between each other, the text is cut right, and the *)
(* lines on their way to the caller are in order as long as no two         *)
(* operations on data_in have overlapped.                                  *)
THEOREM BTInvariant == Spec => []BTInv
<1>1. Init => BTInv
  BY BTInit
<1>2. BTInv /\ [Next]_vars => BTInv'
  BY SetupStep, ChunkStep, BeginsStep, PrintableStep, NewlineStep, InsertStep,
     CopyStep, ClearStep DEF Next, BTThread, TakeByte, GetData
<1> QED
  BY <1>1, <1>2, PTL DEF Spec

(* bt_thread cuts lines at newlines and nowhere else, also a line whose    *)
(* bytes came in several chunks.                                           *)
THEOREM LinesAreCutAtNewlines == Spec => []CutAtNewlines
<1>1. BTInv => CutAtNewlines
  BY DEF BTInv
<1> QED
  BY <1>1, BTInvariant, PTL

(* Without a data race get_data returns no line twice or out of order.     *)
THEOREM LinesComeInOrder == Spec => []InOrderOnce
<1>1. BTInv => InOrderOnce
  BY DEF BTInv, OrderInv, InOrderOnce
<1> QED
  BY <1>1, BTInvariant, PTL

(* Without a data race the clear of get_data is the only place where a     *)
(* line is lost, and only when bt_thread inserted it after the copy.       *)
THEOREM LinesAreLostOnlyWhenOvertaken == Spec => []LostOnlyWhenOvertaken
<1>1. BTInv => LostOnlyWhenOvertaken
  BY DEF BTInv, LossInv
<1> QED
  BY <1>1, BTInvariant, PTL
=============================================================================
