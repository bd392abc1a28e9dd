------------------------------ MODULE BTRemote ------------------------------
(***************************************************************************)
(* BTRemote (bt_remote.cpp): text lines to and from a remote control over  *)
(* a Bluetooth serial port.  bt_thread reads chunks of bytes from the port *)
(* and cuts them into lines, which it appends to the vector data_in.  The  *)
(* program polls get_data, which copies data_in and then clears it.        *)
(*                                                                         *)
(* get_data holds data_in_mutex during the copy only, and bt_thread never  *)
(* takes it.  Each of the three operations on data_in (insert, copy,       *)
(* clear) therefore has a begin and an end here; when two of them overlap  *)
(* the program has a data race and what the vector holds afterwards is any *)
(* of the outcomes of Garbage, or the process dies.                        *)
(*                                                                         *)
(* A byte is "a", "b" (printable), NL ('\n'), NUL or CTL (any other).  A    *)
(* line that was cut out is known by its number; accepted has its text.    *)
(***************************************************************************)
EXTENDS Integers, Sequences, SequencesExt

CONSTANTS
  Bytes,       \* the bytes the remote control sends
  MaxSent,     \* bound on the number of bytes it sends
  MaxCalls     \* bound on the calls of get_data

ASSUME BytesAssumption == Bytes \subseteq {"a", "b", "NL", "NUL", "CTL"}
ASSUME MaxSentAssumption == MaxSent \in Nat
ASSUME MaxCallsAssumption == MaxCalls \in Nat

VARIABLES
  wire,        \* bytes the port has received and bt_thread has not read
  sent,        \* number of bytes the remote control has sent
  thread,      \* where bt_thread is
  buf,         \* bytes of the current chunk that are still to be looked at
  str,         \* the line being read
  temp_strs,   \* lines of the current chunk
  data_in,     \* lines waiting for get_data
  caller,      \* where the caller of get_data is
  copy,        \* get_data's copy of data_in
  calls,       \* calls of get_data so far
  raced,       \* two operations on data_in have overlapped
  overtaken,   \* an insert has ended between a copy and its clear
  kept,        \* history: the printable bytes and newlines that were read
  accepted,    \* history: the lines bt_thread has cut out, with their text
               \* and the place of their newline among the bytes kept
  delivered    \* history: the lines get_data has returned

portVars == <<wire, sent>>
threadVars == <<thread, buf, str, temp_strs>>
callerVars == <<caller, copy, calls>>
textVars == <<accepted, kept>>
ghostVars == <<raced, overtaken>>
vars == <<portVars, threadVars, data_in, callerVars, ghostVars, textVars,
          delivered>>

Printable == {"a", "b"}

Init ==
  /\ wire = <<>> /\ sent = 0
  /\ thread = "setup" /\ buf = <<>> /\ str = <<>> /\ temp_strs = <<>>
  /\ data_in = <<>>
  /\ caller = "setup" /\ copy = <<>> /\ calls = 0
  /\ raced = FALSE /\ overtaken = FALSE
  /\ accepted = <<>> /\ kept = <<>> /\ delivered = <<>>

(* setup_remote: the thread is created after the port is open and its      *)
(* descriptor stored; any failure before that makes the program return.    *)
SetupRemote ==
  /\ caller = "setup"
  /\ \/ thread' = "read" /\ caller' = "poll"
     \/ thread' = "none" /\ caller' = "exited"
  /\ UNCHANGED <<portVars, buf, str, temp_strs, data_in, copy, calls,
                 ghostVars, textVars, delivered>>

(* The remote control sends a byte. *)
RemoteSends(b) ==
  /\ sent < MaxSent
  /\ wire' = Append(wire, b)
  /\ sent' = sent + 1
  /\ UNCHANGED <<threadVars, data_in, callerVars, ghostVars, textVars, delivered>>

-----------------------------------------------------------------------------
(* read() returns what has come, up to 2048 bytes.                         *)
(* Mutant of ReadChunk: every chunk starts a new line. *)
ReadChunk_Fresh ==
  /\ thread = "read"
  /\ \E n \in 1 .. Len(wire) :
       /\ buf' = SubSeq(wire, 1, n)
       /\ wire' = SubSeq(wire, n + 1, Len(wire))
  /\ thread' = "cut" /\ str' = <<>>
  /\ UNCHANGED <<sent, temp_strs, data_in, callerVars, ghostVars, textVars,
                 delivered>>

ReadChunk ==
  /\ thread = "read"
  /\ \E n \in 1 .. Len(wire) :
       /\ buf' = SubSeq(wire, 1, n)
       /\ wire' = SubSeq(wire, n + 1, Len(wire))
  /\ thread' = "cut"
  /\ UNCHANGED <<sent, str, temp_strs, data_in, callerVars, ghostVars, textVars,
                 delivered>>

(* The loop over the chunk.  What follows the last newline stays in str    *)
(* for the next chunk; a NUL drops the rest of this one.                   *)
TakeNewline ==
  /\ thread = "cut" /\ buf # <<>> /\ Head(buf) = "NL"
  /\ temp_strs' = Append(temp_strs, Len(accepted) + 1)
  /\ str' = <<>>
  /\ kept' = Append(kept, "NL")
  /\ accepted' = Append(accepted, [text |-> str, end |-> Len(kept) + 1])
  /\ buf' = Tail(buf)
  /\ UNCHANGED <<portVars, thread, data_in, callerVars, ghostVars, delivered>>

(* Mutant of TakePrintable: unprintable bytes are kept. *)
TakePrintable_All ==
  /\ thread = "cut" /\ buf # <<>> /\ Head(buf) \notin {"NL", "NUL"}
  /\ str' = Append(str, Head(buf)) /\ kept' = Append(kept, Head(buf))
  /\ buf' = Tail(buf)
  /\ UNCHANGED <<portVars, thread, temp_strs, data_in, callerVars, ghostVars,
                 accepted, delivered>>

TakePrintable ==
  /\ thread = "cut" /\ buf # <<>> /\ Head(buf) \in Printable
  /\ str' = Append(str, Head(buf)) /\ kept' = Append(kept, Head(buf))
  /\ buf' = Tail(buf)
  /\ UNCHANGED <<portVars, thread, temp_strs, data_in, callerVars, ghostVars,
                 accepted, delivered>>

DropBytes ==
  /\ thread = "cut" /\ buf # <<>> /\ Head(buf) \notin Printable \cup {"NL"}
  /\ buf' = IF Head(buf) = "NUL" THEN <<>> ELSE Tail(buf)
  /\ UNCHANGED <<portVars, thread, str, temp_strs, data_in, callerVars,
                 ghostVars, textVars, delivered>>

(* The end of the chunk.  Inserting no lines is no operation on data_in.   *)
ChunkDone ==
  /\ thread = "cut" /\ buf = <<>>
  /\ thread' = IF temp_strs = <<>> THEN "sleep" ELSE "insert"
  /\ UNCHANGED <<portVars, buf, str, temp_strs, data_in, callerVars, ghostVars,
                 textVars, delivered>>

TakeByte == TakeNewline \/ TakePrintable \/ DropBytes \/ ChunkDone

(* Mutant of ReadFails: the loop ends when read() fails. *)
ReadFails_Stops ==
  /\ thread = "read"
  /\ thread' = "stopped"
  /\ UNCHANGED <<portVars, buf, str, temp_strs, data_in, callerVars, ghostVars,
                 textVars, delivered>>

(* read() fails or times out: no byte is looked at. *)
ReadFails ==
  /\ thread = "read"
  /\ thread' = "sleep"
  /\ UNCHANGED <<portVars, buf, str, temp_strs, data_in, callerVars, ghostVars,
                 textVars, delivered>>

(* Line 158: data_in.insert(data_in.end(), ...), without the mutex. *)
InsertBegin ==
  /\ thread = "insert"
  /\ thread' = "inserting"
  /\ raced' = (raced \/ caller \in {"copying", "clearing"})
  /\ UNCHANGED <<portVars, buf, str, temp_strs, data_in, callerVars, overtaken,
                 textVars, delivered>>

(* Outcomes of overlapping operations on the vector, if the process        *)
(* survives them: the effect of either is missing, or elements are stale.  *)
Garbage == {<<>>, data_in, temp_strs, data_in \o temp_strs}

(* Mutant of InsertEnd: the lines replace those already waiting. *)
InsertEnd_Replaces ==
  /\ thread = "inserting"
  /\ data_in' = temp_strs /\ thread' = "sleep"
  /\ temp_strs' = <<>>
  /\ overtaken' = (overtaken \/ caller = "copied")
  /\ UNCHANGED <<portVars, buf, str, callerVars, raced, textVars, delivered>>

(* The end of the insert and temp_strs.clear(). *)
InsertEnd ==
  /\ thread = "inserting"
  /\ \/ ~raced /\ data_in' = data_in \o temp_strs /\ thread' = "sleep"
     \/ raced /\ data_in' \in Garbage /\ thread' = "sleep"
     \/ raced /\ data_in' = data_in /\ thread' = "crashed"
  /\ temp_strs' = <<>>
  /\ overtaken' = (overtaken \/ caller = "copied")
  /\ UNCHANGED <<portVars, buf, str, callerVars, raced, textVars, delivered>>

(* sleep(1) *)
Sleep ==
  /\ thread = "sleep"
  /\ thread' = "read"
  /\ UNCHANGED <<portVars, buf, str, temp_strs, data_in, callerVars, ghostVars,
                 textVars, delivered>>

-----------------------------------------------------------------------------
Alive == thread # "crashed"

(* get_data: lock the mutex, which nobody else takes, and start to copy. *)
CopyBegin ==
  /\ caller = "poll" /\ calls < MaxCalls /\ Alive
  /\ calls' = calls + 1
  /\ caller' = "copying"
  /\ raced' = (raced \/ thread = "inserting")
  /\ UNCHANGED <<portVars, threadVars, data_in, copy, overtaken, textVars,
                 delivered>>

(* The copy is complete; unlock. *)
CopyEnd ==
  /\ caller = "copying" /\ Alive
  /\ IF raced THEN copy' \in Garbage ELSE copy' = data_in
  /\ caller' = "copied"
  /\ UNCHANGED <<portVars, threadVars, data_in, calls, ghostVars, textVars,
                 delivered>>

(* Line 188: data_in.clear(), after the mutex is released. *)
ClearBegin ==
  /\ caller = "copied" /\ Alive
  /\ caller' = "clearing"
  /\ raced' = (raced \/ thread = "inserting")
  /\ UNCHANGED <<portVars, threadVars, data_in, copy, calls, overtaken, textVars,
                 delivered>>

(* Mutant of ClearEnd: data_in is not cleared. *)
ClearEnd_Keeps ==
  /\ caller = "clearing" /\ Alive
  /\ delivered' = delivered \o copy
  /\ copy' = <<>>
  /\ caller' = "poll"
  /\ UNCHANGED <<portVars, threadVars, data_in, calls, ghostVars, textVars>>

(* The vector is cleared and get_data returns. *)
ClearEnd ==
  /\ caller = "clearing" /\ Alive
  /\ IF raced THEN data_in' \in Garbage ELSE data_in' = <<>>
  /\ delivered' = delivered \o copy
  /\ copy' = <<>>
  /\ caller' = "poll"
  /\ UNCHANGED <<portVars, threadVars, calls, ghostVars, textVars>>

BTThread ==
  ReadChunk \/ TakeByte \/ ReadFails \/ InsertBegin \/ InsertEnd \/ Sleep
GetData == CopyBegin \/ CopyEnd \/ ClearBegin \/ ClearEnd

Next ==
  \/ SetupRemote
  \/ \E b \in Bytes : RemoteSends(b)
  \/ BTThread
  \/ GetData

Spec == Init /\ [][Next]_vars

(* Both threads run, and a read() of a port that has bytes does not fail   *)
(* for ever.                                                               *)
FairSpec ==
  Spec /\ WF_vars(SetupRemote) /\ WF_vars(BTThread)
       /\ SF_vars(ReadChunk) /\ WF_vars(GetData)

-----------------------------------------------------------------------------
(* The variables hold values of their types.  (bt_remote.h 8-27) *)
TypeOK ==
  /\ wire \in Seq(Bytes) /\ sent \in 0 .. MaxSent
  /\ thread \in {"setup", "none", "read", "cut", "insert", "inserting", "sleep",
                 "crashed"}
  /\ buf \in Seq(Bytes) /\ str \in Seq(Printable)
  /\ caller \in {"setup", "poll", "copying", "copied", "clearing", "exited"}
  /\ \A s \in {temp_strs, data_in, copy, delivered} : s \in Seq(DOMAIN accepted)
  /\ calls \in 0 .. MaxCalls
  /\ kept \in Seq(Printable \cup {"NL"})
  /\ accepted \in Seq([text : Seq(Printable), end : Nat])
  /\ raced \in BOOLEAN /\ overtaken \in BOOLEAN

(* Where line n begins among the bytes kept. *)
Start(n) == IF n = 1 THEN 1 ELSE accepted[n - 1].end + 1

(* Lines are cut at newlines and nowhere else, however read() splits the   *)
(* stream into chunks: a line is what was kept between two newlines, and   *)
(* the unfinished one what was kept since the last.  (lines 139-156)       *)
CutAtNewlines ==
  /\ \A n \in DOMAIN accepted :
       /\ accepted[n].end \in Start(n) .. Len(kept)
       /\ kept[accepted[n].end] = "NL"
       /\ accepted[n].text = SubSeq(kept, Start(n), accepted[n].end - 1)
  /\ str = SubSeq(kept, Start(Len(accepted) + 1), Len(kept))

Increasing(s) == \A i, j \in DOMAIN s : i < j => s[i] < s[j]

(* Without a data race no line is returned twice or out of order, whatever *)
(* inserts come between the steps of get_data.  (lines 158, 183-190)       *)
InOrderOnce ==
  ~raced => Increasing(delivered)

Held == ToSet(delivered) \cup ToSet(copy) \cup ToSet(data_in) \cup ToSet(temp_strs)

(* Without a data race, a line is lost only if bt_thread inserts lines     *)
(* between the copy of get_data and its clear.  (lines 158, 183-190)       *)
LostOnlyWhenOvertaken == ~raced /\ ~overtaken => DOMAIN accepted \subseteq Held

(* Every byte the remote control sends is read, unless the program has     *)
(* ended.  (lines 135-162)                                                 *)
AllBytesRead == <>[](wire = <<>>) \/ <>(thread \in {"crashed", "none"})

-----------------------------------------------------------------------------
(***************************************************************************)
(* The inductive invariant behind these properties.                        *)
(***************************************************************************)
(* The lines of the chunk are the newest ones, get_data holds lines only   *)
(* between its copy and its return, and the thread starts with setup.      *)
LineInv ==
  /\ Len(temp_strs) <= Len(accepted)
  /\ \A i \in DOMAIN temp_strs :
       temp_strs[i] = Len(accepted) - Len(temp_strs) + i
  /\ thread \notin {"cut", "insert", "inserting"} => temp_strs = <<>>
  /\ caller \notin {"copied", "clearing"} => copy = <<>>
  /\ caller = "setup" => thread = "setup"

(* Lines move from temp_strs to data_in to the caller in their order:      *)
(* what was returned is older than what waits, and that older than the     *)
(* chunk's; get_data's copy is the beginning of data_in.                   *)
OrderInv ==
  ~raced =>
    /\ ~(thread = "inserting" /\ caller \in {"copying", "clearing"})
    /\ Increasing(delivered) /\ Increasing(data_in)
    /\ \A i \in DOMAIN delivered, j \in DOMAIN data_in :
         delivered[i] < data_in[j]
    /\ \A n \in ToSet(delivered) \cup ToSet(data_in) :
         n <= Len(accepted) - Len(temp_strs)
    /\ Len(copy) <= Len(data_in)
    /\ \A i \in DOMAIN copy : copy[i] = data_in[i]

(* Until a clear is overtaken, it clears what was copied.                  *)
LossInv ==
  /\ LostOnlyWhenOvertaken
  /\ ~raced /\ ~overtaken /\ caller \in {"copied", "clearing"} =>
       copy = data_in

BTInv == TypeOK /\ CutAtNewlines /\ LineInv /\ OrderInv /\ LossInv
=============================================================================
