------------------------------ MODULE EventLog ------------------------------
(***************************************************************************)
(* The event log file of src/src/civ_arena/arena/events.py: appends that a *)
(* kill may cut short, a constructor that drops a torn tail, and a         *)
(* truncation that rewrites the file and moves it into place.              *)
(***************************************************************************)
EXTENDS JsonLines

CONSTANTS
  Body,   \* what a record says; its seq is the log's business
  MaxSeq  \* bound: records the log may hold

ASSUME EventLogAssumption ==
  /\ MaxSeq \in Nat
  /\ Junk \notin [seq : Nat, body : Body] /\ Empty \notin [seq : Nat, body : Body]
  /\ Junk # Empty

Rec == [seq : Nat, body : Body]

VARIABLES
  file,  \* events.jsonl on disk
  mode,  \* "down": no process; "open": it holds the append handle;
         \* "rewriting": it has written keep to the temporary file
  seq,   \* self._seq
  keep   \* the records a rewrite is about to move into place

vars == <<file, mode, seq, keep>>

-----------------------------------------------------------------------------
(* _load *)

\* Line i is refused: it does not decode, or its seq is not its position.
Broken(raw, i) == raw[i] = Junk \/ raw[i].seq # i - 1

\* The last line does not decode: taken for a write that a crash cut short.
Torn(f) == LET raw == Lines(f) IN raw # <<>> /\ raw[Len(raw)] = Junk

\* The records _load returns.
Records(f) ==
  LET raw == Lines(f) IN IF Torn(f) THEN SubSeq(raw, 1, Len(raw) - 1) ELSE raw

\* _load raises instead: corrupt line, or seq broken.
Refused(f) == \E i \in DOMAIN Records(f) : Broken(Records(f), i)

-----------------------------------------------------------------------------
Init == file = EmptyFile /\ mode = "down" /\ seq = 0 /\ keep = <<>>

NeedsRepair_Never(f) == FALSE  \* mutant: the tail is only skipped

NeedsRepair(f) == Torn(f)

\* The constructor finds nothing to repair.
Open ==
  /\ mode = "down" /\ ~Refused(file) /\ ~NeedsRepair(file)
  /\ mode' = "open" /\ seq' = Len(Records(file))
  /\ UNCHANGED <<file, keep>>

Survivors(f) == Records(f)

\* The constructor drops a torn tail: it writes the survivors to a temporary
\* file first.
OpenTorn ==
  /\ mode = "down" /\ ~Refused(file) /\ NeedsRepair(file)
  /\ mode' = "rewriting" /\ seq' = Len(Records(file)) /\ keep' = Survivors(file)
  /\ UNCHANGED file

\* write, to its end.
Write(b) ==
  /\ mode = "open" /\ seq < MaxSeq
  /\ file' = AppendLine(file, [seq |-> seq, body |-> b])
  /\ seq' = seq + 1
  /\ UNCHANGED <<mode, keep>>

Kept_OneLess(f, n) == SubSeq(Records(f), 1, n - 1)  \* mutant: off by one

\* Mutant: the wrong end is kept.
Kept_Tail(f, n) == SubSeq(Records(f), Len(Records(f)) - n + 1, Len(Records(f)))

Kept(f, n) == SubSeq(Records(f), 1, n)

\* truncate_to, up to the point where the temporary file is complete; it
\* refuses to keep more than there is.
TruncateTo(n) ==
  /\ mode = "open" /\ ~Refused(file) /\ n <= Len(Records(file))
  /\ mode' = "rewriting" /\ keep' = Kept(file, n) /\ seq' = n
  /\ UNCHANGED file

\* os.replace, and the append handle on the new file.
Replace ==
  /\ mode = "rewriting"
  /\ file' = FileOf(keep)
  /\ mode' = "open" /\ keep' = <<>>
  /\ UNCHANGED seq

\* The process dies between two operations, or before os.replace: the old
\* file stays as it is.
Crash ==
  /\ mode # "down"
  /\ mode' = "down" /\ seq' = 0 /\ keep' = <<>>
  /\ UNCHANGED file

\* It dies inside write: before the newline is out, or after it.
CrashInWrite(b) ==
  /\ mode = "open" /\ seq < MaxSeq
  /\ LET rec == [seq |-> seq, body |-> b] IN
       \/ file' = AppendLine(file, rec)
       \/ \E cut \in Cuts : file' = CutLine(file, rec, cut)
  /\ mode' = "down" /\ seq' = 0 /\ keep' = <<>>

Next ==
  \/ Open \/ OpenTorn \/ Replace \/ Crash
  \/ \E b \in Body : Write(b) \/ CrashInWrite(b)
  \/ \E n \in 0 .. MaxSeq : TruncateTo(n)

Spec == Init /\ [][Next]_vars

-----------------------------------------------------------------------------
(* Properties *)

(* What was written can be read back: no start ever refuses a file that only *)
(* this program wrote and a kill interrupted.                                *)
NeverRefused == ~Refused(file)

(* The log that is open numbers its next record right: seq is the number of  *)
(* records a reader finds, and every one of them is at its own position.     *)
SeqContinues == mode = "open" => seq = Len(Records(file))

(* events.py:45-47: the tail is dropped so that no append can run into it    *)
(* and corrupt the log mid-file.                                             *)
NoLineRunsTogether == \A i \in DOMAIN file.lines : file.lines[i] # Junk

(* The file implements the log the referee and a resume rely on: its entries *)
(* are the records a reader finds, and it is up once the handle is there.    *)
Promise == INSTANCE DurableLog WITH entries <- Records(file), up <- mode # "down"

KeepsItsPromise == Promise!Spec
=============================================================================
