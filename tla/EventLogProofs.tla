--------------------------- MODULE EventLogProofs ---------------------------
(***************************************************************************)
(* What the event log keeps through crashes, torn tails and truncations,   *)
(* for every alphabet of records and every length, provided a killed write *)
(* never stops exactly before its newline (the run eventlog_newline shows  *)
(* what happens when it does).                                             *)
(***************************************************************************)
EXTENDS EventLog, SequenceTheorems, TLAPS

-----------------------------------------------------------------------------
(* The inductive invariant: every terminated line is a record at its own     *)
(* position, the only other text is a fragment at the end, nobody holds the  *)
(* append handle while it is there, and a rewrite keeps a prefix.            *)
Numbered(recs) == recs \in Seq(Rec) /\ \A i \in 1 .. Len(recs) : recs[i].seq = i - 1

IInv ==
  /\ file.lines \in Seq(Rec) /\ Numbered(file.lines)
  /\ file = [lines |-> file.lines, tail |-> file.tail]
  /\ file.tail \in {Empty, Junk}
  /\ mode \in {"down", "open", "rewriting"}
  /\ seq \in Nat
  /\ mode = "open" => file.tail = Empty /\ seq = Len(file.lines)
  /\ mode # "rewriting" => keep = <<>>
  /\ mode = "rewriting" => /\ seq <= Len(file.lines)
                           /\ keep = SubSeq(file.lines, 1, seq)

LEMMA RecIsNotJunk == Junk \notin Rec /\ Empty \notin Rec /\ Junk # Empty
BY EventLogAssumption DEF Rec

(* A line of its own follows the lines that are there. *)
LEMMA NumberedAppend ==
  ASSUME NEW recs, Numbered(recs), NEW b \in Body
  PROVE  Numbered(Append(recs, [seq |-> Len(recs), body |-> b]))
<1> DEFINE r == [seq |-> Len(recs), body |-> b]
<1>1. recs \in Seq(Rec) /\ r \in Rec /\ Len(recs) \in Nat
  BY DEF Numbered, Rec
<1>2. /\ Append(recs, r) \in Seq(Rec)
      /\ Len(Append(recs, r)) = Len(recs) + 1
      /\ \A i \in 1 .. Len(recs) : Append(recs, r)[i] = recs[i]
      /\ Append(recs, r)[Len(recs) + 1] = r
  BY <1>1, AppendProperties
<1>3. ASSUME NEW i \in 1 .. Len(recs) + 1
      PROVE  Append(recs, r)[i].seq = i - 1
  <2>1. CASE i = Len(recs) + 1
    BY <1>1, <1>2, <2>1
  <2>2. CASE i \in 1 .. Len(recs)
    BY <1>1, <1>2, <2>2 DEF Numbered
  <2> QED BY <1>1, <1>3, <2>1, <2>2
<1> QED BY <1>2, <1>3 DEF Numbered

LEMMA NumberedPrefix ==
  ASSUME NEW recs, Numbered(recs), NEW n \in Nat, n <= Len(recs)
  PROVE  /\ Numbered(SubSeq(recs, 1, n))
         /\ Len(SubSeq(recs, 1, n)) = n
<1>1. recs \in Seq(Rec) /\ Len(recs) \in Nat
  BY DEF Numbered
<1>2. /\ SubSeq(recs, 1, n) \in Seq(Rec)
      /\ Len(SubSeq(recs, 1, n)) = n
      /\ \A i \in 1 .. n : SubSeq(recs, 1, n)[i] = recs[i]
  BY <1>1
<1> QED BY <1>1, <1>2 DEF Numbered

(* What a reader finds in such a file is its terminated lines. *)
LEMMA ReaderFindsTheLines ==
  ASSUME IInv
  PROVE  /\ Records(file) = file.lines
         /\ Torn(file) <=> file.tail = Junk
         /\ ~Refused(file)
<1> DEFINE ls == file.lines
<1>1. ls \in Seq(Rec) /\ Len(ls) \in Nat
  BY DEF IInv
<1>2. ASSUME file.tail = Empty PROVE Records(file) = ls /\ ~Torn(file)
  <2>1. Lines(file) = ls
    BY <1>2 DEF Lines
  <2>2. ~Torn(file)
    <3>1. ASSUME ls # <<>> PROVE ls[Len(ls)] \in Rec
      BY <1>1, <3>1
    <3> QED BY <2>1, <3>1, RecIsNotJunk DEF Torn
  <2> QED BY <2>1, <2>2 DEF Records
<1>3. ASSUME file.tail = Junk PROVE Records(file) = ls /\ Torn(file)
  <2> DEFINE raw == Append(ls, Junk)
  <2>1. Lines(file) = raw
    BY <1>3, RecIsNotJunk DEF Lines
  <2>2. /\ Len(raw) = Len(ls) + 1 /\ raw[Len(raw)] = Junk /\ raw # <<>>
        /\ SubSeq(raw, 1, Len(raw) - 1) = ls
    <3>1. ls \in Seq(Rec \cup {Junk})
      BY <1>1
    <3> QED BY <3>1
  <2>3. Torn(file)
    BY <2>1, <2>2 DEF Torn
  <2> QED BY <2>1, <2>2, <2>3 DEF Records
<1>4. Records(file) = ls /\ (Torn(file) <=> file.tail = Junk)
  BY <1>2, <1>3, RecIsNotJunk DEF IInv
<1>5. ~Refused(file)
  BY <1>1, <1>4, RecIsNotJunk DEF Refused, Broken, IInv, Numbered
<1> QED BY <1>4, <1>5

LEMMA InitIInv == Init => IInv
BY RecIsNotJunk DEF Init, IInv, EmptyFile, Numbered

-----------------------------------------------------------------------------
(* Steps.  Each lemma gives the invariant and the step of the promise. *)

LEMMA OpenStep ==
  ASSUME IInv, Open
  PROVE  IInv' /\ file' = file
<1>1. Records(file) = file.lines /\ file.tail = Empty
  BY ReaderFindsTheLines, RecIsNotJunk DEF Open, NeedsRepair, IInv
<1> QED BY <1>1 DEF Open, IInv

LEMMA OpenTornStep ==
  ASSUME IInv, OpenTorn
  PROVE  IInv' /\ file' = file
<1>1. Records(file) = file.lines
  BY ReaderFindsTheLines
<1>2. file.lines \in Seq(Rec) /\ Len(file.lines) \in Nat
  BY DEF IInv
<1>3. SubSeq(file.lines, 1, Len(file.lines)) = file.lines
  BY <1>2
<1> QED BY <1>1, <1>2, <1>3 DEF OpenTorn, Survivors, IInv

(* What AppendLine does to a file without a torn tail. *)
LEMMA WholeLine ==
  ASSUME IInv, mode = "open", NEW b \in Body,
         file' = AppendLine(file, [seq |-> seq, body |-> b])
  PROVE  /\ file'.lines = Append(file.lines, [seq |-> Len(file.lines), body |-> b])
         /\ file'.tail = Empty
         /\ file' = [lines |-> file'.lines, tail |-> file'.tail]
         /\ Numbered(file'.lines)
         /\ Len(file'.lines) = Len(file.lines) + 1
<1>1. /\ file'.lines = Append(file.lines, [seq |-> Len(file.lines), body |-> b])
      /\ file'.tail = Empty
      /\ file' = [lines |-> file'.lines, tail |-> file'.tail]
  BY DEF AppendLine, Joined, IInv
<1>2. Numbered(file'.lines)
  BY <1>1, NumberedAppend DEF IInv
<1>3. Len(file'.lines) = Len(file.lines) + 1
  BY <1>1 DEF IInv
<1> QED BY <1>1, <1>2, <1>3

LEMMA WriteStep ==
  ASSUME IInv, NEW b \in Body, Write(b)
  PROVE  /\ IInv'
         /\ file'.lines = Append(file.lines, [seq |-> Len(file.lines), body |-> b])
<1>1. /\ mode = "open" /\ mode' = mode /\ keep' = keep /\ seq' = seq + 1
      /\ file' = AppendLine(file, [seq |-> seq, body |-> b])
  BY DEF Write
<1> QED BY <1>1, WholeLine DEF IInv, Numbered

LEMMA TruncateToStep ==
  ASSUME IInv, NEW n \in 0 .. MaxSeq, TruncateTo(n)
  PROVE  IInv' /\ file' = file
<1>1. Records(file) = file.lines /\ n \in Nat
  BY ReaderFindsTheLines, EventLogAssumption
<1> QED BY <1>1 DEF TruncateTo, Kept, IInv

LEMMA ReplaceStep ==
  ASSUME IInv, Replace
  PROVE  IInv' /\ file'.lines = SubSeq(file.lines, 1, seq)
<1>1. Numbered(keep) /\ Len(keep) = seq
  BY NumberedPrefix DEF Replace, IInv
<1>2. file' = [lines |-> keep, tail |-> Empty]
  BY DEF Replace, FileOf
<1> QED BY <1>1, <1>2 DEF Replace, IInv, Numbered

LEMMA CrashStep ==
  ASSUME IInv, Crash
  PROVE  IInv' /\ file' = file
BY DEF Crash, IInv

LEMMA CrashInWriteStep ==
  ASSUME "text" \notin Cuts, IInv, NEW b \in Body, CrashInWrite(b)
  PROVE  /\ IInv'
         /\ \/ file'.lines = file.lines
            \/ file'.lines = Append(file.lines, [seq |-> Len(file.lines), body |-> b])
<1> DEFINE rec == [seq |-> seq, body |-> b]
<1>1. mode = "open" /\ mode' = "down" /\ seq' = 0 /\ keep' = <<>>
  BY DEF CrashInWrite
<1>2. CASE file' = AppendLine(file, rec)
  BY <1>1, <1>2, WholeLine DEF IInv, Numbered
<1>3. CASE \E cut \in Cuts : file' = CutLine(file, rec, cut)
  <2>1. file' = [file EXCEPT !.tail = Junk]
    BY <1>3, CutsAssumption DEF CutLine
  <2>2. file'.lines = file.lines /\ file'.tail = Junk
        /\ file' = [lines |-> file'.lines, tail |-> file'.tail]
    BY <2>1 DEF IInv
  <2> QED BY <1>1, <2>2 DEF IInv
<1> QED BY <1>2, <1>3 DEF CrashInWrite

LEMMA StepPreserves ==
  ASSUME "text" \notin Cuts, IInv, [Next]_vars
  PROVE  IInv'
<1>1. CASE UNCHANGED vars
  BY <1>1 DEF vars, IInv
<1>2. CASE Next
  BY <1>2, OpenStep, OpenTornStep, WriteStep, TruncateToStep, ReplaceStep,
     CrashStep, CrashInWriteStep DEF Next
<1> QED BY <1>1, <1>2

-----------------------------------------------------------------------------
(* No start refuses a log that only this program wrote, whatever the kills.  *)
THEOREM LogIsNeverRefused ==
  ASSUME "text" \notin Cuts
  PROVE  Spec => []NeverRefused
<1>1. IInv => NeverRefused
  BY ReaderFindsTheLines DEF NeverRefused
<1>2. IInv /\ [Next]_vars => IInv'
  BY StepPreserves
<1> QED BY <1>1, <1>2, InitIInv, PTL DEF Spec

(* The open log numbers its next record by how many a reader finds. *)
THEOREM LogNumbersContinue ==
  ASSUME "text" \notin Cuts
  PROVE  Spec => []SeqContinues
<1>1. IInv => SeqContinues
  BY ReaderFindsTheLines DEF SeqContinues, IInv
<1>2. IInv /\ [Next]_vars => IInv'
  BY StepPreserves
<1> QED BY <1>1, <1>2, InitIInv, PTL DEF Spec

(* The file implements the durable log: what a reader finds only ever grows  *)
(* by the record being written or is cut back on request; no crash, torn     *)
(* tail or interrupted rewrite changes it.                                   *)
THEOREM LogIsDurable ==
  ASSUME "text" \notin Cuts
  PROVE  Spec => KeepsItsPromise
<1>1. Init => Promise!Init
  <2>1. ASSUME Init PROVE Records(file) = <<>>
    BY <2>1, InitIInv, ReaderFindsTheLines DEF Init, EmptyFile
  <2> QED BY <2>1 DEF Init, Promise!Init
<1>2. IInv /\ [Next]_vars /\ IInv' => [Promise!Next]_<<Records(file), mode # "down">>
  <2> SUFFICES ASSUME IInv, [Next]_vars, IInv'
               PROVE  Promise!Next \/ UNCHANGED <<Records(file), mode # "down">>
    OBVIOUS
  <2>1. Records(file) = file.lines /\ Records(file)' = file'.lines
    <3>1. Records(file) = file.lines
      BY ReaderFindsTheLines
    <3>2. (Records(file) = file.lines)'
      BY ReaderFindsTheLines, PTL
    <3> QED BY <3>1, <3>2
  <2>2. CASE Open \/ OpenTorn
    <3>1. Promise!Start
      BY <2>1, <2>2, OpenStep, OpenTornStep DEF Open, OpenTorn, Promise!Start
    <3> QED BY <3>1 DEF Promise!Next
  <2>3. ASSUME NEW b \in Body, Write(b) PROVE Promise!Next
    <3>1. Promise!Write(b)
      BY <2>1, <2>3, WriteStep DEF Write, Promise!Write, Promise!Entry
    <3> QED BY <3>1 DEF Promise!Next
  <2>4. ASSUME NEW n \in 0 .. MaxSeq, TruncateTo(n)
        PROVE  UNCHANGED <<Records(file), mode # "down">>
    BY <2>1, <2>4, TruncateToStep DEF TruncateTo
  <2>5. CASE Replace
    <3>1. seq \in 0 .. Len(file.lines) /\ file'.lines = SubSeq(file.lines, 1, seq)
      BY <2>5, ReplaceStep DEF Replace, IInv
    <3>2. Promise!Truncate(seq)
      BY <2>1, <2>5, <3>1 DEF Replace, Promise!Truncate
    <3> QED BY <2>1, <3>1, <3>2 DEF Promise!Next
  <2>6. CASE Crash
    <3>1. Promise!Die
      BY <2>1, <2>6, CrashStep DEF Crash, Promise!Die
    <3> QED BY <3>1 DEF Promise!Next
  <2>7. ASSUME NEW b \in Body, CrashInWrite(b) PROVE Promise!Next
    <3>1. Promise!Die
      BY <2>1, <2>7, CrashInWriteStep DEF CrashInWrite, Promise!Die, Promise!Entry
    <3> QED BY <3>1 DEF Promise!Next
  <2>8. CASE UNCHANGED vars
    BY <2>1, <2>8 DEF vars
  <2> QED BY <2>2, <2>3, <2>4, <2>5, <2>6, <2>7, <2>8 DEF Next
<1>3. IInv /\ [Next]_vars => IInv'
  BY StepPreserves
<1> QED BY <1>1, <1>2, <1>3, InitIInv, PTL DEF Spec, KeepsItsPromise, Promise!Spec
=============================================================================
