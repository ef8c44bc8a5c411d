----------------------------- MODULE JsonLines -----------------------------
(***************************************************************************)
(* A JSON-lines file as the event log (arena/events.py) and the spend      *)
(* ledger (arena/spend.py) use it: each record is written as its text and  *)
(* a newline, in one write, and a process killed in that write leaves any  *)
(* prefix of it.  Of a line only this much matters: the record it decodes  *)
(* to, or that it is Junk.                                                 *)
(***************************************************************************)
EXTENDS Naturals, Sequences

CONSTANTS
  Junk,   \* text that does not decode: a fragment, or two lines run together
  Empty,  \* the file ends with a newline (or is empty)
  Cuts    \* where a killed write may stop: "part", inside the text of the
          \* record; "text", after its last byte and before the newline

ASSUME CutsAssumption == Cuts \subseteq {"part", "text"}

\* The terminated lines, and the text after the last newline.
File(record) == [lines : Seq(record \cup {Junk}), tail : record \cup {Junk, Empty}]

EmptyFile == [lines |-> <<>>, tail |-> Empty]

\* What is left of rec once it is written behind tail: a record only decodes
\* when it starts its line.
Joined(tail, rec) == IF tail = Empty THEN rec ELSE Junk

\* The whole write: text and newline.
AppendLine(file, rec) ==
  [lines |-> Append(file.lines, Joined(file.tail, rec)), tail |-> Empty]

\* The write of a process that is killed in it.
CutLine(file, rec, cut) ==
  [file EXCEPT !.tail = IF cut = "text" THEN Joined(file.tail, rec) ELSE Junk]

\* read_text().splitlines(): an unterminated tail is a line like any other.
Lines(file) ==
  IF file.tail = Empty THEN file.lines ELSE Append(file.lines, file.tail)

\* A file written anew from records, as it is moved over the old one.
FileOf(recs) == [lines |-> recs, tail |-> Empty]
=============================================================================
