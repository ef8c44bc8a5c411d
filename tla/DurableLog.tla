----------------------------- MODULE DurableLog -----------------------------
(***************************************************************************)
(* What the event log promises to the referee and to a resume: a sequence  *)
(* of numbered records that outlives the process.  A record is appended at *)
(* the end, or the log is cut back on request; dying and coming back       *)
(* changes nothing, except that a record whose write had not returned yet  *)
(* may or may not have made it.                                            *)
(***************************************************************************)
EXTENDS Naturals, Sequences

CONSTANTS Body  \* what a record says

VARIABLES entries, up

Entry(b) == [seq |-> Len(entries), body |-> b]

Init == entries = <<>> /\ up = FALSE

Start == ~up /\ up' = TRUE /\ UNCHANGED entries

Write(b) == up /\ entries' = Append(entries, Entry(b)) /\ UNCHANGED up

Truncate(keep) ==
  up /\ keep <= Len(entries) /\ entries' = SubSeq(entries, 1, keep) /\ UNCHANGED up

Die ==
  /\ up /\ up' = FALSE
  /\ \/ UNCHANGED entries
     \/ \E b \in Body : entries' = Append(entries, Entry(b))

Next ==
  \/ Start \/ Die
  \/ \E b \in Body : Write(b)
  \/ \E keep \in 0 .. Len(entries) : Truncate(keep)

Spec == Init /\ [][Next]_<<entries, up>>
=============================================================================
