------------------------------ MODULE Watchdog ------------------------------
(***************************************************************************)
(* The ledger diff of src/src/civ_arena/arena/watchdog.py.                 *)
(*                                                                         *)
(* The engine journals a mutation row for everything it changes; the       *)
(* referee keeps the rows it expects.  The watchdog compares the two as    *)
(* multisets: only the key of a row (what changed, from what, to what)     *)
(* counts, never the origin tag the engine put on it.  A ledger is a       *)
(* function from rows to how often the row occurs, which is what the       *)
(* code's Counter is.                                                      *)
(***************************************************************************)
EXTENDS Integers

CONSTANTS
  Entity,   \* an (entity_type, entity_id, attr) triple: one field of the world
  Top       \* the largest value of a field

ASSUME TopAssumption == Top \in Nat

Val == 0 .. Top

\* A mutation row, reduced to the fields that _mkey compares.
Row == [entity : Entity, before : Val, after : Val]

Ledger == [Row -> Nat]

NoRows == [r \in Row |-> 0]

Single(row) == [r \in Row |-> IF r = row THEN 1 ELSE 0]

AddRows(a, b) == [r \in Row |-> a[r] + b[r]]

-----------------------------------------------------------------------------

(* The rows of actual that allowed does not account for, with multiplicity. *)
Excess(actual, allowed) ==
  [r \in Row |-> IF actual[r] > allowed[r] THEN actual[r] - allowed[r] ELSE 0]

(* The field of row is one that some allowed row also writes. *)
Covered(row, allowed) ==
  \E r \in Row : r.entity = row.entity /\ allowed[r] > 0

(* One UNAUTHORIZED_ACTION violation gathers the excess rows on fields the  *)
(* ledger knows nothing about, one AMBIENT_DEVIATION those on fields that   *)
(* it does; an empty diff is the clean verdict.                             *)
ViolationKinds(actual, allowed) ==
  LET excess == {r \in Row : actual[r] > allowed[r]}
  IN  {k \in {"UNAUTHORIZED_ACTION", "AMBIENT_DEVIATION"} :
         \E r \in excess : Covered(r, allowed) <=> k = "AMBIENT_DEVIATION"}

(* How many VIOLATION records the diff causes. *)
ViolationCount(actual, allowed) ==
  LET kinds == ViolationKinds(actual, allowed)
  IN  IF kinds = {} THEN 0
      ELSE IF kinds = {"UNAUTHORIZED_ACTION", "AMBIENT_DEVIATION"} THEN 2 ELSE 1

=============================================================================
