----------------------------- MODULE LedgerDiff -----------------------------
(***************************************************************************)
(* The loop of diff in src/src/civ_arena/arena/watchdog.py, row by row.    *)
(* It is greedy: an actual row takes one matching allowed row if one is    *)
(* left, and is a violation if not.  Watchdog.Excess is what the referee's *)
(* model uses in its place; here the loop is shown to compute it.          *)
(***************************************************************************)
EXTENDS Watchdog, Sequences, FiniteSets

CONSTANTS
  RowPool,  \* bound: the rows a journal is made of
  MaxRows   \* bound: rows of a journal or a ledger

VARIABLES
  actual, allowed,           \* the two lists
  i,                         \* rows of actual that have been looked at
  remaining,                 \* Counter of the allowed rows nobody took
  unauthorized, deviations   \* the violating rows; their order is immaterial

vars == <<actual, allowed, i, remaining, unauthorized, deviations>>

\* Counter(_mkey(m) for m in rows)
CountOf(rows) == [r \in Row |-> Cardinality({k \in DOMAIN rows : rows[k] = r})]

\* covered_attrs, from the whole allowed list and not from what remains of it.
CoveredAttrs == {allowed[k].entity : k \in DOMAIN allowed}

Lists == UNION {[1 .. n -> RowPool \cap Row] : n \in 0 .. MaxRows}

Init ==
  /\ actual \in Lists /\ allowed \in Lists
  /\ i = 0 /\ remaining = CountOf(allowed)
  /\ unauthorized = NoRows /\ deviations = NoRows

row == actual[i + 1]


Take == remaining' = [remaining EXCEPT ![row] = @ - 1]

\* The row is expected.
Expected ==
  /\ i < Len(actual) /\ remaining[row] > 0
  /\ Take
  /\ i' = i + 1
  /\ UNCHANGED <<actual, allowed, unauthorized, deviations>>

\* Mutant: a row on a declared field passes once its manifest row is used up.
IsDeviation_OnlyRemaining == \E r \in Row : r.entity = row.entity /\ remaining[r] > 0

IsDeviation == row.entity \in CoveredAttrs

\* It is not, but some allowed row is about the same field.
Deviates ==
  /\ i < Len(actual) /\ remaining[row] = 0 /\ IsDeviation
  /\ deviations' = AddRows(deviations, Single(row))
  /\ i' = i + 1
  /\ UNCHANGED <<actual, allowed, remaining, unauthorized>>

\* It is not, and nothing allowed is about its field.
Unexpected ==
  /\ i < Len(actual) /\ remaining[row] = 0 /\ ~IsDeviation
  /\ unauthorized' = AddRows(unauthorized, Single(row))
  /\ i' = i + 1
  /\ UNCHANGED <<actual, allowed, remaining, deviations>>

Next == Expected \/ Deviates \/ Unexpected

Spec == Init /\ [][Next]_vars

Finished == i = Len(actual)

\* The violations diff returns: at most one of each kind.
Violations ==
  {k \in {"UNAUTHORIZED_ACTION", "AMBIENT_DEVIATION"} :
     IF k = "UNAUTHORIZED_ACTION" THEN unauthorized # NoRows
                                  ELSE deviations # NoRows}

-----------------------------------------------------------------------------
(* Properties *)

(* The violating rows are the excess of the journal over the ledger, counted *)
(* with multiplicity, whatever order the rows came in.                       *)
FindsTheExcess ==
  Finished => AddRows(unauthorized, deviations)
                = Excess(CountOf(actual), CountOf(allowed))

(* The kinds of violation are the ones the referee's model derives from the  *)
(* excess.                                                                   *)
FindsTheKinds == Finished => Violations = ViolationKinds(CountOf(actual), CountOf(allowed))

(* What diff returns is what the referee's model says of the two lists, whatever the *)
(* order the rows were journalled in.                                                *)
DiffIsExact == FindsTheExcess /\ FindsTheKinds
=============================================================================
