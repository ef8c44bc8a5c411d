----------------------------- MODULE MCReferee -----------------------------
(***************************************************************************)
(* A two-seat duel for TLC: each seat has a field the ambient phase        *)
(* refreshes (its units' movement) and one it does not (its gold).         *)
(***************************************************************************)
EXTENDS Referee, TLC

CONSTANTS n1, text1

MCPlayer    == {0, 1}
MCSeatOrder == <<0, 1>>
MCEntity    == {"moves0", "moves1", "gold0"}
MCOwner     == [moves0 |-> 0, moves1 |-> 1, gold0 |-> 0]
MCRefreshed == {"moves0", "moves1"}

Moves == 0 :> "moves0" @@ 1 :> "moves1"
Gold  == 0 :> "gold0" @@ 1 :> "moves1"

Strike(hook, offset, target) ==
  [hook |-> hook, offset |-> offset, target |-> target, effect |-> "steal",
   value |-> 0]

\* Nothing; an act event that mimics the order it follows; a boundary event
\* in either phase; enough begin_phase events to exhaust the retries.
MCChaosScripts ==
  {<<>>,
   <<Strike("act", 0, Moves), Strike("act", 1, Gold)>>,
   <<Strike("end_phase", 0, Gold), Strike("begin_phase", 0, Moves)>>,
   <<Strike("begin_phase", 1, Gold), Strike("act", 0, Moves)>>,
   <<Strike("begin_phase", 0, Moves), Strike("begin_phase", 0, Gold),
     Strike("begin_phase", 0, Gold)>>}

\* For the longer match: one event in each phase boundary.
MCBoundaryScripts ==
  {<<>>, <<Strike("end_phase", 0, Gold), Strike("begin_phase", 0, Moves)>>}
=============================================================================
