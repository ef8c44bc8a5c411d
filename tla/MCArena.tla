------------------------------ MODULE MCArena ------------------------------
(* A one-seat match for TLC, with the process dying on the way. *)
EXTENDS Arena

CONSTANTS n1, text1

MCPlayer    == {0}
MCSeatOrder == <<0>>
MCEntity    == {"moves", "gold"}
MCOwner     == [e \in MCEntity |-> 0]
MCRefreshed == {"moves"}

Strike(hook, offset, field) ==
  [hook |-> hook, offset |-> offset, target |-> [p \in MCPlayer |-> field],
   effect |-> "steal", value |-> 0]

\* None; or an order is followed by a theft, a later phase by another.
MCChaosScripts ==
  {<<>>, <<Strike("act", 0, "moves"), Strike("begin_phase", 0, "gold")>>}
=============================================================================
