------------------------------ MODULE SimMatch ------------------------------
(* The simulator as the referee drives it: simulator.py begin_phase, act    *)
(* and end_phase over the rules of SimGame.  Chaos is modelled in Referee.  *)
EXTENDS SimGame

CONSTANTS Games, MaxActs, LastTurn   \* the games to start from; bounds of a behaviour

VARIABLES game, turn, index, phase, acts, was, declared

vars == <<game, turn, index, phase, acts, was, declared>>
NoSeat == -1
Order == InOrder(Seat)

Init ==
  /\ game \in Games /\ was = game
  /\ turn = 1 /\ index = 1 /\ phase = NoSeat /\ acts = 0 /\ declared = <<>>

\* One call of the adapter: the game it leaves and what its journal gains.
Becomes(x) == game' = x.game /\ was' = game /\ declared' = x.recs
Now == [game |-> game, recs |-> <<>>]

BeginPhase ==
  /\ phase = NoSeat /\ turn <= LastTurn
  /\ phase' = Order[index]
  /\ Becomes(RunAmbient(Now, Order[index]))
  /\ UNCHANGED <<turn, index, acts>>

\* An illegal call is rejected and leaves the game alone.
Act(a, rolls) ==
  /\ phase # NoSeat /\ acts < MaxActs
  /\ CheckAction(game, phase, a)
  /\ a.tool # "attack" => rolls = Rolls[1]
  /\ acts' = acts + 1
  /\ Becomes(ApplyAction(Now, phase, a, rolls))
  /\ UNCHANGED <<turn, index, phase>>

EndPhase ==
  /\ phase # NoSeat
  /\ phase' = NoSeat
  /\ IF index = Len(Order) THEN index' = 1 /\ turn' = turn + 1
     ELSE index' = index + 1 /\ UNCHANGED turn
  /\ was' = game /\ declared' = <<>>
  /\ UNCHANGED <<game, acts>>

Next ==
  \/ BeginPhase \/ EndPhase
  \/ \E a \in Spellings(game), i \in DOMAIN Rolls : Act(a, Rolls[i])

Spec == Init /\ [][Next]_vars

-----------------------------------------------------------------------------
\* legal_actions offers exactly the calls that check_action accepts, for each
\* seat in every game that play reaches.
EnumerationIsExact ==
  \A p \in Seat : LegalActions(game, p) = {a \in Spellings(game) : CheckAction(game, p, a)}

\* What a table row says, attribute by attribute; a tile says its owner only.
Says(g, table, id, attr) == g[table][id][attr]
Attrs == [units |-> {"at", "mv", "hp", "fort"}, tiles |-> {"owner"},
          cities |-> {"pop", "food", "prod", "queue", "buildings"},
          seats |-> {"gold", "science", "researched", "researching", "known"}]
Told(recs, table, id, attr) ==
  SelectSeq(recs, LAMBDA r : r[1] = table /\ r[2] = id /\ r[3] = attr)
\* A row's records lead from the value before to the value after, none missing
\* and none twice.
Leads(recs, old, new) ==
  IF recs = <<>> THEN old = new
  ELSE /\ recs[1][4] = old /\ recs[Len(recs)][5] = new
       /\ \A i \in 1..Len(recs) - 1 : recs[i][5] = recs[i + 1][4]

\* The records a call declares say everything that it did to the game: the
\* watchdog judges by them alone, so what they leave out nobody would see.
RecordsTellTheWhole ==
  \A table \in DOMAIN Attrs :
    LET ids == DOMAIN was[table]
        now == DOMAIN game[table]
    IN /\ \A id \in ids \cap now, attr \in Attrs[table] :
            Leads(Told(declared, table, id, attr), Says(was, table, id, attr), Says(game, table, id, attr))
       /\ \A id \in now \ ids : Len(Told(declared, table, id, "created")) = 1
       /\ \A id \in ids \ now : Len(Told(declared, table, id, "alive")) = 1
=============================================================================
