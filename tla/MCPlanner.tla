----------------------------- MODULE MCPlanner -----------------------------
(* For TLC: the simulator's match and the planner's turn, on a strip of     *)
(* land with one hill; what the planner carries from leg to leg; and the    *)
(* forecasts of a strategic seat's builds.  They share no state, so a       *)
(* behaviour belongs to one of them and the others rest in an initial state.*)
EXTENDS PlannerTurn

CONSTANTS
  Games, MaxActs, LastTurn,   \* of SimMatch
  None, Artifact, PlanOption, Looks, PostCap, MaxContexts, Every, LastDay, MaxKills,
                              \* of PlannerResume
  City, Item, Defender, MaxLeft, ForecastTurns, MaxChanges, MaxForecasts  \* of Forecasts

\* No item, mark or pending forecast is None, and what is counted is a number.
ASSUME ForecastAssumption ==
  /\ MaxLeft \in Nat
  /\ None \notin Item \cup {"threat", "rate"}
  /\ None \notin [id : Nat, item : Item, due : Nat, censored : {None, "threat", "rate"}, overdue : BOOLEAN]
ASSUME ResumeAssumption == PostCap \in Nat /\ LastDay \in Nat

VARIABLES
  which,
  game, turn, index, phase, acts, was, declared,
  up, stage, day, saved, mind, journal, stood, made, undone, kills,
  forecastTurn, watched, city, threat, changes, monitor, issued, told, past

simVars == <<game, turn, index, phase, acts, was, declared>>
legVars == <<up, stage, day, saved, mind, journal, stood, made, undone, kills>>
forecastVars == <<forecastTurn, watched, city, threat, changes, monitor, issued, told, past>>
Sim == INSTANCE SimMatch
Legs == INSTANCE PlannerResume WITH turn <- day, LastTurn <- LastDay, Option <- PlanOption
Builds == INSTANCE Forecasts WITH LastTurn <- ForecastTurns

-----------------------------------------------------------------------------
MCLand ==
  [t \in {<<0, 0>>, <<1, 0>>, <<2, 0>>, <<3, 0>>, <<4, 0>>, <<1, 1>>} |->
     IF t = <<1, 1>> THEN "HILL" ELSE "GRASSLAND"]
MCRolls == <<<<0, 0>>, <<20, 20>>>>
MCRoster == <<[type |-> "WARRIOR", at |-> <<4, 0>>]>>

Hurt(p, type, at, hp) == [NewUnit(p, type, at) EXCEPT !.hp = hp]
Wild == [t \in Tile |-> [owner |-> -1, city |-> 0]]
Settled(p, c, center) ==
  [t \in Tile |-> IF Dist(t, center) <= 2 THEN [owner |-> p, city |-> c] ELSE Wild[t]]
Town(p, at, queue) ==
  [owner |-> p, at |-> at, pop |-> 1, food |-> 12, prod |-> 46, queue |-> queue, buildings |-> {}]
Purse == [gold |-> 200, science |-> 18, researched |-> {}, researching |-> "", known |-> {}]
Opening(units, cities, tiles) ==
  LET g == [land |-> MCLand, units |-> units, cities |-> cities, tiles |-> tiles,
            seats |-> [p \in Seat |-> Purse], nextUnit |-> 9, nextCity |-> 9]
  IN [g EXCEPT !.seats = [p \in Seat |-> [@[p] EXCEPT !.known = Sight(g, p)]]]

\* A fight about to be decided beside a settler; an archer at home and a scout
\* that can walk in.
MCGames ==
  {Opening((1 :> Hurt(0, "WARRIOR", <<1, 0>>, 20)) @@ (2 :> Hurt(1, "WARRIOR", <<2, 0>>, 30))
             @@ (3 :> Hurt(0, "SETTLER", <<0, 0>>, 100)), <<>>, Wild),
   Opening((1 :> Hurt(0, "ARCHER", <<1, 1>>, 60)) @@ (2 :> Hurt(1, "SCOUT", <<3, 0>>, 5)),
           4 :> Town(0, <<0, 0>>, "MONUMENT"), Settled(0, 4, <<0, 0>>))}

\* The same fight; two warriors that meet a rival by their town; a long
\* fight that a scout watches and leaves; a scout with a rival
\* just out of its sight; a warrior where the rival is taken to start.
MCWorlds ==
  {Opening((1 :> Hurt(0, "WARRIOR", <<1, 0>>, 20)) @@ (2 :> Hurt(1, "WARRIOR", <<2, 0>>, 30))
             @@ (3 :> Hurt(0, "SETTLER", <<0, 0>>, 100)), <<>>, Wild),
   Opening((1 :> Hurt(0, "WARRIOR", <<1, 1>>, 60)) @@ (3 :> Hurt(0, "WARRIOR", <<1, 0>>, 20))
             @@ (2 :> Hurt(1, "WARRIOR", <<2, 0>>, 25)) @@ (5 :> Hurt(1, "SCOUT", <<3, 0>>, 100)),
           4 :> Town(0, <<0, 0>>, ""), Settled(0, 4, <<0, 0>>)),
   Opening((1 :> Hurt(0, "WARRIOR", <<1, 0>>, 100)) @@ (2 :> Hurt(1, "WARRIOR", <<2, 0>>, 100))
             @@ (5 :> Hurt(1, "SCOUT", <<3, 0>>, 100)), <<>>, Wild),
   Opening((1 :> Hurt(0, "SCOUT", <<0, 0>>, 100)) @@ (2 :> Hurt(1, "WARRIOR", <<3, 0>>, 100)),
           <<>>, Wild),
   Opening((1 :> Hurt(0, "WARRIOR", <<3, 0>>, 100)) @@ (2 :> Hurt(1, "SCOUT", <<0, 0>>, 100)),
           <<>>, Wild)}

\* A turn that shows nothing, one that shows a foe and a better position.
MCLooks == {[foes |-> {}, ctx |-> 1, value |-> 0], [foes |-> {1}, ctx |-> 2, value |-> 2]}

-----------------------------------------------------------------------------
AnyOf(S) == CHOOSE x \in S : TRUE

MCInit ==
  /\ which \in {"sim", "planner", "legs", "forecasts"}
  /\ Init /\ Sim!Init /\ Legs!Init /\ Builds!Init
  /\ which # "planner" => qualified /\ world = AnyOf(Worlds)
  /\ which # "sim" => game = AnyOf(Games)
MCNext ==
  /\ UNCHANGED which
  /\ \/ which = "planner" /\ Next /\ UNCHANGED <<simVars, legVars, forecastVars>>
     \/ which = "sim" /\ Sim!Next /\ UNCHANGED <<vars, legVars, forecastVars>>
     \/ which = "legs" /\ Legs!Next /\ UNCHANGED <<vars, simVars, forecastVars>>
     \/ which = "forecasts" /\ Builds!Next /\ UNCHANGED <<vars, simVars, legVars>>

MCSpec == MCInit /\ [][MCNext]_<<which, vars, simVars, legVars, forecastVars>>

\* SimMatch!EnumerationIsExact and SimMatch!RecordsTellTheWhole, of its behaviours.
EngineIsHonest == which = "sim" => Sim!EnumerationIsExact /\ Sim!RecordsTellTheWhole

\* PlannerTurn's PlansRunAsMeant and InSightMovesAreAccepted.
PlansAreSound == PlansRunAsMeant /\ InSightMovesAreAccepted

\* Forecasts!FatesAreSettled and Forecasts!VerdictsAreFair.
ForecastsAreFair == which = "forecasts" => Builds!FatesAreSettled /\ Builds!VerdictsAreFair

\* PlannerResume!ResumesWhereItStood and PlannerResume!PostsStayCapped.
LegsAreSeamless == Legs!ResumesWhereItStood /\ Legs!PostsStayCapped

\* PlannerResume!NeverReprimed.
NeverReprimed == Legs!NeverReprimed
=============================================================================
