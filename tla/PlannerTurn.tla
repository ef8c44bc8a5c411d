----------------------------- MODULE PlannerTurn -----------------------------
(* The planner's turn against a game it knows only by what it is shown:     *)
(* observe, rebuild a world from the belief, choose an option, compile its  *)
(* plan, execute it in one canonical order.  planner/runtime.py take_turn,  *)
(* belief.py, action_dag.py, executor.py and entity_boundary.py; what it is *)
(* shown is arena/visibility.py.  The search that picks the option is any   *)
(* choice here; the terrain that it guesses is Guess.                       *)
EXTENDS PlannerOptions

CONSTANTS Me, Rival,      \* the planner's seat and the other
          Worlds,         \* the games to start from
          Guess,          \* what the planner samples for terrain it never saw
          Roster,         \* the units it takes an unseen rival to have, and where
          Reselect, LastRound

VARIABLES world,          \* the game
          pc,             \* where the planner is in its turn
          bel,            \* PlannerBelief
          rolling,        \* the executor's rolling state
          round, active, chosenAt, plan,
          todo,           \* the plan's indices, in the order of execution
          fate,           \* what became of each index
          qualified,      \* whether the ids are owner-qualified (EntityBoundary)
          retired         \* history: the foes the executor gave up for dead

planVars == <<bel, rolling, round, active, chosenAt, plan, todo, fate, qualified, retired>>
vars == <<world, pc, planVars>>

-----------------------------------------------------------------------------
(* The dependencies of a plan, and the order it is executed in.             *)
Ladder == <<"set_research", "set_city_production", "purchase", "found_city", "move_unit", "attack",
            "fortify">>
SameUnit(a, b) == "unit" \in DOMAIN a /\ "unit" \in DOMAIN b /\ a.unit = b.unit
SameCity(a, b) == "city" \in DOMAIN a /\ "city" \in DOMAIN b /\ a.city = b.city
Ordered(a, b) ==
  \/ a.tool = b.tool /\ a.tool \in {"purchase", "found_city"}
  \/ a.tool = "attack" /\ b.tool = "attack" /\ a.target = b.target
  \/ {a.tool, b.tool} = {"purchase", "set_city_production"} /\ SameCity(a, b)
Mutex(a, b) ==
  a.tool = b.tool /\ (a.tool = "set_research" \/ (a.tool = "set_city_production" /\ SameCity(a, b)))

Refused(acts) == \E i, j \in DOMAIN acts : i < j /\ Mutex(acts[i], acts[j])
Preceders(acts, j) ==
  {i \in DOMAIN acts : i < j /\ (SameUnit(acts[i], acts[j]) \/ Ordered(acts[i], acts[j]))}

Key(acts, i) ==
  LET a == acts[i]
      entity == IF "unit" \in DOMAIN a THEN a.unit ELSE IF "city" \in DOMAIN a THEN a.city ELSE 0
  IN <<CHOOSE r \in DOMAIN Ladder : Ladder[r] = a.tool, entity, i>>
Before(k, l) ==
  \/ k[1] < l[1]
  \/ k[1] = l[1] /\ (k[2] < l[2] \/ (k[2] = l[2] /\ k[3] < l[3]))
CanonicalOrder(acts) ==
  LET Place(out, step) ==
        LET ready == {i \in DOMAIN acts \ Range(out) : Preceders(acts, i) \subseteq Range(out)}
        IN Append(out, CHOOSE i \in ready : \A j \in ready \ {i} : Before(Key(acts, i), Key(acts, j)))
  IN FoldLeft(Place, <<>>, acts)

-----------------------------------------------------------------------------
(* What the planner is shown, and what it makes of it.                      *)
ShownUnits(g) == {u \in DOMAIN g.units : g.units[u].owner = Me \/ g.units[u].at \in Sight(g, Me)}
ShownCities(g) == {c \in DOMAIN g.cities : g.cities[c].owner = Me \/ g.cities[c].at \in Sight(g, Me)}

ObserveOverview(b, g) ==
  [b EXCEPT !.me = [gold |-> g.seats[Me].gold, researched |-> g.seats[Me].researched,
                    researching |-> g.seats[Me].researching]]
ObserveUnits(b, g) ==
  LET own == UnitsOf(g, Me)
      foes == ShownUnits(g) \ own
      Sighted(f) == [owner |-> g.units[f].owner, type |-> g.units[f].type, at |-> g.units[f].at,
                     bucket |-> g.units[f].hp \div 25, last |-> round]
  IN [b EXCEPT !.own = Restrict(g.units, own), !.live = foes,
               !.foes = [f \in foes |-> Sighted(f)] @@ @]
ObserveCities(b, g) ==
  LET own == CitiesOf(g, Me)
      Sighted(c) == [owner |-> g.cities[c].owner, at |-> g.cities[c].at, pop |-> g.cities[c].pop]
  IN [b EXCEPT !.cities = Restrict(g.cities, own),
               !.others = [c \in ShownCities(g) \ own |-> Sighted(c)] @@ @]
ObserveMap(b, g) ==
  LET view == Sight(g, Me)
      Tag(t) == IF t \in view THEN g.tiles[t] ELSE b.tiles[t]
  IN [b EXCEPT !.view = view, !.tiles = [t \in g.seats[Me].known \cup view |-> Tag(t)]]
Observe(b, g) == ObserveMap(ObserveCities(ObserveUnits(ObserveOverview(b, g), g), g), g)

\* A foe the last observation contradicts keeps its entry but is not rebuilt.
Contradicted(b, f) == b.foes[f].at \in b.view /\ f \notin b.live
Confidence(last, now) == Most(0, 10000 - 2500 * Most(0, now - last))
FoeUnit(b, f) ==
  LET e == b.foes[f]
  IN [owner |-> e.owner, type |-> e.type, at |-> e.at, mv |-> UnitType[e.type].mv,
      hp |-> Least(100, Most(1, 25 * e.bucket + 12)), fort |-> FALSE, conf |-> Confidence(e.last, round)]
OwnUnit(b, u) == b.own[u] @@ [conf |-> 10000]
PriorUnits(b) ==
  LET next == Max({0} \cup DOMAIN b.own \cup DOMAIN b.foes) + 1
      unit(r) == NewUnit(Rival, r.type, r.at) @@ [conf |-> Confidence(1, round)]
  IN IF DOMAIN b.foes # {} \/ DOMAIN b.others # {} THEN <<>>
     ELSE [n \in {next + i - 1 : i \in DOMAIN Roster} |-> unit(Roster[n - next + 1])]
PriorCity(e) ==
  [owner |-> e.owner, at |-> e.at, pop |-> e.pop, food |-> 0, prod |-> 0, queue |-> "", buildings |-> {}]
TechClosure(S) == S \cup UNION {Tech[t].prereq : t \in S}

BuildState(b) ==
  LET rebuilt == {f \in DOMAIN b.foes : ~Contradicted(b, f)}
      units == [u \in DOMAIN b.own |-> OwnUnit(b, u)] @@ [f \in rebuilt |-> FoeUnit(b, f)] @@ PriorUnits(b)
      cities == b.cities @@ [c \in DOMAIN b.others |-> PriorCity(b.others[c])]
      known == DOMAIN b.tiles
      inferred == TechClosure(UNION {UnitType[b.foes[f].type].needs : f \in DOMAIN b.foes})
      Purse(p) ==
        IF p = Me THEN b.me @@ [science |-> 0, known |-> known]
        ELSE [gold |-> 100, science |-> 0, researched |-> inferred, researching |-> "", known |-> {}]
  IN [land |-> [t \in Tile |-> IF t \in known THEN Land[t] ELSE Guess],
      tiles |-> [t \in Tile |-> IF t \in known THEN b.tiles[t] ELSE [owner |-> -1, city |-> 0]],
      units |-> units, cities |-> cities, seats |-> [p \in Seat |-> Purse(p)],
      nextUnit |-> Max({0} \cup DOMAIN units) + 1,
      nextCity |-> Max({0} \cup DOMAIN cities \cup {b.tiles[t].city : t \in known}) + 1]

-----------------------------------------------------------------------------
NoBelief ==
  [me |-> [gold |-> 100, researched |-> {}, researching |-> ""], own |-> <<>>, cities |-> <<>>,
   foes |-> <<>>, others |-> <<>>, tiles |-> <<>>, live |-> {}, view |-> {}]

Init ==
  /\ world \in Worlds /\ qualified \in BOOLEAN
  /\ pc = "waiting" /\ bel = NoBelief /\ rolling = world
  /\ round = 1 /\ active = "" /\ chosenAt = 0
  /\ plan = <<>> /\ todo = <<>> /\ fate = <<>> /\ retired = {}

\* The planner's phase opens with the ambient batch.
OpenPhase ==
  /\ pc = "waiting" /\ round <= LastRound
  /\ world' = RunAmbient([game |-> world, recs |-> <<>>], Me).game
  /\ pc' = "opened"
  /\ UNCHANGED planVars

LookAround ==
  /\ pc = "opened"
  /\ bel' = Observe(bel, world)
  /\ rolling' = BuildState(bel')
  /\ pc' = "looked"
  /\ UNCHANGED <<world, round, active, chosenAt, plan, todo, fate, qualified, retired>>

\* The active option goes on, or another is chosen; its plan is compiled.
MustChoose ==
  \/ active = "" \/ round - chosenAt >= Reselect
  \/ active # "" /\ (IsOver(active, rolling, Me) \/ ~MayBegin(active, rolling, Me))
Decide(option) ==
  /\ pc = "looked"
  /\ IF MustChoose THEN MayBegin(option, rolling, Me) /\ chosenAt' = round
     ELSE option = active /\ UNCHANGED chosenAt
  /\ active' = option
  /\ plan' = CompileStep(option, rolling, Me)
  /\ todo' = IF Refused(plan') THEN <<>> ELSE CanonicalOrder(plan')
  /\ fate' = [i \in DOMAIN plan' |-> "waiting"]
  /\ pc' = "acting"
  /\ UNCHANGED <<world, bel, rolling, round, qualified, retired>>

\* An action that fails takes with it what the same unit was still to do: nothing,
\* see OneOrderAUnit.
Fail(i, how) ==
  /\ fate' = [fate EXCEPT ![i] = how]
  /\ todo' = Tail(todo)
  /\ UNCHANGED <<world, pc, bel, rolling, round, active, chosenAt, plan, qualified, retired>>

Due(i) == todo # <<>> /\ i = Head(todo)
Skip(i) == Due(i) /\ ~CheckAction(rolling, Me, plan[i]) /\ Fail(i, "skipped")

\* What the boundary lets through: with qualified ids, what was just observed.
Named(a) == (IF "unit" \in DOMAIN a THEN {a.unit} ELSE {})
            \cup (IF "target" \in DOMAIN a THEN {a.target} ELSE {})
Observed == DOMAIN bel.own \cup bel.live
Dispatched(a) == qualified => Named(a) \subseteq Observed
Reject(i) ==
  /\ Due(i) /\ CheckAction(rolling, Me, plan[i])
  /\ ~(Dispatched(plan[i]) /\ CheckAction(world, Me, plan[i]))
  /\ Fail(i, "rejected")

Deterministic_AndAttack ==  \* mutant: a fight is predicted
  {"move_unit", "fortify", "found_city", "set_research", "set_city_production", "attack"}
Deterministic == {"move_unit", "fortify", "found_city", "set_research", "set_city_production"}
GivenUp_AllMissing(a, g) ==  \* mutant: every foe out of sight
  IF a.tool = "attack" THEN DOMAIN bel.foes \ ShownUnits(g) ELSE {}
GivenUp(a, g) == IF a.tool = "attack" THEN {a.target} \ ShownUnits(g) ELSE {}
Reconciled(a, g) ==
  LET seen == ObserveUnits(bel, g)
      all == IF a.tool = "purchase" THEN ObserveOverview(ObserveCities(seen, g), g) ELSE seen
  IN [all EXCEPT !.foes = Restrict(@, DOMAIN @ \ GivenUp(a, g))]

Execute(i, rolls) ==
  LET a == plan[i]
      after == ApplyAction([game |-> world, recs |-> <<>>], Me, a, rolls).game
      seen == Reconciled(a, after)
  IN /\ Due(i) /\ CheckAction(rolling, Me, a)
     /\ Dispatched(a) /\ CheckAction(world, Me, a)
     /\ a.tool # "attack" => rolls = Rolls[1]
     /\ world' = after
     /\ IF a.tool \in Deterministic
        THEN /\ rolling' = ApplyAction([game |-> rolling, recs |-> <<>>], Me, a, rolls).game
             /\ UNCHANGED <<bel, retired>>
        ELSE /\ bel' = seen /\ rolling' = BuildState(seen)
             /\ retired' = retired \cup
                  {[foe |-> f, by |-> a.unit] : f \in DOMAIN bel.foes \ DOMAIN seen.foes}
     /\ fate' = [fate EXCEPT ![i] = "executed"] /\ todo' = Tail(todo)
     /\ UNCHANGED <<pc, round, active, chosenAt, plan, qualified>>

\* The phase ends and the rival's opens; it takes one legal action or none.
RivalOpens ==
  /\ pc = "acting" /\ todo = <<>>
  /\ world' = RunAmbient([game |-> world, recs |-> <<>>], Rival).game
  /\ pc' = "rival" /\ round' = round + 1
  /\ plan' = <<>> /\ fate' = <<>> /\ retired' = {}
  /\ UNCHANGED <<bel, rolling, active, chosenAt, todo, qualified>>

RivalRests == pc = "rival" /\ pc' = "waiting" /\ UNCHANGED <<world, planVars>>

RivalActs(a) ==
  /\ pc = "rival" /\ CheckAction(world, Rival, a)
  /\ world' = ApplyAction([game |-> world, recs |-> <<>>], Rival, a, Rolls[1]).game
  /\ pc' = "waiting" /\ UNCHANGED planVars

Next ==
  \/ OpenPhase \/ LookAround
  \/ \E o \in Option : Decide(o)
  \/ \E i \in DOMAIN plan : Skip(i) \/ Reject(i) \/ \E r \in DOMAIN Rolls : Execute(i, Rolls[r])
  \/ RivalOpens \/ RivalRests \/ \E a \in Spellings(world) : RivalActs(a)

-----------------------------------------------------------------------------
\* No option compiles a plan that the graph refuses, which would end the turn with
\* an error, and none orders a unit twice; and plans that differ in the order of
\* commuting actions only are executed alike, as the module's introduction promises.
OneOrderAUnit ==
  ~Refused(plan) /\ \A i, j \in DOMAIN plan : i # j => ~SameUnit(plan[i], plan[j])
Rearranged(acts) ==
  {[i \in DOMAIN acts |-> acts[s[i]]] :
     s \in {t \in [DOMAIN acts -> DOMAIN acts] :
              /\ \A i, j \in DOMAIN acts : i # j => t[i] # t[j]
              /\ \A i, j \in DOMAIN acts :
                   i < j /\ t[j] < t[i] => t[j] \notin Preceders(acts, t[i])}}
Sequence(acts) == [n \in DOMAIN acts |-> acts[CanonicalOrder(acts)[n]]]
CommutingPlansRunAlike ==
  /\ OneOrderAUnit
  /\ Len(todo) = Len(plan) /\ Len(plan) <= 4
       => \A other \in Rearranged(plan) : Sequence(other) = Sequence(plan)

\* What the executor goes on expecting of its own units and its gold is what they
\* are: it predicts the deterministic actions exactly and looks again after the
\* others (of research and production it may fall behind: an attack's second look
\* takes in the units only).
Bare(unit) == [owner |-> unit.owner, type |-> unit.type, at |-> unit.at, mv |-> unit.mv, hp |-> unit.hp, fort |-> unit.fort]
PredictsExactly ==
  todo # <<>> =>
    /\ UnitsOf(rolling, Me) = UnitsOf(world, Me)
    /\ \A u \in UnitsOf(world, Me) : Bare(rolling.units[u]) = world.units[u]
    /\ rolling.seats[Me].gold = world.seats[Me].gold

\* A plan does what it was made for, in whatever order it was written.
PlansRunAsMeant == CommutingPlansRunAlike /\ PredictsExactly

\* A move to a tile in sight is never refused: whatever could stand in its way is
\* on a tile in sight, and so in the belief.
InSightMovesAreAccepted ==
  \A i \in DOMAIN plan : plan[i].tool = "move_unit" => fate[i] # "rejected"

\* A foe given up for dead is dead, unless the attacker fell in the same exchange.
OnlyTheDeadAreRetired ==
  \A r \in retired : r.foe \in DOMAIN world.units => r.by \notin DOMAIN world.units

\* executor.py: an attacked target absent from the fresh observation DIED.
AbsentMeansDead == \A r \in retired : r.foe \notin DOMAIN world.units
=============================================================================
