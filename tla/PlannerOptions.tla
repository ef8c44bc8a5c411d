--------------------------- MODULE PlannerOptions ---------------------------
(* The planner's eight options (planner/options.py): when each may begin,   *)
(* when it is over, and the plan it compiles for one turn.  An operator     *)
(* reads a world the planner believes in: a game of SimGame whose foreign   *)
(* units carry a confidence, conf.  Where the code breaks a tie by name the *)
(* model takes CHOOSE's.                                                    *)
EXTENDS SimGame

Option == {"expand", "develop", "defend", "rush", "scout_frontier", "tech_race", "economy",
           "fortify_line"}

OfType(w, p, type) == {u \in UnitsOf(w, p) : w.units[u].type = type}
Military(w, p) == {u \in UnitsOf(w, p) : Fights(w, u)}
Confident(w, p, floor) == {u \in DOMAIN w.units \ UnitsOf(w, p) : w.units[u].conf >= floor}
Threat(w, p, radius) ==
  \E f \in {u \in Confident(w, p, 4000) : Fights(w, u)} :
    \/ \E c \in CitiesOf(w, p) : Dist(w.cities[c].at, w.units[f].at) <= radius
    \/ \E u \in UnitsOf(w, p) : Dist(w.units[u].at, w.units[f].at) <= radius
ForeignSpots(w, p) ==
  {w.units[u].at : u \in Confident(w, p, 5000)}
  \cup {w.cities[c].at : c \in DOMAIN w.cities \ CitiesOf(w, p)}
Frontier(w, p) == Tile \ w.seats[p].known
Foundable(w) ==
  {t \in Tile : /\ w.tiles[t].owner = -1 /\ Step[w.land[t]] > 0
                /\ \A c \in DOMAIN w.cities : Dist(w.cities[c].at, t) > 2}
AllBuilt(w, p) ==
  CitiesOf(w, p) # {} /\ \A c \in CitiesOf(w, p) : DOMAIN Building \subseteq w.cities[c].buildings

MayBegin(o, w, p) ==
  CASE o = "expand" -> Cardinality(CitiesOf(w, p)) < 3
    [] o \in {"develop", "economy"} -> CitiesOf(w, p) # {}
    [] o = "defend" -> Threat(w, p, 4)
    [] o = "rush" -> Cardinality(Military(w, p)) >= 2 /\ ForeignSpots(w, p) # {}
    [] o = "scout_frontier" -> OfType(w, p, "SCOUT") # {} /\ Frontier(w, p) # {}
    [] o = "tech_race" -> TRUE
    [] o = "fortify_line" -> Military(w, p) # {}

IsOver(o, w, p) ==
  CASE o = "expand" -> Cardinality(CitiesOf(w, p)) >= 3
    [] o = "develop" -> AllBuilt(w, p)
    [] o = "defend" -> ~Threat(w, p, 6)
    [] o = "rush" -> Military(w, p) = {} \/ Confident(w, p, 5000) = {}
    [] o = "scout_frontier" -> OfType(w, p, "SCOUT") = {} \/ Frontier(w, p) = {}
    [] o = "tech_race" -> w.seats[p].researched = DOMAIN Tech
    [] o \in {"economy", "fortify_line"} -> FALSE

-----------------------------------------------------------------------------
(* The steps an option's plan is put together from.                         *)
Nearest(spots, here) == CHOOSE t \in spots : \A s \in spots : Dist(here, t) <= Dist(here, s)
Maybe(S, F(_)) == IF S = {} THEN <<>> ELSE <<F(CHOOSE x \in S : TRUE)>>
Each(S, F(_)) == FoldLeft(LAMBDA plan, x : plan \o F(x), <<>>, InOrder(S))
Planned(plan) == {plan[i].unit : i \in {j \in DOMAIN plan : "unit" \in DOMAIN plan[j]}}

\* The legal move, to a tile in sight, that most shortens the way; none if none does.
MoveToward(w, p, u, goal) ==
  LET here == w.units[u].at
      dests == IF w.units[u].mv = 0 THEN {} ELSE ReachableDests(w, u) \cap Sight(w, p)
      best == Nearest(dests, goal)
  IN IF dests = {} THEN <<>>
     ELSE IF Dist(best, goal) >= Dist(here, goal) THEN <<>> ELSE <<Move(u, best)>>

ResearchStep(w, p) ==
  IF w.seats[p].researching # "" THEN <<>> ELSE Maybe(AvailableResearch(w, p), Research)

Preferred(items, preference) ==
  LET wanted == SelectSeq(preference, LAMBDA i : i \in items)
  IN IF wanted # <<>> THEN wanted[1] ELSE CHOOSE i \in items : TRUE
ProductionStep(w, p, preference) ==
  LET Order(c) == <<Produce(c, Preferred(AvailableProduction(w, p, c), preference))>>
  IN Each({c \in CitiesOf(w, p) : w.cities[c].queue = ""}, Order)

FortifyStep(w, p, busy) ==
  Each({u \in Military(w, p) \ busy : ~w.units[u].fort}, LAMBDA u : <<Fortify(u)>>)

AttackOf(w, p, u) ==
  LET foes == {v \in DOMAIN w.units \ UnitsOf(w, p) : InRange(w, u, v)}
  IN IF w.units[u].mv = 0 \/ foes = {} THEN <<>> ELSE <<Attack(u, Min(foes))>>

Affordable(w, p, item) ==
  {c \in CitiesOf(w, p) : w.seats[p].gold >= 2 * Cost(item) /\ Buildable(w, p, c, item)}
BuildingBuy(w, p, plan, item) ==
  LET producing == {c \in CitiesOf(w, p) : w.cities[c].queue = item \/ Produce(c, item) \in Range(plan)}
      cities == Affordable(w, p, item) \ producing
  IN IF cities = {} THEN <<>> ELSE <<Purchase(Min(cities), item)>>

-----------------------------------------------------------------------------
ExpandStep(w, p) ==
  LET settlers == OfType(w, p, "SETTLER")
      founders == {u \in settlers : CanFound(w, p, u)}
      founding == IF founders = {} THEN <<>> ELSE <<Found(Min(founders))>>
      March(u) == IF Foundable(w) = {} THEN <<>>
                  ELSE MoveToward(w, p, u, Nearest(Foundable(w), w.units[u].at))
      plan == founding \o Each(settlers \ Planned(founding), March)
              \o (IF settlers = {} THEN ProductionStep(w, p, <<"SETTLER">>) ELSE <<>>)
              \o ResearchStep(w, p)
  IN plan \o FortifyStep(w, p, Planned(plan))

DevelopStep(w, p) ==
  ProductionStep(w, p, <<"MONUMENT", "GRANARY">>) \o ResearchStep(w, p) \o FortifyStep(w, p, {})

DefendStep(w, p) ==
  LET attacks == Each(Military(w, p), LAMBDA u : AttackOf(w, p, u))
      cities == Affordable(w, p, "WARRIOR")
      buy == IF w.seats[p].gold < 160 \/ cities = {} THEN <<>> ELSE <<Purchase(Min(cities), "WARRIOR")>>
  IN attacks \o ProductionStep(w, p, <<"WARRIOR">>) \o buy \o ResearchStep(w, p)
     \o FortifyStep(w, p, Planned(attacks))

RushStep(w, p) ==
  LET Charge(u) ==
        IF AttackOf(w, p, u) # <<>> THEN AttackOf(w, p, u)
        ELSE IF ForeignSpots(w, p) = {} THEN <<>>
        ELSE MoveToward(w, p, u, Nearest(ForeignSpots(w, p), w.units[u].at))
  IN Each(Military(w, p), Charge) \o ProductionStep(w, p, <<"WARRIOR">>) \o ResearchStep(w, p)

ScoutStep(w, p) ==
  LET Push(u) == IF Frontier(w, p) = {} THEN <<>>
                 ELSE MoveToward(w, p, u, Nearest(Frontier(w, p), w.units[u].at))
      moves == Each(OfType(w, p, "SCOUT"), Push)
  IN moves \o ResearchStep(w, p) \o ProductionStep(w, p, <<"MONUMENT">>)
     \o FortifyStep(w, p, Planned(moves))

TechStep(w, p) ==
  ResearchStep(w, p) \o ProductionStep(w, p, <<"MONUMENT", "GRANARY">>) \o FortifyStep(w, p, {})

EconomyStep(w, p) ==
  LET made == ProductionStep(w, p, <<"GRANARY", "MONUMENT">>)
  IN made \o (IF w.seats[p].gold >= 200 THEN BuildingBuy(w, p, made, "MONUMENT") ELSE <<>>)
     \o ResearchStep(w, p) \o FortifyStep(w, p, {})

FortifyLineStep(w, p) ==
  FortifyStep(w, p, {}) \o ResearchStep(w, p) \o ProductionStep(w, p, <<"WARRIOR">>)

CompileStep(o, w, p) ==
  CASE o = "expand" -> ExpandStep(w, p) [] o = "develop" -> DevelopStep(w, p)
    [] o = "defend" -> DefendStep(w, p) [] o = "rush" -> RushStep(w, p)
    [] o = "scout_frontier" -> ScoutStep(w, p) [] o = "tech_race" -> TechStep(w, p)
    [] o = "economy" -> EconomyStep(w, p) [] o = "fortify_line" -> FortifyLineStep(w, p)
=============================================================================
