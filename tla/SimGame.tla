------------------------------- MODULE SimGame -------------------------------
(* The simulator's rules: game/sim/state.py, rules.py, engine.py and the    *)
(* calls of simulator.py that reach them.  A game is a record of tables; an *)
(* operation maps [game, recs] to [game, recs], where recs is what it       *)
(* declares (its MutationRecords, in order).  Terrain, the unit types, the  *)
(* buildings and the techs are a part of the code's tables with the code's  *)
(* own numbers; the queue of a city is its one item or "".                  *)
EXTENDS Integers, Sequences, FiniteSets, SequencesExt, FiniteSetsExt

CONSTANTS Seat, Land, Rolls     \* the seats, the terrain of each tile, the combat rolls

Tile == DOMAIN Land
Step == [GRASSLAND |-> 1, HILL |-> 2, MOUNTAIN |-> 0]
Food == [GRASSLAND |-> 2, HILL |-> 0, MOUNTAIN |-> 0]
UnitType ==
  [SETTLER |-> [str |-> 0, rng |-> 0, mv |-> 2, cost |-> 80, needs |-> {}],
   WARRIOR |-> [str |-> 20, rng |-> 0, mv |-> 2, cost |-> 40, needs |-> {}],
   SCOUT |-> [str |-> 5, rng |-> 0, mv |-> 3, cost |-> 25, needs |-> {}],
   ARCHER |-> [str |-> 15, rng |-> 25, mv |-> 2, cost |-> 50, needs |-> {"ARCHERY"}]]
Building == [MONUMENT |-> [cost |-> 50, gold |-> 2], GRANARY |-> [cost |-> 60, gold |-> 1]]
Tech == [POTTERY |-> [cost |-> 20, prereq |-> {}], ARCHERY |-> [cost |-> 35, prereq |-> {"POTTERY"}]]

Cost(item) == IF item \in DOMAIN Building THEN Building[item].cost ELSE UnitType[item].cost
Mag(n) == IF n < 0 THEN -n ELSE n
Least(a, b) == IF a < b THEN a ELSE b
Most(a, b) == IF a > b THEN a ELSE b
Dist(a, b) == (Mag(a[1] - b[1]) + Mag(a[2] - b[2]) + Mag(a[1] - b[1] + a[2] - b[2])) \div 2
Within(center, radius) == {t \in Tile : Dist(center, t) <= radius}
InOrder(S) == SetToSortSeq(S, <)

UnitsOf(g, p) == {u \in DOMAIN g.units : g.units[u].owner = p}
CitiesOf(g, p) == {c \in DOMAIN g.cities : g.cities[c].owner = p}
EnemiesAt(g, t, p) == {u \in DOMAIN g.units : g.units[u].at = t /\ g.units[u].owner # p}
TypeOf(g, u) == UnitType[g.units[u].type]
Fights(g, u) == TypeOf(g, u).str > 0 \/ TypeOf(g, u).rng > 0
Sight(g, p) == UNION ({Within(g.units[u].at, 2) : u \in UnitsOf(g, p)}
                      \cup {Within(g.cities[c].at, 2) : c \in CitiesOf(g, p)})

-----------------------------------------------------------------------------
(* Paths: the tiles within a cost of a start, each with the costs of getting *)
(* there.  No unit moves further than Farthest.                             *)
Farthest == 3
Enterable(g, t, p) == Step[g.land[t]] > 0 /\ EnemiesAt(g, t, p) = {}
Reach(g, from, p, budget) ==
  LET open == {t \in Tile : Enterable(g, t, p)}
      Onward(r) == {<<t, r[2] + Step[g.land[t]]>> : t \in {s \in open : Dist(s, r[1]) = 1}}
      Relax(R, round) == R \cup {x \in UNION {Onward(r) : r \in R} : x[2] <= budget}
  IN FoldLeft(Relax, {<<from, 0>>}, [i \in 1..budget |-> i])

PathCost(g, from, dest, p) ==
  Min({r[2] : r \in {x \in Reach(g, from, p, Farthest) : x[1] = dest}} \cup {Farthest + 1})
ReachableDests(g, u) ==
  LET unit == g.units[u]
      reached == {r[1] : r \in Reach(g, unit.at, unit.owner, unit.mv)}
  IN IF EnemiesAt(g, unit.at, unit.owner) = {} THEN reached ELSE reached \ {unit.at}

-----------------------------------------------------------------------------
(* Legality.  An action names its tool and the arguments that the tool has. *)
CanFound(g, p, u) ==
  LET here == g.units[u].at
  IN /\ g.tiles[here].owner = -1
     /\ Step[g.land[here]] > 0
     /\ \A c \in DOMAIN g.cities : Dist(g.cities[c].at, here) > 2
     /\ EnemiesAt(g, here, p) = {}
InRange(g, u, v) ==
  LET d == Dist(g.units[u].at, g.units[v].at)
  IN IF TypeOf(g, u).rng > 0 THEN d <= 2 ELSE d = 1
AvailableResearch(g, p) ==
  {t \in DOMAIN Tech \ g.seats[p].researched : Tech[t].prereq \subseteq g.seats[p].researched}
Buildable(g, p, c, item) ==
  IF item \in DOMAIN Building THEN item \notin g.cities[c].buildings
  ELSE UnitType[item].needs \subseteq g.seats[p].researched
AvailableProduction(g, p, c) ==
  {item \in DOMAIN UnitType \cup DOMAIN Building : Buildable(g, p, c, item)}

MayMove(g, p, a) ==
  /\ a.unit \in UnitsOf(g, p)
  /\ Step[g.land[a.dest]] > 0 /\ EnemiesAt(g, a.dest, p) = {}
  /\ g.units[a.unit].mv > 0
  /\ PathCost(g, g.units[a.unit].at, a.dest, p) <= g.units[a.unit].mv
MayAttack(g, p, a) ==
  /\ a.unit \in UnitsOf(g, p) /\ a.target \in DOMAIN g.units \ UnitsOf(g, p)
  /\ g.units[a.unit].mv > 0 /\ Fights(g, a.unit) /\ InRange(g, a.unit, a.target)
MayFortify(g, p, a) == a.unit \in UnitsOf(g, p) /\ ~g.units[a.unit].fort
MayFound(g, p, a) ==
  a.unit \in UnitsOf(g, p) /\ g.units[a.unit].type = "SETTLER" /\ CanFound(g, p, a.unit)
MayResearch(g, p, a) == a.tech \in AvailableResearch(g, p) /\ g.seats[p].researching # a.tech
MayProduce(g, p, a) == a.city \in CitiesOf(g, p) /\ Buildable(g, p, a.city, a.item)
MayPurchase(g, p, a) == MayProduce(g, p, a) /\ g.seats[p].gold >= 2 * Cost(a.item)

CheckAction(g, p, a) ==
  \/ a.tool = "move_unit" /\ MayMove(g, p, a)
  \/ a.tool = "attack" /\ MayAttack(g, p, a)
  \/ a.tool = "fortify" /\ MayFortify(g, p, a)
  \/ a.tool = "found_city" /\ MayFound(g, p, a)
  \/ a.tool = "set_research" /\ MayResearch(g, p, a)
  \/ a.tool = "set_city_production" /\ MayProduce(g, p, a)
  \/ a.tool = "purchase" /\ MayPurchase(g, p, a)

Move(u, d) == [tool |-> "move_unit", unit |-> u, dest |-> d]
Attack(u, v) == [tool |-> "attack", unit |-> u, target |-> v]
Fortify(u) == [tool |-> "fortify", unit |-> u]
Found(u) == [tool |-> "found_city", unit |-> u]
Research(t) == [tool |-> "set_research", tech |-> t]
Produce(c, i) == [tool |-> "set_city_production", city |-> c, item |-> i]
Purchase(c, i) == [tool |-> "purchase", city |-> c, item |-> i]

\* Every call the tools can spell, of units and cities of any seat or none.
Spellings(g) ==
  LET U == DOMAIN g.units \cup {g.nextUnit}
      C == DOMAIN g.cities \cup {g.nextCity}
      I == DOMAIN UnitType \cup DOMAIN Building
  IN {Move(u, d) : u \in U, d \in Tile} \cup {Attack(u, v) : u \in U, v \in U}
     \cup {Fortify(u) : u \in U} \cup {Found(u) : u \in U} \cup {Research(t) : t \in DOMAIN Tech}
     \cup {Produce(c, i) : c \in C, i \in I} \cup {Purchase(c, i) : c \in C, i \in I}

LegalActions(g, p) ==
  LET U == UnitsOf(g, p)
      ready == {u \in U : g.units[u].mv > 0}
      C == CitiesOf(g, p)
      affordable(c) ==
        {i \in AvailableProduction(g, p, c) : g.seats[p].gold >= 2 * Cost(i)}
  IN UNION {{Move(u, d) : d \in ReachableDests(g, u)} : u \in ready}
     \cup UNION {{Attack(u, v) : v \in {w \in DOMAIN g.units \ U : InRange(g, u, w)}} :
                   u \in {w \in ready : Fights(g, w)}}
     \cup {Fortify(u) : u \in {w \in U : ~g.units[w].fort}}
     \cup {Found(u) : u \in {w \in U : g.units[w].type = "SETTLER" /\ CanFound(g, p, w)}}
     \cup {Research(t) : t \in AvailableResearch(g, p) \ {g.seats[p].researching}}
     \cup UNION {{Produce(c, i) : i \in AvailableProduction(g, p, c)} : c \in C}
     \cup UNION {{Purchase(c, i) : i \in affordable(c)} : c \in C}

-----------------------------------------------------------------------------
(* Effects.                                                                 *)
Quiet(x, table, id, attr, v) == [x EXCEPT !.game[table][id][attr] = v]
Put(x, table, id, attr, v) ==
  [game |-> [x.game EXCEPT ![table][id][attr] = v],
   recs |-> Append(x.recs, <<table, id, attr, x.game[table][id][attr], v>>)]
Add(x, table, id, row) ==
  [game |-> [x.game EXCEPT ![table] = [i \in DOMAIN @ \cup {id} |-> IF i = id THEN row ELSE @[i]]],
   recs |-> Append(x.recs, <<table, id, "created", 0, 1>>)]
Gone(x, u) ==
  [game |-> [x.game EXCEPT !.units = [i \in DOMAIN @ \ {u} |-> @[i]]],
   recs |-> Append(x.recs, <<"units", u, "alive", 1, 0>>)]

NewUnit(p, type, at) ==
  [owner |-> p, type |-> type, at |-> at, mv |-> UnitType[type].mv, hp |-> 100, fort |-> FALSE]
SpawnUnit(x, p, type, at) ==
  [Add(x, "units", x.game.nextUnit, NewUnit(p, type, at)) EXCEPT !.game.nextUnit = @ + 1]

Unfortify_Quietly(x, u) == Quiet(x, "units", u, "fort", FALSE)  \* mutant: no record
Unfortify(x, u) == IF x.game.units[u].fort THEN Put(x, "units", u, "fort", FALSE) ELSE x
Reveal(x, p) ==
  LET known == x.game.seats[p].known \cup Sight(x.game, p)
  IN IF known = x.game.seats[p].known THEN x ELSE Put(x, "seats", p, "known", known)

ApplyMove(x, p, a) ==
  LET unit == x.game.units[a.unit]
      cost == PathCost(x.game, unit.at, a.dest, p)
      moved == Put(Put(x, "units", a.unit, "at", a.dest), "units", a.unit, "mv", unit.mv - cost)
  IN Reveal(Unfortify(moved, a.unit), p)

Damage(atk, def, roll) ==
  (24 * Most(25, Least(400, (atk * 100) \div Most(1, def))) * (90 + roll)) \div 10000
Hit(x, u, dmg) ==
  LET hurt == Put(x, "units", u, "hp", Most(0, x.game.units[u].hp - dmg))
  IN IF hurt.game.units[u].hp = 0 THEN Gone(hurt, u) ELSE hurt

ApplyAttack(x, p, a, rolls) ==
  LET atk == TypeOf(x.game, a.unit)
      guard == TypeOf(x.game, a.target).str + IF x.game.units[a.target].fort THEN 4 ELSE 0
      spent == Unfortify(Put(x, "units", a.unit, "mv", 0), a.unit)
      struck == Hit(spent, a.target, Damage(IF atk.rng > 0 THEN atk.rng ELSE atk.str, guard, rolls[1]))
  IN IF atk.rng > 0 \/ a.target \notin DOMAIN struck.game.units THEN struck
     ELSE Hit(struck, a.unit, Damage(guard, atk.str, rolls[2]))

ApplyFound(x, p, a) ==
  LET at == x.game.units[a.unit].at
      c == x.game.nextCity
      city == [owner |-> p, at |-> at, pop |-> 1, food |-> 0, prod |-> 0, queue |-> "", buildings |-> {}]
      founded == [Add(x, "cities", c, city) EXCEPT !.game.nextCity = @ + 1]
      Claim(y, t) == [Put(y, "tiles", t, "owner", p) EXCEPT !.game.tiles[t].city = c]
      free == {t \in Within(at, 2) : x.game.tiles[t].owner = -1}
  IN Reveal(Gone(FoldLeft(Claim, founded, SetToSeq(free)), a.unit), p)

ApplyPurchase(x, p, a) ==
  LET paid == Put(x, "seats", p, "gold", x.game.seats[p].gold - 2 * Cost(a.item))
  IN IF a.item \in DOMAIN Building
     THEN Put(paid, "cities", a.city, "buildings", x.game.cities[a.city].buildings \cup {a.item})
     ELSE SpawnUnit(paid, p, a.item, x.game.cities[a.city].at)

ApplyAction(x, p, a, rolls) ==
  CASE a.tool = "move_unit" -> ApplyMove(x, p, a)
    [] a.tool = "attack" -> ApplyAttack(x, p, a, rolls)
    [] a.tool = "fortify" -> Put(x, "units", a.unit, "fort", TRUE)
    [] a.tool = "found_city" -> ApplyFound(x, p, a)
    [] a.tool = "set_research" -> Put(x, "seats", p, "researching", a.tech)
    [] a.tool = "set_city_production" -> Put(x, "cities", a.city, "queue", a.item)
    [] a.tool = "purchase" -> ApplyPurchase(x, p, a)

-----------------------------------------------------------------------------
(* The ambient batch that opens a phase.                                    *)
Heal(x, u) ==
  LET unit == x.game.units[u]
  IN IF unit.mv = TypeOf(x.game, u).mv /\ unit.hp < 100
     THEN Put(x, "units", u, "hp", Least(100, unit.hp + 10)) ELSE x
Refresh(x, u) ==
  IF x.game.units[u].mv # TypeOf(x.game, u).mv THEN Put(x, "units", u, "mv", TypeOf(x.game, u).mv) ELSE x

Feed(x, c) ==
  LET city == x.game.cities[c]
      fed == 2 + MapThenSumSet(LAMBDA t : Food[x.game.land[t]],
                                            {t \in Tile : x.game.tiles[t].city = c}) - 2 * city.pop
      cap == 7 + IF "GRANARY" \in city.buildings THEN 2 ELSE 0
      net == IF city.pop >= cap THEN Least(fed, 0) ELSE fed
      ate == Put(x, "cities", c, "food", Most(0, city.food + net))
      need == 10 + 4 * city.pop
      bucket == ate.game.cities[c].food
  IN IF bucket < need THEN ate
     ELSE Put(Put(ate, "cities", c, "pop", city.pop + 1), "cities", c, "food", bucket - need)

Complete(x, p, c) ==
  LET city == x.game.cities[c]
      made == IF city.queue \in DOMAIN Building
              THEN Put(x, "cities", c, "buildings", city.buildings \cup {city.queue})
              ELSE SpawnUnit(x, p, city.queue, city.at)
  IN Put(Put(made, "cities", c, "prod", city.prod - Cost(city.queue)), "cities", c, "queue", "")

CityTurn(x, p, c) ==
  LET grown == Feed(x, c)
      city == grown.game.cities[c]
      yield == 3 + 2 * city.pop + IF x.game.land[city.at] = "HILL" THEN 3 ELSE 0
      worked == Put(grown, "cities", c, "prod", city.prod + yield)
  IN IF city.queue = "" THEN grown
     ELSE IF city.prod + yield < Cost(city.queue) THEN worked ELSE Complete(worked, p, c)

\* The yields are those of before a city completes its item.
Income(x, p) ==
  MapThenSumSet(LAMBDA c : Feed(x, c).game.cities[c].pop
                           + MapThenSumSet(LAMBDA b : Building[b].gold, x.game.cities[c].buildings),
                CitiesOf(x.game, p))
Science(x, p) == MapThenSumSet(LAMBDA c : 2 * Feed(x, c).game.cities[c].pop, CitiesOf(x.game, p))

Earn(x, p, attr, n) == IF n = 0 THEN x ELSE Put(x, "seats", p, attr, x.game.seats[p][attr] + n)
Learn(x, p) ==
  LET me == x.game.seats[p]
  IN IF me.researching = "" \/ me.science < Tech[me.researching].cost THEN x
     ELSE Put(Put(Put(x, "seats", p, "researched", me.researched \cup {me.researching}),
                  "seats", p, "science", me.science - Tech[me.researching].cost),
              "seats", p, "researching", "")

RunAmbient(x, p) ==
  LET units == InOrder(UnitsOf(x.game, p))
      cities == InOrder(CitiesOf(x.game, p))
      rested == FoldLeft(Refresh, FoldLeft(Heal, x, units), units)
      built == FoldLeft(LAMBDA y, c : CityTurn(y, p, c), rested, cities)
  IN Learn(Earn(Earn(built, p, "science", Science(x, p)), p, "gold", Income(x, p)), p)
=============================================================================
