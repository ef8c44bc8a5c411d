---------------------------- MODULE PlannerProofs ----------------------------
(***************************************************************************)
(* What is proved of two components that MCPlanner runs beside others: the *)
(* forecasts of a strategic seat's builds, and what the planner carries    *)
(* from leg to leg of a match.  Each has an invariant of its own; a step   *)
(* of another component leaves its variables alone.                        *)
(***************************************************************************)
EXTENDS MCPlanner, SequenceTheorems, FiniteSetTheorems, WellFoundedInduction, TLAPS

-----------------------------------------------------------------------------
(* The forecasts. *)

(* The types of what is kept. *)
Reasons == {None, "threat", "rate"}
Pend == [id : Nat, item : Item, due : Nat, censored : Reasons, overdue : BOOLEAN]
Fore == [city : City, item : Item, turn : Nat, due : Nat]
Outcomes == [id : Nat, event : Builds!Terminal \cup {"overdue"}, turn : Nat, censored : Reasons]
PastType == [threats : SUBSET Nat, rates : SUBSET [city : City, turn : Nat, due : Int],
             built : SUBSET [city : City, turn : Nat]]
Cities == [mine : BOOLEAN, item : Item \cup {None}, left : Int]
ForecastsTyped ==
  /\ forecastTurn \in Nat /\ watched \in BOOLEAN /\ threat \in BOOLEAN /\ changes \in Nat
  /\ city \in [City -> Cities]
  /\ monitor \in [City -> Pend \cup {None}]
  /\ issued \in Seq(Fore)
  /\ told \subseteq Outcomes
  /\ past \in PastType
(* A pending forecast is an issued one, and is not settled: all that was told  *)
(* of it is that it is overdue, and then it knows.                             *)
Held(c) == monitor[c] # None
Plan(c) == issued[monitor[c].id]
PendingIsIssued ==
  \A c \in City : Held(c) =>
    /\ monitor[c].id \in DOMAIN issued
    /\ Plan(c).city = c /\ Plan(c).item = monitor[c].item /\ Plan(c).due = monitor[c].due
    /\ Plan(c).turn <= forecastTurn /\ (Plan(c).turn = forecastTurn => watched)
    /\ \A r \in told : r.id = monitor[c].id => r.event = "overdue" /\ monitor[c].overdue
(* Nothing of the observation to come has happened. *)
NotYet(t) == t <= forecastTurn /\ (t = forecastTurn => watched)
Dated ==
  /\ \A r \in told : NotYet(r.turn) /\ r.id \in DOMAIN issued
  /\ \A t \in past.threats : NotYet(t)
  /\ \A x \in past.rates : NotYet(x.turn)
(* Of one forecast one settlement is told and one delay, the delay before it   *)
(* unless the turn's own choice superseded the build.                          *)
Agree(r, s) ==
  r.id = s.id =>
    /\ r.event \in Builds!Terminal /\ s.event \in Builds!Terminal => r = s
    /\ r.event = "overdue" /\ s.event = "overdue" => r = s
    /\ r.event = "overdue" /\ s.event \in Builds!Terminal => r.turn < s.turn \/ (r.turn = s.turn /\ s.event = "superseded")
ToldOnce == \A r, s \in told : Agree(r, s)
(* A forecast is pending, settled, or replaced by another of the same item.    *)
Fated(id) ==
    \/ \E c \in City : Held(c) /\ monitor[c].id = id
    \/ \E r \in told : r.id = id /\ r.event \in Builds!Terminal
    \/ \E n \in DOMAIN issued : n > id /\ issued[n].city = issued[id].city /\ issued[n].item = issued[id].item
AllFated == \A id \in DOMAIN issued : Fated(id)
(* A pending forecast is censored just when something upset it since its issue. *)
Upset(f, t) ==
   \/ f.item \notin Defender /\ \E u \in past.threats : f.turn < u /\ u <= t
   \/ f.due # 0 /\ \E x \in past.rates : x.city = f.city /\ f.turn < x.turn /\ x.turn <= t /\ x.due # f.due
CensoredRight == \A c \in City : Held(c) => ((monitor[c].censored # None) <=> Upset(Plan(c), forecastTurn))
(* Without a change that nobody forecast, a city of the seat's builds the item  *)
(* that is pending, or has built it since the last look.                       *)
Undisturbed(c) ==
  /\ city[c].mine
  /\ \/ city[c].item = monitor[c].item
     \/ ~watched /\ city[c].item = None /\ [city |-> c, turn |-> forecastTurn] \in past.built
Calm == changes = 0 => \A c \in City : Held(c) => Undisturbed(c)
(* What was told of a finished build was true of its forecast at that turn.    *)
Fair(r) ==
  LET f == issued[r.id] IN
  r.event \in {"completed", "early", "in_window", "late"} =>
         /\ (r.censored # None) <=> Upset(f, r.turn)
         /\ (r.event = "in_window") <=> (f.due # 0 /\ r.turn = f.due)
         /\ [city |-> f.city, turn |-> r.turn] \in past.built \/ changes > 0
AllFair == \A r \in told : Fair(r)
ForecastsInv == ForecastsTyped /\ PendingIsIssued /\ Dated /\ ToldOnce /\ AllFated /\ CensoredRight /\ Calm /\ AllFair

(* A city that has built its item keeps its owner and builds nothing.          *)
LEMMA BuiltIsDone ==
  ASSUME NEW c \in City, city[c] \in Cities
  PROVE  Builds!Built(c) \in Cities /\ Builds!Built(c).mine = city[c].mine /\ Builds!Built(c).item = None
BY DEF Builds!Built, Cities

(* At first no forecast is pending and nothing was told. *)
LEMMA ForecastsInit == Builds!Init => ForecastsInv
<1> SUFFICES ASSUME Builds!Init PROVE ForecastsInv
  OBVIOUS
<1>1. ForecastsTyped
  <2>1. forecastTurn \in Nat /\ watched \in BOOLEAN /\ threat \in BOOLEAN /\ changes \in Nat
    BY DEF Builds!Init
  <2>2. city \in [City -> Cities]
    BY DEF Builds!Init, Cities
  <2>3. monitor \in [City -> Pend \cup {None}]
    BY DEF Builds!Init
  <2>4. issued \in Seq(Fore) /\ told \subseteq Outcomes
    BY DEF Builds!Init
  <2>5. past \in PastType
    BY DEF Builds!Init, PastType
  <2> QED BY <2>1, <2>2, <2>3, <2>4, <2>5 DEF ForecastsTyped
<1>2. \A c \in City : ~Held(c)
  BY DEF Builds!Init, Held
<1>3. issued = <<>> /\ told = {} /\ past.threats = {} /\ past.rates = {} /\ DOMAIN issued = {}
  BY DEF Builds!Init
<1> QED BY <1>1, <1>2, <1>3 DEF ForecastsInv, PendingIsIssued, Dated, ToldOnce, AllFated, CensoredRight, Calm, AllFair

(* The engine's turn: the past grows, and nothing of it is told yet. *)
LEMMA NextTurnKeeps == ForecastsInv /\ Builds!NextTurn => ForecastsInv'
<1> SUFFICES ASSUME ForecastsInv, Builds!NextTurn PROVE ForecastsInv'
  OBVIOUS
<1> USE DEF ForecastsInv
<1>0. /\ watched /\ watched' = FALSE /\ forecastTurn' = forecastTurn + 1 /\ forecastTurn \in Nat
      /\ monitor' = monitor /\ issued' = issued /\ told' = told /\ changes' = changes
      /\ past \in PastType
  BY DEF Builds!NextTurn, ForecastsTyped
<1>1. /\ past' \in PastType /\ past'.threats = past.threats /\ past'.rates = past.rates
      /\ past.built \subseteq past'.built
      /\ \A c \in City : city[c].left = 1 => [city |-> c, turn |-> forecastTurn + 1] \in past'.built
  <2> DEFINE done == {[city |-> c, turn |-> forecastTurn + 1] : c \in {d \in City : city[d].left = 1}}
  <2>1. done \subseteq [city : City, turn : Nat]
    BY <1>0
  <2>2. past' = [past EXCEPT !.built = @ \cup done]
    BY DEF Builds!NextTurn
  <2>3. \A c \in City : city[c].left = 1 => [city |-> c, turn |-> forecastTurn + 1] \in done
    OBVIOUS
  <2> HIDE DEF done
  <2> QED BY <2>1, <2>2, <2>3, <1>0 DEF PastType
<1>2. city \in [City -> Cities]
  BY DEF ForecastsTyped
<1>3. \A c \in City :
        /\ city'[c] \in Cities /\ city'[c].mine = city[c].mine
        /\ city'[c].item = city[c].item \/ (city[c].left = 1 /\ city'[c].item = None)
  <2> TAKE c \in City
  <2>1. city[c] \in Cities
    BY <1>2
  <2>2. city'[c] = IF Builds!Idle(c) THEN city[c] ELSE IF city[c].left = 1 THEN Builds!Built(c)
                             ELSE [city[c] EXCEPT !.left = @ - 1]
    BY DEF Builds!NextTurn
  <2>3. Builds!Built(c) \in Cities /\ Builds!Built(c).mine = city[c].mine /\ Builds!Built(c).item = None
    BY <2>1, BuiltIsDone
  <2>4. [city[c] EXCEPT !.left = @ - 1] \in Cities
        /\ [city[c] EXCEPT !.left = @ - 1].mine = city[c].mine
        /\ [city[c] EXCEPT !.left = @ - 1].item = city[c].item
    BY <2>1 DEF Cities
  <2> QED BY <2>1, <2>2, <2>3, <2>4
<1>4. ForecastsTyped'
  <2>1. city' \in [City -> Cities]
    <3>1. city' = [c \in City |-> IF Builds!Idle(c) THEN city[c] ELSE IF city[c].left = 1 THEN Builds!Built(c)
                             ELSE [city[c] EXCEPT !.left = @ - 1]]
      BY DEF Builds!NextTurn
    <3>2. city' = [c \in City |-> city'[c]]
      BY <3>1
    <3> QED BY <3>2, <1>3
  <2>2. threat' \in BOOLEAN
    BY DEF Builds!NextTurn
  <2>3. forecastTurn' \in Nat
    BY <1>0
  <2>5. watched' \in BOOLEAN
    BY <1>0
  <2>4. changes \in Nat /\ monitor \in [City -> Pend \cup {None}] /\ issued \in Seq(Fore) /\ told \subseteq Outcomes
    BY DEF ForecastsTyped
  <2> QED BY <2>1, <2>2, <2>3, <2>4, <2>5, <1>0, <1>1 DEF ForecastsTyped
<1>5. \A t \in Nat : NotYet(t) => NotYet(t)'
  BY <1>0 DEF NotYet
<1>6. \A c \in City : (Held(c))' <=> Held(c)
  BY <1>0 DEF Held
<1>7. PendingIsIssued' /\ Dated'
  <2>1. \A c \in City : Held(c) => monitor[c].id \in DOMAIN issued /\ Plan(c) \in Fore
    BY DEF PendingIsIssued, Plan, ForecastsTyped
  <2>2. \A c \in City : Held(c) => Plan(c).turn \in Nat
    BY <2>1 DEF Fore
  <2>3. PendingIsIssued'
    BY <2>2, <1>0, <1>6 DEF PendingIsIssued, Plan
  <2>4. (\A r \in told : r.turn \in Nat) /\ (\A x \in past.rates : x.turn \in Nat) /\ past.threats \subseteq Nat
    BY DEF ForecastsTyped, Outcomes, PastType
  <2>5. Dated'
    BY <2>4, <1>0, <1>1, <1>5 DEF Dated
  <2> QED BY <2>3, <2>5
<1>8. ToldOnce' /\ AllFated'
  BY <1>0, <1>6 DEF ToldOnce, AllFated, Fated, Agree, Held
<1>9. \A f : Upset(f, forecastTurn)' <=> Upset(f, forecastTurn)
  <2>1. \A t \in past.threats : t \in Nat /\ t <= forecastTurn
    BY DEF ForecastsTyped, PastType, Dated, NotYet
  <2>2. \A x \in past.rates : x.turn \in Nat /\ x.turn <= forecastTurn
    BY DEF ForecastsTyped, PastType, Dated, NotYet
  <2>3. \A t \in past.threats : t <= forecastTurn + 1
    BY <2>1, <1>0
  <2>4. \A x \in past.rates : x.turn <= forecastTurn + 1
    BY <2>2, <1>0
  <2> QED BY <2>1, <2>2, <2>3, <2>4, <1>0, <1>1 DEF Upset
<1>10. CensoredRight'
  BY <1>0, <1>6, <1>9 DEF CensoredRight, Plan
<1>11. Calm'
  <2> SUFFICES ASSUME changes = 0, NEW c \in City, Held(c) PROVE Undisturbed(c)'
    BY <1>0, <1>6 DEF Calm
  <2>1. city[c].mine /\ city[c].item = monitor[c].item
    BY <1>0 DEF Calm, Undisturbed
  <2> QED BY <2>1, <1>0, <1>1, <1>3 DEF Undisturbed
<1>12. AllFair'
  BY <1>0, <1>1 DEF AllFair, Fair, Upset
<1> QED BY <1>4, <1>7, <1>8, <1>10, <1>11, <1>12

(* A change that nobody forecast disturbs a city and tells nothing. *)
LEMMA ChangeKeeps == \A c \in City : ForecastsInv /\ Builds!Change(c) => ForecastsInv'
<1> SUFFICES ASSUME NEW c \in City, ForecastsInv, Builds!Change(c) PROVE ForecastsInv'
  OBVIOUS
<1> USE DEF ForecastsInv
<1>0. /\ forecastTurn' = forecastTurn /\ watched' = watched /\ threat' = threat /\ past' = past
      /\ monitor' = monitor /\ issued' = issued /\ told' = told
      /\ changes' = changes + 1 /\ changes \in Nat
  BY DEF Builds!Change, ForecastsTyped
<1>1. city' \in [City -> Cities]
  <2>0. city \in [City -> Cities] /\ city[c] \in Cities
    BY DEF ForecastsTyped
  <2>1. Builds!Built(c) \in Cities
    BY <2>0, BuiltIsDone
  <2>2. ASSUME NEW n \in 1..(MaxLeft + 1), city' = [city EXCEPT ![c].left = n]
        PROVE  city' \in [City -> Cities]
    <3>1. n \in Int
      BY ForecastAssumption
    <3>2. [city[c] EXCEPT !.left = n] \in Cities
      BY <3>1, <2>0 DEF Cities
    <3> QED BY <3>2, <2>2, <2>0
  <2>3. ASSUME city' = [city EXCEPT ![c] = [Builds!Built(c) EXCEPT !.mine = FALSE]]
        PROVE  city' \in [City -> Cities]
    <3>1. [Builds!Built(c) EXCEPT !.mine = FALSE] \in Cities
      BY <2>1 DEF Cities
    <3> QED BY <3>1, <2>3, <2>0
  <2>4. ASSUME NEW i \in Item, city' = [city EXCEPT ![c].item = i]
        PROVE  city' \in [City -> Cities]
    <3>1. [city[c] EXCEPT !.item = i] \in Cities
      BY <2>0 DEF Cities
    <3> QED BY <3>1, <2>4, <2>0
  <2>5. ASSUME city' = [city EXCEPT ![c] = Builds!Built(c)]
        PROVE  city' \in [City -> Cities]
    BY <2>5, <2>1, <2>0
  <2> QED BY <2>2, <2>3, <2>4, <2>5 DEF Builds!Change
<1>2. ForecastsTyped'
  BY <1>0, <1>1 DEF ForecastsTyped
<1>3. Calm'
  BY <1>0 DEF Calm
<1>4. \A d \in City : (Held(d))' <=> Held(d)
  BY <1>0 DEF Held
<1>5. PendingIsIssued' /\ Dated'
  BY <1>0, <1>4 DEF PendingIsIssued, Plan, Dated, NotYet
<1>6. ToldOnce' /\ AllFated' /\ CensoredRight'
  BY <1>0, <1>4 DEF ToldOnce, AllFated, Fated, Agree, CensoredRight, Upset, Plan
<1>7. AllFair'
  <2>1. changes' > 0
    BY <1>0
  <2> QED BY <2>1, <1>0 DEF AllFair, Fair, Upset
<1> QED BY <1>2, <1>3, <1>5, <1>6, <1>7

(* A production choice: the forecast it issues takes the place of the city's    *)
(* pending one, which is superseded when it was of another item.               *)
LEMMA ProduceKeeps == \A c \in City : ForecastsInv /\ Builds!Produce(c) => ForecastsInv'
<1> SUFFICES ASSUME NEW c \in City, ForecastsInv, Builds!Produce(c) PROVE ForecastsInv'
  OBVIOUS
<1> USE DEF ForecastsInv
<1>1. PICK i \in Item, n \in 1..MaxLeft, known \in BOOLEAN :
        /\ city' = [city EXCEPT ![c] = [mine |-> TRUE, item |-> i, left |-> n]]
        /\ Builds!Registered(c, [city |-> c, item |-> i, turn |-> forecastTurn,
                          due |-> IF known THEN forecastTurn + n ELSE 0])
  BY DEF Builds!Produce
<1> DEFINE due == IF known THEN forecastTurn + n ELSE 0
           f == [city |-> c, item |-> i, turn |-> forecastTurn, due |-> due]
           new == Len(issued) + 1
           pend == [id |-> new, item |-> i, due |-> due, censored |-> None, overdue |-> FALSE]
           over == [id |-> monitor[c].id, event |-> "superseded", turn |-> forecastTurn, censored |-> None]
<1>2. /\ watched /\ forecastTurn' = forecastTurn /\ watched' = watched /\ threat' = threat
      /\ changes' = changes /\ past' = past /\ city[c].mine
  BY DEF Builds!Produce
<1>3. /\ forecastTurn \in Nat /\ issued \in Seq(Fore) /\ city \in [City -> Cities]
      /\ monitor \in [City -> Pend \cup {None}] /\ told \subseteq Outcomes /\ Len(issued) \in Nat
      /\ DOMAIN issued = 1..Len(issued)
  BY DEF ForecastsTyped
<1>4. n \in Int /\ due \in Nat
  BY <1>3, ForecastAssumption
<1>5. monitor' = [monitor EXCEPT ![c] = pend] /\ issued' = Append(issued, f)
  BY <1>1 DEF Builds!Registered
<1>6. told' = IF Held(c) /\ monitor[c].item # i THEN told \cup {over} ELSE told
  <2>1. [Builds!Outcome(monitor[c], "superseded") EXCEPT !.censored = None] = over
    BY DEF Builds!Outcome
  <2> QED BY <1>1, <2>1 DEF Builds!Registered, Held
<1>7. city'[c] = [mine |-> TRUE, item |-> i, left |-> n]
  BY <1>1, <1>3
<1>8. \A d \in City \ {c} : city'[d] = city[d] /\ monitor'[d] = monitor[d]
  BY <1>1, <1>5, <1>3
<1> HIDE DEF due
<1>9. f \in Fore /\ pend \in Pend /\ pend # None
  <2>1. f \in Fore
    BY <1>3, <1>4 DEF Fore
  <2>2. pend \in Pend
    BY <1>3, <1>4 DEF Pend, Reasons
  <2> QED BY <2>1, <2>2, ForecastAssumption DEF Pend, Reasons
<1>10. /\ issued' \in Seq(Fore) /\ Len(issued') = new /\ issued'[new] = f
       /\ \A k \in DOMAIN issued : issued'[k] = issued[k]
       /\ DOMAIN issued' = DOMAIN issued \cup {new} /\ new \notin DOMAIN issued
       /\ \A k \in DOMAIN issued : k < new
  BY <1>3, <1>5, <1>9
<1>11. monitor'[c] = pend
  BY <1>3, <1>5
<1> HIDE DEF f, pend, new, over
<1>12. Held(c) => monitor[c] \in Pend /\ monitor[c].id \in DOMAIN issued /\ Plan(c).city = c /\ Plan(c).item = monitor[c].item
  BY <1>3 DEF PendingIsIssued, Held
<1>13. /\ over.id = monitor[c].id /\ over.event = "superseded" /\ over.turn = forecastTurn
       /\ (Held(c) => over \in Outcomes)
  <2>1. Held(c) => monitor[c].id \in Nat
    BY <1>12 DEF Pend
  <2> QED BY <2>1, <1>3 DEF over, Outcomes, Builds!Terminal, Reasons
<1>14. pend.id = new /\ pend.item = i /\ pend.due = due /\ pend.censored = None /\ pend.overdue = FALSE
  BY DEF pend
<1>15. f.city = c /\ f.item = i /\ f.due = due /\ f.turn = forecastTurn
  BY DEF f
<1>16. ForecastsTyped'
  <2>1. city' \in [City -> Cities]
    <3>1. [mine |-> TRUE, item |-> i, left |-> n] \in Cities
      BY <1>4 DEF Cities
    <3> QED BY <3>1, <1>1, <1>3
  <2>2. monitor' \in [City -> Pend \cup {None}]
    BY <1>3, <1>5, <1>9
  <2>3. told' \subseteq Outcomes
    BY <1>3, <1>6, <1>13
  <2> QED BY <2>1, <2>2, <2>3, <1>2, <1>10 DEF ForecastsTyped
<1>17. (Held(c))' /\ \A d \in City \ {c} : ((Held(d))' <=> Held(d)) /\ (Held(d) => (Plan(d))' = Plan(d))
  <2>1. (Held(c))'
    BY <1>9, <1>11 DEF Held
  <2>2. \A d \in City \ {c} : (Held(d))' <=> Held(d)
    BY <1>8 DEF Held
  <2>3. \A d \in City \ {c} : Held(d) => (Plan(d))' = Plan(d)
    BY <1>8, <1>10 DEF Plan, PendingIsIssued
  <2> QED BY <2>1, <2>2, <2>3
<1>18. (Plan(c))' = f
  BY <1>10, <1>11, <1>14 DEF Plan
<1>19. \A r \in told' : r \in told \/ (r = over /\ Held(c) /\ monitor[c].item # i)
  BY <1>6
<1>20. \A r \in told : r.id \in DOMAIN issued /\ NotYet(r.turn) /\ r.turn \in Nat
  BY <1>3 DEF Dated, Outcomes
<1>21. PendingIsIssued'
  <2>1. \A r \in told' : r.id # new
    BY <1>19, <1>20, <1>10, <1>12, <1>13
  <2>2. ASSUME NEW d \in City \ {c}, Held(d), NEW r \in told', r.id = monitor[d].id
        PROVE  r.event = "overdue" /\ monitor[d].overdue
    <3>1. r \in told
      BY <2>2, <1>19, <1>12, <1>13 DEF PendingIsIssued, Plan
    <3> QED BY <3>1, <2>2 DEF PendingIsIssued
  <2>3. ASSUME NEW d \in City \ {c}, Held(d)
        PROVE  /\ monitor[d].id \in DOMAIN issued'
               /\ Plan(d)'.city = d /\ Plan(d)'.item = monitor[d].item /\ Plan(d)'.due = monitor[d].due
               /\ Plan(d)'.turn <= forecastTurn /\ (Plan(d)'.turn = forecastTurn => watched)
    BY <2>3, <1>17, <1>10 DEF PendingIsIssued
  <2>4. /\ monitor'[c].id \in DOMAIN issued'
        /\ Plan(c)'.city = c /\ Plan(c)'.item = monitor'[c].item /\ Plan(c)'.due = monitor'[c].due
        /\ Plan(c)'.turn <= forecastTurn /\ (Plan(c)'.turn = forecastTurn => watched)
        /\ \A r \in told' : r.id # monitor'[c].id
    BY <2>1, <1>10, <1>11, <1>14, <1>15, <1>18, <1>2, <1>3
  <2> QED BY <2>2, <2>3, <2>4, <1>2, <1>8, <1>17 DEF PendingIsIssued
<1>22. NotYet(forecastTurn) /\ \A t : (NotYet(t))' <=> NotYet(t)
  BY <1>2, <1>3 DEF NotYet
<1>23. Dated'
  <2>1. \A r \in told' : NotYet(r.turn) /\ r.id \in DOMAIN issued'
    BY <1>10, <1>12, <1>13, <1>19, <1>20, <1>22
  <2> QED BY <2>1, <1>2, <1>22 DEF Dated
<1>24. ToldOnce'
  <2>1. Agree(over, over)
    BY <1>13 DEF Agree, Builds!Terminal
  <2>2. ASSUME NEW r \in told, Held(c) PROVE Agree(r, over) /\ Agree(over, r)
    <3>1. r.id = monitor[c].id => r.event = "overdue" /\ r.turn <= forecastTurn
      BY <2>2, <1>20 DEF PendingIsIssued, NotYet
    <3>2. (r.turn <= forecastTurn) => (r.turn < forecastTurn \/ r.turn = forecastTurn)
      BY <1>20, <1>3
    <3> QED BY <3>1, <3>2, <1>13 DEF Agree, Builds!Terminal
  <2>3. \A r, s \in told' : Agree(r, s)
    BY <2>1, <2>2, <1>19 DEF ToldOnce
  <2> QED BY <2>3 DEF ToldOnce, Agree
<1>25. AllFated'
  <2>1. told \subseteq told'
    BY <1>6
  <2>2. ASSUME NEW id \in DOMAIN issued PROVE (Fated(id))'
    <3>1. CASE \E d \in City \ {c} : Held(d) /\ monitor[d].id = id
      BY <3>1, <1>8, <1>17 DEF Fated
    <3>2. CASE Held(c) /\ monitor[c].id = id
      <4>1. CASE monitor[c].item = i
        <5>1. issued'[new].city = issued'[id].city /\ issued'[new].item = issued'[id].item /\ new > id /\ new \in DOMAIN issued'
          BY <4>1, <3>2, <1>10, <1>12, <1>15, <1>3 DEF Plan
        <5> QED BY <5>1 DEF Fated
      <4>2. CASE monitor[c].item # i
        BY <4>2, <3>2, <1>6, <1>13 DEF Fated, Builds!Terminal
      <4> QED BY <4>1, <4>2
    <3>3. CASE \E r \in told : r.id = id /\ r.event \in Builds!Terminal
      BY <3>3, <2>1 DEF Fated
    <3>4. CASE \E k \in DOMAIN issued : k > id /\ issued[k].city = issued[id].city /\ issued[k].item = issued[id].item
      BY <3>4, <1>10 DEF Fated
    <3> QED BY <3>1, <3>2, <3>3, <3>4 DEF AllFated, Fated
  <2>3. \A id : id = new => (Fated(id))'
    BY <1>11, <1>14, <1>17 DEF Fated
  <2> QED BY <2>2, <2>3, <1>10 DEF AllFated
<1>26. CensoredRight'
  <2>1. ~Upset(f, forecastTurn)
    <3>1. \A u \in past.threats : u \in Nat
      BY DEF ForecastsTyped, PastType
    <3>2. \A x \in past.rates : x.turn \in Nat
      BY DEF ForecastsTyped, PastType
    <3> QED BY <3>1, <3>2, <1>3, <1>15 DEF Upset
  <2>2. \A g : Upset(g, forecastTurn)' <=> Upset(g, forecastTurn)
    BY <1>2 DEF Upset
  <2> QED BY <2>1, <2>2, <1>2, <1>8, <1>11, <1>14, <1>17, <1>18 DEF CensoredRight
<1>27. Calm'
  <2>1. (Undisturbed(c))'
    BY <1>7, <1>11, <1>14 DEF Undisturbed
  <2>2. \A d \in City \ {c} : Undisturbed(d) => (Undisturbed(d))'
    BY <1>2, <1>8 DEF Undisturbed
  <2> QED BY <2>1, <2>2, <1>2, <1>17 DEF Calm
<1>28. AllFair'
  <2>1. ASSUME NEW r \in told PROVE (Fair(r))'
    <3>1. issued'[r.id] = issued[r.id]
      BY <1>10, <1>20
    <3> QED BY <3>1, <1>2 DEF AllFair, Fair, Upset
  <2>2. \A r : r.event = "superseded" => (Fair(r))'
    BY DEF Fair
  <2>3. \A r \in told' : r \in told \/ r.event = "superseded"
    BY <1>13, <1>19
  <2> QED BY <2>1, <2>2, <2>3 DEF AllFair
<1> QED BY <1>16, <1>21, <1>23, <1>24, <1>25, <1>26, <1>27, <1>28

(* What a look says of a pending forecast. *)
(* What a look at the queue can say of a pending forecast. *)
LEMMA EventIs ==
  ASSUME NEW c \in City, ForecastsTyped, Held(c)
  PROVE  /\ Builds!Event(c) \in (Builds!Terminal \ {"superseded"}) \cup {"overdue", "none"}
         /\ Builds!Event(c) \in {"completed", "early", "in_window", "late"} => city[c].mine /\ city[c].item = None
         /\ Builds!Event(c) \in {"completed", "early", "in_window", "late"} =>
              ((Builds!Event(c) = "in_window") <=> (monitor[c].due # 0 /\ forecastTurn = monitor[c].due))
         /\ Builds!Event(c) = "overdue" => ~monitor[c].overdue
         /\ Builds!Event(c) \in {"overdue", "none"} => city[c].mine /\ city[c].item = monitor[c].item
<1>1. monitor[c].item # None /\ monitor[c].due \in Nat /\ forecastTurn \in Nat /\ city[c].mine \in BOOLEAN
  BY ForecastAssumption DEF ForecastsTyped, Held, Pend, Cities
<1> DEFINE p == monitor[c]
           k == city[c]
<1>2. CASE ~k.mine
  <2>1. Builds!Event(c) = "unobserved"
    BY <1>2 DEF Builds!Event
  <2> QED BY <2>1 DEF Builds!Terminal
<1>3. CASE k.mine /\ k.item = p.item
  <2>1. Builds!Event(c) = IF p.due # 0 /\ forecastTurn > p.due /\ ~p.overdue THEN "overdue" ELSE "none"
    BY <1>3, <1>1 DEF Builds!Event, Builds!Idle
  <2> QED BY <2>1, <1>3 DEF Builds!Terminal
<1>4. CASE k.mine /\ k.item \notin {p.item, None}
  <2>1. Builds!Event(c) = "queue_changed"
    BY <1>4 DEF Builds!Event, Builds!Idle
  <2> QED BY <2>1 DEF Builds!Terminal
<1>5. CASE k.mine /\ k.item = None
  <2>1. Builds!Event(c) = IF p.due = 0 THEN "completed" ELSE IF forecastTurn < p.due THEN "early"
                   ELSE IF forecastTurn = p.due THEN "in_window" ELSE "late"
    BY <1>5, <1>1 DEF Builds!Event, Builds!Idle
  <2>2. Builds!Event(c) \in {"completed", "early", "in_window", "late"}
    BY <2>1
  <2>3. (Builds!Event(c) = "in_window") <=> (p.due # 0 /\ forecastTurn = p.due)
    BY <2>1, <1>1
  <2> QED BY <2>2, <2>3, <1>5 DEF Builds!Terminal
<1> QED BY <1>1, <1>2, <1>3, <1>4, <1>5

(* What a look makes of the reason a pending forecast is censored for. *)
LEMMA CensoredIs ==
  ASSUME NEW c \in City, NEW rows, ForecastsTyped, Held(c)
  PROVE  /\ Builds!Censored(c, c \in rows) \in Reasons
         /\ (Builds!Censored(c, c \in rows) # None) <=>
               \/ monitor[c].censored # None
               \/ Builds!Threats /\ monitor[c].item \notin Defender
               \/ /\ city[c].mine /\ c \in rows /\ city[c].item = monitor[c].item
                  /\ monitor[c].due # 0 /\ forecastTurn + city[c].left # monitor[c].due
<1>1. monitor[c].censored \in Reasons
  BY DEF ForecastsTyped, Held, Pend
<1>2. None # "threat" /\ None # "rate"
  BY ForecastAssumption
<1> QED BY <1>1, <1>2 DEF Builds!Censored, Reasons, Builds!OnTime

(* The observation at the opening of a turn: every pending forecast is settled,  *)
(* told to be overdue, or kept with what the look showed of it.                *)
LEMMA ObserveKeeps == ForecastsInv /\ Builds!Observe => ForecastsInv'
<1> SUFFICES ASSUME ForecastsInv, Builds!Observe PROVE ForecastsInv'
  OBVIOUS
<1> USE DEF ForecastsInv
<1> DEFINE Mine == {c \in Builds!Pending : city[c].mine}
           Says == {c \in Builds!Pending : Builds!Event(c) # "none"}
           Seen(c, rows) == [monitor[c] EXCEPT !.censored = Builds!Censored(c, c \in rows)]
           Out(c, rows) == Builds!Outcome(Seen(c, rows), Builds!Event(c))
           Rate(c) == [city |-> c, turn |-> forecastTurn, due |-> forecastTurn + city[c].left]
           Threatened == IF Builds!Threats THEN {forecastTurn} ELSE {}
           Rates(rows) == {Rate(c) : c \in {d \in rows : city[d].item = monitor[d].item}}
<1>1. PICK rows \in SUBSET Mine :
        /\ told' = told \cup {Out(c, rows) : c \in Says}
        /\ monitor' = [c \in City |->
              IF c \notin Builds!Pending \/ (c \in Says /\ Builds!Event(c) \in Builds!Terminal) THEN None
              ELSE [Seen(c, rows) EXCEPT !.overdue = @ \/ c \in Says]]
        /\ past' = [built |-> past.built, threats |-> past.threats \cup Threatened,
                    rates |-> past.rates \cup Rates(rows)]
  <2> DEFINE Seens(rows) == [c \in Builds!Pending |-> [monitor[c] EXCEPT !.censored = Builds!Censored(c, c \in rows)]]
  <2>1. PICK rows \in SUBSET Mine :
        /\ told' = told \cup {[d \in Says |-> Builds!Outcome(Seens(rows)[d], Builds!Event(d))][c] : c \in Says}
        /\ monitor' = [c \in City |->
              IF c \notin Builds!Pending \/ (c \in Says /\ Builds!Event(c) \in Builds!Terminal) THEN None
              ELSE [Seens(rows)[c] EXCEPT !.overdue = @ \/ c \in Says]]
        /\ past' = [built |-> past.built, threats |-> past.threats \cup Threatened,
                    rates |-> past.rates \cup Rates(rows)]
    BY DEF Builds!Observe
  <2>2. \A c \in Builds!Pending : Seens(rows)[c] = Seen(c, rows)
    OBVIOUS
  <2>3. {[d \in Says |-> Builds!Outcome(Seens(rows)[d], Builds!Event(d))][c] : c \in Says} = {Out(c, rows) : c \in Says}
    BY <2>2
  <2>4. [c \in City |->
              IF c \notin Builds!Pending \/ (c \in Says /\ Builds!Event(c) \in Builds!Terminal) THEN None
              ELSE [Seens(rows)[c] EXCEPT !.overdue = @ \/ c \in Says]]
        = [c \in City |->
              IF c \notin Builds!Pending \/ (c \in Says /\ Builds!Event(c) \in Builds!Terminal) THEN None
              ELSE [Seen(c, rows) EXCEPT !.overdue = @ \/ c \in Says]]
    BY <2>2
  <2> QED BY <2>1, <2>3, <2>4
<1>2. /\ ~watched /\ watched' = TRUE /\ forecastTurn' = forecastTurn /\ city' = city /\ threat' = threat
      /\ changes' = changes /\ issued' = issued
  BY DEF Builds!Observe
<1>3. /\ forecastTurn \in Nat /\ city \in [City -> Cities] /\ monitor \in [City -> Pend \cup {None}]
      /\ told \subseteq Outcomes /\ past \in PastType /\ issued \in Seq(Fore)
  BY DEF ForecastsTyped
<1> DEFINE Keeps(c) == Held(c) /\ Builds!Event(c) \in {"overdue", "none"}
           Mark(c) == Builds!Censored(c, c \in rows)
<1>4. \A c \in City : Held(c) <=> c \in Builds!Pending
  BY DEF Held, Builds!Pending
<1>5. ASSUME NEW c \in City, Held(c)
      PROVE  /\ monitor[c] \in Pend /\ monitor[c].id \in DOMAIN issued /\ monitor[c].id \in Nat
             /\ Plan(c) \in Fore /\ Plan(c).turn < forecastTurn /\ Plan(c).turn \in Nat
             /\ Mark(c) \in Reasons
  <2>1. monitor[c] \in Pend
    BY <1>3, <1>5 DEF Held
  <2>2. monitor[c].id \in DOMAIN issued
    BY <1>5 DEF PendingIsIssued
  <2>3. Plan(c) \in Fore
    BY <2>2, <1>3 DEF Plan
  <2>4. Plan(c).turn \in Nat
    BY <2>3 DEF Fore
  <2>5. Plan(c).turn < forecastTurn
    BY <2>4, <1>2, <1>3, <1>5 DEF PendingIsIssued
  <2>6. Mark(c) \in Reasons
    BY <1>5, CensoredIs
  <2> QED BY <2>1, <2>2, <2>3, <2>4, <2>5, <2>6 DEF Pend
<1>6. ASSUME NEW c \in City, Held(c)
      PROVE  Out(c, rows) = [id |-> monitor[c].id, event |-> Builds!Event(c), turn |-> forecastTurn, censored |-> Mark(c)]
  <2>1. monitor[c] \in Pend
    BY <1>5, <1>6
  <2>2. Seen(c, rows).id = monitor[c].id /\ Seen(c, rows).censored = Mark(c)
    BY <2>1 DEF Pend
  <2> HIDE DEF Seen, Mark
  <2> QED BY <2>2 DEF Builds!Outcome
<1>7. ASSUME NEW c \in City
      PROVE  /\ (Held(c))' <=> Keeps(c)
             /\ Keeps(c) => /\ monitor'[c] \in Pend
                           /\ monitor'[c].id = monitor[c].id /\ monitor'[c].item = monitor[c].item
                           /\ monitor'[c].due = monitor[c].due /\ monitor'[c].censored = Mark(c)
                           /\ (monitor[c].overdue \/ Builds!Event(c) = "overdue" => monitor'[c].overdue)
             /\ ~Keeps(c) => monitor'[c] = None
  <2>1. monitor'[c] = IF c \notin Builds!Pending \/ (c \in Says /\ Builds!Event(c) \in Builds!Terminal) THEN None
              ELSE [Seen(c, rows) EXCEPT !.overdue = @ \/ c \in Says]
    BY <1>1
  <2>2. CASE ~Held(c)
    BY <2>1, <2>2, <1>4 DEF Held
  <2>3. CASE Held(c) /\ Builds!Event(c) \in Builds!Terminal
    <3>1. Builds!Event(c) \notin {"overdue", "none"}
      BY <2>3 DEF Builds!Terminal
    <3>2. monitor'[c] = None
      BY <2>1, <2>3, <3>1, <1>4
    <3> QED BY <3>1, <3>2 DEF Held
  <2>4. CASE Held(c) /\ Builds!Event(c) \notin Builds!Terminal
    <3>1. Builds!Event(c) \in {"overdue", "none"}
      BY <2>4, <1>3, EventIs DEF ForecastsInv
    <3>2. monitor'[c] = [Seen(c, rows) EXCEPT !.overdue = @ \/ c \in Says]
      BY <2>1, <2>4, <1>4
    <3>3. Seen(c, rows) \in Pend /\ Seen(c, rows).id = monitor[c].id /\ Seen(c, rows).item = monitor[c].item
          /\ Seen(c, rows).due = monitor[c].due /\ Seen(c, rows).censored = Mark(c)
          /\ Seen(c, rows).overdue = monitor[c].overdue
      <4>1. monitor[c] \in Pend /\ Mark(c) \in Reasons
        BY <1>5, <2>4
      <4> HIDE DEF Mark
      <4>2. Seen(c, rows) = [monitor[c] EXCEPT !.censored = Mark(c)]
        BY DEF Mark
      <4> QED BY <4>1, <4>2 DEF Pend
    <3> HIDE DEF Seen, Mark
    <3>4. [Seen(c, rows) EXCEPT !.overdue = @ \/ c \in Says] \in Pend
      BY <3>3 DEF Pend
    <3>5. monitor'[c].id = monitor[c].id /\ monitor'[c].item = monitor[c].item
          /\ monitor'[c].due = monitor[c].due /\ monitor'[c].censored = Mark(c)
      BY <3>2, <3>3 DEF Pend
    <3>6. monitor'[c].overdue <=> (monitor[c].overdue \/ c \in Says)
      BY <3>2, <3>3 DEF Pend
    <3>7. Builds!Event(c) = "overdue" => c \in Says
      BY <1>4, <2>4
    <3>8. monitor'[c] \in Pend /\ monitor'[c] # None
      BY <3>2, <3>4, ForecastAssumption DEF Pend, Reasons
    <3> QED BY <3>1, <3>5, <3>6, <3>7, <3>8, <2>4 DEF Held
  <2> QED BY <2>2, <2>3, <2>4
<1> HIDE DEF Mark, Seen
<1>8. /\ past'.built = past.built
      /\ \A t : t \in past'.threats <=> t \in past.threats \/ (Builds!Threats /\ t = forecastTurn)
      /\ \A x : x \in past'.rates <=> x \in past.rates \/ \E c \in rows : city[c].item = monitor[c].item /\ x = Rate(c)
  BY <1>1
<1>9. \A r : r \in told' <=> r \in told \/ \E c \in Says : r = Out(c, rows)
  BY <1>1
<1>10. \A c \in Says : c \in City /\ Held(c) /\ Builds!Event(c) # "none"
  BY <1>4 DEF Builds!Pending
<1>11. \A c \in rows : c \in City /\ Held(c) /\ city[c].mine
  BY <1>4 DEF Builds!Pending
<1> HIDE DEF Out, Rate, Rates, Threatened, Mine, Says
<1>12. \A c \in Says : /\ Out(c, rows).id = monitor[c].id /\ Out(c, rows).event = Builds!Event(c)
                       /\ Out(c, rows).turn = forecastTurn /\ Out(c, rows).censored = Mark(c)
  BY <1>6, <1>10
<1>13. \A c : /\ Rate(c).city = c /\ Rate(c).turn = forecastTurn /\ Rate(c).due = forecastTurn + city[c].left
  BY DEF Rate
<1>14. ForecastsTyped'
  <2>1. monitor' \in [City -> Pend \cup {None}]
    <3>1. monitor' = [c \in City |-> monitor'[c]]
      BY <1>1
    <3> QED BY <3>1, <1>7
  <2>2. told' \subseteq Outcomes
    <3>1. \A c \in Says : Out(c, rows) \in Outcomes
      <4> TAKE c \in Says
      <4>1. Builds!Event(c) \in Builds!Terminal \cup {"overdue"}
        BY <1>3, <1>10, EventIs DEF ForecastsInv
      <4>2. monitor[c].id \in Nat /\ Mark(c) \in Reasons
        BY <1>5, <1>10
      <4> QED BY <4>1, <4>2, <1>3, <1>6, <1>10 DEF Outcomes
    <3> QED BY <3>1, <1>3, <1>9
  <2>3. past' \in PastType
    <3>1. Threatened \subseteq Nat
      BY <1>3 DEF Threatened
    <3>2. Rates(rows) \subseteq [city : City, turn : Nat, due : Int]
      <4>1. \A c \in City : city[c].left \in Int
        BY <1>3 DEF Cities
      <4>2. \A c \in rows : Rate(c) \in [city : City, turn : Nat, due : Int]
        BY <4>1, <1>3, <1>11 DEF Rate
      <4> QED BY <4>2 DEF Rates
    <3> QED BY <3>1, <3>2, <1>1, <1>3 DEF PastType
  <2>4. watched' \in BOOLEAN
    BY <1>2
  <2>5. threat' \in BOOLEAN /\ changes' \in Nat
    BY <1>2 DEF ForecastsTyped
  <2> QED BY <2>1, <2>2, <2>3, <2>4, <2>5, <1>2, <1>3 DEF ForecastsTyped
<1>15. \A r \in told : r.id \in DOMAIN issued /\ r.turn \in Nat /\ r.turn < forecastTurn
  BY <1>2, <1>3 DEF Dated, NotYet, Outcomes
<1>16. \A t : (NotYet(t))' <=> t <= forecastTurn
  BY <1>2 DEF NotYet
<1>17. \A c, d \in City : Held(c) /\ Held(d) /\ monitor[c].id = monitor[d].id => c = d
  BY DEF PendingIsIssued, Plan
<1>18. \A c \in City : Keeps(c) => (Plan(c))' = Plan(c)
  BY <1>2, <1>7 DEF Plan
<1>19. PendingIsIssued'
  <2> SUFFICES ASSUME NEW c \in City, Keeps(c)
      PROVE  /\ monitor'[c].id \in DOMAIN issued
             /\ Plan(c).city = c /\ Plan(c).item = monitor'[c].item /\ Plan(c).due = monitor'[c].due
             /\ Plan(c).turn <= forecastTurn
             /\ \A r \in told' : r.id = monitor'[c].id => r.event = "overdue" /\ monitor'[c].overdue
    BY <1>2, <1>7, <1>18 DEF PendingIsIssued
  <2>1. ASSUME NEW r \in told', r.id = monitor[c].id PROVE r.event = "overdue" /\ monitor'[c].overdue
    <3>1. CASE r \in told
      BY <3>1, <2>1, <1>7 DEF PendingIsIssued
    <3>2. ASSUME NEW d \in Says, r = Out(d, rows) PROVE r.event = "overdue" /\ monitor'[c].overdue
      <4>1. d = c
        BY <3>2, <2>1, <1>10, <1>12, <1>17
      <4>2. r.event = "overdue"
        BY <4>1, <3>2, <1>10, <1>12
      <4> QED BY <4>1, <4>2, <3>2, <1>7, <1>12
    <3> QED BY <3>1, <3>2, <1>9
  <2>2. Plan(c).turn <= forecastTurn
    BY DEF PendingIsIssued
  <2> QED BY <2>1, <2>2, <1>7 DEF PendingIsIssued
<1>20. Dated'
  <2>1. \A r \in told' : r.turn <= forecastTurn /\ r.id \in DOMAIN issued
    <3> TAKE r \in told'
    <3>1. CASE r \in told
      BY <3>1, <1>3, <1>15
    <3>2. ASSUME NEW d \in Says, r = Out(d, rows) PROVE r.turn <= forecastTurn /\ r.id \in DOMAIN issued
      BY <3>2, <1>3, <1>5, <1>10, <1>12
    <3> QED BY <3>1, <3>2, <1>9
  <2>2. \A t \in past'.threats : t <= forecastTurn
    BY <1>3, <1>8 DEF Dated, NotYet
  <2>3. \A x \in past'.rates : x.turn <= forecastTurn
    BY <1>3, <1>8, <1>13 DEF Dated, NotYet
  <2> QED BY <2>1, <2>2, <2>3, <1>2, <1>16 DEF Dated
<1>21. ToldOnce'
  <2>1. ASSUME NEW c \in Says, NEW d \in Says PROVE Agree(Out(c, rows), Out(d, rows))
    <3>1. Out(c, rows).id = Out(d, rows).id => c = d
      BY <1>10, <1>12, <1>17
    <3>2. Out(c, rows).event \in Builds!Terminal => Out(c, rows).event # "overdue"
      BY DEF Builds!Terminal
    <3> QED BY <3>1, <3>2 DEF Agree
  <2>2. ASSUME NEW r \in told, NEW c \in Says PROVE Agree(r, Out(c, rows)) /\ Agree(Out(c, rows), r)
    <3> SUFFICES ASSUME r.id = monitor[c].id
        PROVE  Agree(r, Out(c, rows)) /\ Agree(Out(c, rows), r)
      BY <1>12 DEF Agree
    <3>1. r.event = "overdue" /\ monitor[c].overdue
      BY <1>10 DEF PendingIsIssued
    <3>2. Out(c, rows).event # "overdue"
      BY <3>1, <1>3, <1>10, <1>12, EventIs DEF ForecastsInv
    <3>3. r.turn < Out(c, rows).turn
      BY <1>12, <1>15
    <3>4. "overdue" \notin Builds!Terminal
      BY DEF Builds!Terminal
    <3> QED BY <3>1, <3>2, <3>3, <3>4 DEF Agree
  <2>3. \A r, s \in told' : Agree(r, s)
    BY <2>1, <2>2, <1>9 DEF ToldOnce
  <2> QED BY <2>3 DEF ToldOnce, Agree
<1>22. AllFated'
  <2> SUFFICES ASSUME NEW id \in DOMAIN issued PROVE (Fated(id))'
    BY <1>2 DEF AllFated
  <2>1. CASE \E c \in City : Held(c) /\ monitor[c].id = id
    <3>1. PICK c \in City : Held(c) /\ monitor[c].id = id
      BY <2>1
    <3>2. CASE Keeps(c)
      BY <3>1, <3>2, <1>7 DEF Fated
    <3>3. CASE ~Keeps(c)
      <4>1. Builds!Event(c) \in Builds!Terminal /\ Builds!Event(c) # "none"
        BY <3>1, <3>3, <1>3, EventIs DEF ForecastsInv
      <4>2. c \in Says
        BY <4>1, <3>1, <1>4 DEF Says
      <4>3. Out(c, rows) \in told' /\ Out(c, rows).id = id /\ Out(c, rows).event \in Builds!Terminal
        BY <4>1, <4>2, <3>1, <1>9, <1>12
      <4> QED BY <4>3 DEF Fated
    <3> QED BY <3>2, <3>3
  <2>2. CASE \E r \in told : r.id = id /\ r.event \in Builds!Terminal
    BY <2>2, <1>9 DEF Fated
  <2>3. CASE \E n \in DOMAIN issued : n > id /\ issued[n].city = issued[id].city /\ issued[n].item = issued[id].item
    BY <2>3, <1>2 DEF Fated
  <2> QED BY <2>1, <2>2, <2>3 DEF AllFated, Fated
<1>23. ASSUME NEW c \in City, Held(c), NEW f, f = Plan(c)
       PROVE  (Mark(c) # None) <=> Upset(f, forecastTurn)'
  <2>1. /\ f.city = c /\ f.item = monitor[c].item /\ f.due = monitor[c].due
        /\ f.turn \in Nat /\ f.turn < forecastTurn
    BY <1>5, <1>23 DEF PendingIsIssued
  <2>3. (monitor[c].censored # None) <=> Upset(f, forecastTurn)
    BY <1>23 DEF CensoredRight
  <2>4. (Mark(c) # None) <=>
               \/ monitor[c].censored # None
               \/ Builds!Threats /\ monitor[c].item \notin Defender
               \/ /\ city[c].mine /\ c \in rows /\ city[c].item = monitor[c].item
                  /\ monitor[c].due # 0 /\ forecastTurn + city[c].left # monitor[c].due
    BY <1>23, CensoredIs DEF Mark, ForecastsInv
  <2>5. forecastTurn <= forecastTurn
    BY <1>3
  <2>6. \A g : Upset(g, forecastTurn)' <=>
               \/ g.item \notin Defender /\ \E u \in past'.threats : g.turn < u /\ u <= forecastTurn
               \/ g.due # 0 /\ \E x \in past'.rates : x.city = g.city /\ g.turn < x.turn /\ x.turn <= forecastTurn /\ x.due # g.due
    BY <1>2 DEF Upset
  <2>7. (\E u \in past'.threats : f.turn < u /\ u <= forecastTurn)
          <=> (Builds!Threats \/ \E u \in past.threats : f.turn < u /\ u <= forecastTurn)
    BY <2>1, <2>5, <1>8
  <2>8. (\E x \in past'.rates : x.city = f.city /\ f.turn < x.turn /\ x.turn <= forecastTurn /\ x.due # f.due)
          <=> \/ \E x \in past.rates : x.city = f.city /\ f.turn < x.turn /\ x.turn <= forecastTurn /\ x.due # f.due
              \/ c \in rows /\ city[c].item = monitor[c].item /\ forecastTurn + city[c].left # f.due
    BY <2>1, <2>5, <1>8, <1>13
  <2>9. Upset(f, forecastTurn)' <=>
          \/ Upset(f, forecastTurn)
          \/ f.item \notin Defender /\ Builds!Threats
          \/ f.due # 0 /\ c \in rows /\ city[c].item = monitor[c].item /\ forecastTurn + city[c].left # f.due
    <3>1. Upset(f, forecastTurn)' <=>
               \/ f.item \notin Defender /\ \E u \in past'.threats : f.turn < u /\ u <= forecastTurn
               \/ f.due # 0 /\ \E x \in past'.rates : x.city = f.city /\ f.turn < x.turn /\ x.turn <= forecastTurn /\ x.due # f.due
      BY <2>6
    <3> QED BY <3>1, <2>7, <2>8 DEF Upset
  <2> QED BY <2>1, <2>3, <2>4, <2>9, <1>11
<1>24. CensoredRight'
  <2> SUFFICES ASSUME NEW c \in City, Keeps(c)
      PROVE  (monitor'[c].censored # None) <=> Upset(Plan(c), forecastTurn)'
    BY <1>7 DEF CensoredRight
  <2>1. (Plan(c))' = Plan(c)
    BY <1>18
  <2>2. Upset(Plan(c), forecastTurn)' <=> \A f : f = Plan(c) => Upset(f, forecastTurn)'
    BY <2>1 DEF Upset
  <2> QED BY <2>2, <1>7, <1>23
<1>25. Calm'
  <2> SUFFICES ASSUME changes = 0, NEW c \in City, Keeps(c) PROVE (Undisturbed(c))'
    BY <1>2, <1>7 DEF Calm
  <2>1. city[c].mine /\ city[c].item = monitor[c].item
    BY <1>3, EventIs DEF ForecastsInv
  <2> QED BY <2>1, <1>2, <1>7 DEF Undisturbed
<1>26. AllFair'
  <2>1. ASSUME NEW r \in told PROVE (Fair(r))'
    <3>1. Upset(issued[r.id], r.turn)' <=> Upset(issued[r.id], r.turn)
      <4>1. \A t \in past'.threats : t <= r.turn => t \in past.threats
        BY <1>3, <1>8, <1>15
      <4>2. \A x \in past'.rates : x.turn <= r.turn => x \in past.rates
        BY <1>3, <1>8, <1>13, <1>15
      <4>3. past.threats \subseteq past'.threats /\ past.rates \subseteq past'.rates
        BY <1>8
      <4> QED BY <4>1, <4>2, <4>3, <1>2 DEF Upset
    <3> QED BY <3>1, <1>2, <1>8 DEF AllFair, Fair
  <2>2. ASSUME NEW c \in Says, NEW r, r = Out(c, rows) PROVE (Fair(r))'
    <3>1. /\ c \in City /\ Held(c) /\ r.id = monitor[c].id /\ r.event = Builds!Event(c) /\ r.turn = forecastTurn
          /\ r.censored = Mark(c)
      BY <2>2, <1>10, <1>12
    <3>2. Plan(c) = issued[r.id] /\ Plan(c).city = c /\ Plan(c).item = monitor[c].item /\ Plan(c).due = monitor[c].due
      BY <3>1 DEF PendingIsIssued, Plan
    <3> SUFFICES ASSUME r.event \in {"completed", "early", "in_window", "late"}
        PROVE  /\ \A f : f = Plan(c) => ((r.censored # None) <=> Upset(f, forecastTurn)')
               /\ (r.event = "in_window") <=> (Plan(c).due # 0 /\ r.turn = Plan(c).due)
               /\ [city |-> c, turn |-> forecastTurn] \in past'.built \/ changes > 0
      <4>1. PICK f : f = Plan(c)
        OBVIOUS
      <4>2. f = (issued[r.id])'
        BY <4>1, <3>2, <1>2
      <4>3. Upset(f, forecastTurn)' <=> Upset(issued[r.id], r.turn)'
        BY <4>2, <3>1, <1>2 DEF Upset
      <4> QED BY <4>1, <4>2, <4>3, <3>1, <3>2, <1>2 DEF Fair
    <3>3. city[c].mine /\ city[c].item = None /\ ((Builds!Event(c) = "in_window") <=> (monitor[c].due # 0 /\ forecastTurn = monitor[c].due))
      BY <3>1, <1>3, EventIs DEF ForecastsInv
    <3>4. monitor[c].item # None
      BY <3>1, <1>5, ForecastAssumption DEF Pend
    <3>5. changes = 0 => [city |-> c, turn |-> forecastTurn] \in past.built
      BY <3>1, <3>3, <3>4 DEF Calm, Undisturbed
    <3>6. changes \in Nat
      BY DEF ForecastsTyped
    <3> QED BY <3>1, <3>2, <3>3, <3>5, <3>6, <1>8, <1>23
  <2> QED BY <2>1, <2>2, <1>9 DEF AllFair
<1> QED BY <1>14, <1>19, <1>20, <1>21, <1>22, <1>24, <1>25, <1>26

(* A set whose elements are all equal has one at most. *)
LEMMA AtMostOne ==
  ASSUME NEW S, \A x, y \in S : x = y
  PROVE  Cardinality(S) <= 1
<1>1. CASE S = {}
  BY <1>1, FS_EmptySet
<1>2. CASE S # {}
  <2>1. PICK x : x \in S
    BY <1>2
  <2>2. S = {x}
    BY <2>1
  <2> QED BY <2>2, FS_Singleton
<1> QED BY <1>1, <1>2

(* The invariant implies what the run checks. *)
LEMMA ForecastsInvIsEnough == ForecastsInv => Builds!FatesAreSettled /\ Builds!VerdictsAreFair
<1> SUFFICES ASSUME ForecastsInv PROVE Builds!FatesAreSettled /\ Builds!VerdictsAreFair
  OBVIOUS
<1> USE DEF ForecastsInv
<1>1. Builds!FatesAreSettled
  <2> SUFFICES ASSUME NEW id \in DOMAIN issued
      PROVE  LET c == issued[id].city
                 pending == monitor[c] # None /\ monitor[c].id = id
                 late == {r \in Builds!OutcomesOf(id) : r.event = "overdue"}
             IN /\ Cardinality(Builds!Settled(id)) <= 1 /\ Cardinality(late) <= 1
                /\ pending => Builds!Settled(id) = {}
                /\ ~pending /\ Builds!Settled(id) = {} =>
                     \E next \in (id + 1)..Len(issued) :
                       issued[next].city = c /\ issued[next].item = issued[id].item
                /\ \A o \in late, r \in Builds!Settled(id) :
                     o.turn < r.turn \/ (o.turn = r.turn /\ r.event = "superseded")
    BY DEF Builds!FatesAreSettled, Builds!Cardinality, Cardinality
  <2> DEFINE c == issued[id].city
             pending == monitor[c] # None /\ monitor[c].id = id
             late == {r \in Builds!OutcomesOf(id) : r.event = "overdue"}
  <2>1. \A r \in Builds!Settled(id) : r \in told /\ r.id = id /\ r.event \in Builds!Terminal
    BY DEF Builds!Settled, Builds!OutcomesOf
  <2>2. \A r \in late : r \in told /\ r.id = id /\ r.event = "overdue"
    BY DEF Builds!OutcomesOf
  <2>3. Cardinality(Builds!Settled(id)) <= 1
    <3>1. \A x, y \in Builds!Settled(id) : x = y
      BY <2>1 DEF ToldOnce, Agree
    <3> QED BY <3>1, AtMostOne
  <2>4. Cardinality(late) <= 1
    <3>1. \A x, y \in late : x = y
      BY <2>2 DEF ToldOnce, Agree
    <3> QED BY <3>1, AtMostOne
  <2>5. DOMAIN issued = 1..Len(issued) /\ Len(issued) \in Nat /\ c \in City
    <3>1. issued \in Seq(Fore)
      BY DEF ForecastsTyped
    <3>2. issued[id] \in Fore
      BY <3>1
    <3>3. c \in City
      BY <3>2 DEF Fore
    <3> QED BY <3>1, <3>3
  <2>6. pending => Builds!Settled(id) = {}
    <3>1. pending => \A r \in told : r.id = id => r.event = "overdue"
      BY <2>5 DEF PendingIsIssued, Held
    <3>2. "overdue" \notin Builds!Terminal
      BY DEF Builds!Terminal
    <3> QED BY <3>1, <3>2, <2>1
  <2>7. ~pending /\ Builds!Settled(id) = {} =>
          \E next \in (id + 1)..Len(issued) :
            issued[next].city = c /\ issued[next].item = issued[id].item
    <3> SUFFICES ASSUME ~pending, Builds!Settled(id) = {}
        PROVE  \E next \in (id + 1)..Len(issued) :
                 issued[next].city = c /\ issued[next].item = issued[id].item
      OBVIOUS
    <3>1. ~ \E r \in told : r.id = id /\ r.event \in Builds!Terminal
      BY DEF Builds!Settled, Builds!OutcomesOf
    <3>2. ~ \E d \in City : Held(d) /\ monitor[d].id = id
      BY DEF PendingIsIssued, Plan, Held
    <3>3. PICK n \in DOMAIN issued : n > id /\ issued[n].city = c /\ issued[n].item = issued[id].item
      BY <3>1, <3>2 DEF AllFated, Fated
    <3>4. n \in (id + 1)..Len(issued)
      BY <3>3, <2>5
    <3> QED BY <3>3, <3>4
  <2>8. \A o \in late, r \in Builds!Settled(id) : o.turn < r.turn \/ (o.turn = r.turn /\ r.event = "superseded")
    BY <2>1, <2>2 DEF ToldOnce, Agree
  <2> HIDE DEF late
  <2> QED BY <2>3, <2>4, <2>6, <2>7, <2>8 DEF late
<1>2. Builds!VerdictsAreFair
  <2> SUFFICES ASSUME NEW r \in told, r.event \in {"completed", "early", "in_window", "late"}
      PROVE  LET f == issued[r.id]
                 threatened == f.item \notin Defender /\ \E t \in past.threats : f.turn < t /\ t <= r.turn
                 changed == f.due # 0 /\ \E x \in past.rates :
                     x.city = f.city /\ f.turn < x.turn /\ x.turn <= r.turn /\ x.due # f.due
             IN /\ (r.censored # None) = (threatened \/ changed)
                /\ (r.event = "in_window") = (f.due # 0 /\ r.turn = f.due)
                /\ [city |-> f.city, turn |-> r.turn] \in past.built \/ changes > 0
    BY DEF Builds!VerdictsAreFair
  <2>1. Fair(r)
    BY DEF AllFair
  <2>2. /\ (r.censored # None) <=> Upset(issued[r.id], r.turn)
        /\ (r.event = "in_window") <=> (issued[r.id].due # 0 /\ r.turn = issued[r.id].due)
        /\ [city |-> issued[r.id].city, turn |-> r.turn] \in past.built \/ changes > 0
    BY <2>1 DEF Fair
  <2> QED BY <2>2 DEF Upset
<1> QED BY <1>1, <1>2

(* A step that leaves the forecasts alone keeps their invariant. *)
LEMMA ForecastsRest == ForecastsInv /\ UNCHANGED forecastVars => ForecastsInv'
BY DEF forecastVars, ForecastsInv, ForecastsTyped, PendingIsIssued, Plan, Held, Dated, NotYet, ToldOnce, Agree,
       AllFated, Fated, CensoredRight, Upset, Calm, Undisturbed, AllFair, Fair

(* Every accepted forecast has one fate, told once and in order; a verdict on  *)
(* a finished build is censored just when a threat or another date came        *)
(* between its issue and it, is "in window" just on the date it promised, and  *)
(* is of a build that was really done unless something unforeseen changed the  *)
(* queue: whatever the cities, the items and the number of such changes        *)
(* (agents/build_option.py, agents/economic_forecast.py).                      *)
THEOREM ForecastsAreAlwaysFair == MCSpec => []ForecastsAreFair
<1>1. MCInit => ForecastsInv
  BY ForecastsInit DEF MCInit
<1>2. ForecastsInv /\ [MCNext]_<<which, vars, simVars, legVars, forecastVars>> => ForecastsInv'
  <2> SUFFICES ASSUME ForecastsInv, [MCNext]_<<which, vars, simVars, legVars, forecastVars>>
      PROVE  ForecastsInv'
    OBVIOUS
  <2>1. CASE Builds!Next
    <3>1. CASE Builds!NextTurn
      BY <3>1, NextTurnKeeps
    <3>2. CASE Builds!Observe
      BY <3>2, ObserveKeeps
    <3>3. CASE \E c \in City : Builds!Change(c)
      BY <3>3, ChangeKeeps
    <3>4. CASE \E c \in City : Builds!Produce(c)
      BY <3>4, ProduceKeeps
    <3> QED BY <2>1, <3>1, <3>2, <3>3, <3>4 DEF Builds!Next
  <2>2. CASE UNCHANGED forecastVars
    BY <2>2, ForecastsRest
  <2>3. Builds!Next \/ UNCHANGED forecastVars
    BY DEF MCNext
  <2> QED BY <2>1, <2>2, <2>3
<1>3. ForecastsInv => ForecastsAreFair
  BY ForecastsInvIsEnough DEF ForecastsAreFair
<1> QED BY <1>1, <1>2, <1>3, PTL DEF MCSpec

-----------------------------------------------------------------------------
(* The legs. *)

(* The order of the naturals, as a relation. *)
Below == {ss \in Nat \X Nat : ss[1] < ss[2]}

(* A set of naturals that is not empty has a least element. *)
LEMMA LeastOf ==
  ASSUME NEW S, S \subseteq Nat, S # {}
  PROVE  \E m \in S : \A k \in S : m <= k
<1>1. IsWellFoundedOn(Below, Nat)
  BY NatLessThanWellFounded DEF OpToRel, Below
<1>2. PICK m \in S : \A k \in S : ~(<<k, m>> \in Below)
  BY <1>1, WFMin
<1>3. ASSUME NEW k \in S PROVE m <= k
  <2>1. m \in Nat /\ k \in Nat
    OBVIOUS
  <2>2. k < m => <<k, m>> \in Below
    BY <2>1 DEF Below
  <2> QED BY <2>1, <2>2, <1>2
<1> QED BY <1>3
(* Of a journal whose n-th record is the one of turn n, a leg reads a prefix.   *)
LEMMA KeptIsAPrefix ==
  ASSUME NEW D, NEW recs \in Seq(D), NEW t \in Nat \ {0}, \A i \in DOMAIN recs : recs[i].turn = i
  PROVE  Legs!ReplayUpto(recs, t) = IF Len(recs) < t THEN recs ELSE SubSeq(recs, 1, t - 1)
<1> DEFINE n == Len(recs)
           Upto(i) == SubSeq(recs, 1, IF i < t THEN i ELSE t - 1)
           OneMore(F, i) == IF i = 0 THEN <<>>
                         ELSE IF recs[i].turn < t THEN Append(F[i - 1], recs[i]) ELSE F[i - 1]
           Sat(F) == F = [i \in 0..n |-> OneMore(F, i)]
           G == [i \in 0..n |-> Upto(i)]
<1>1. n \in Nat /\ DOMAIN recs = 1..n
  OBVIOUS
<1>2. Upto(0) = <<>>
  BY <1>1
<1>3. ASSUME NEW i \in 1..n PROVE Upto(i) = IF recs[i].turn < t THEN Append(Upto(i - 1), recs[i]) ELSE Upto(i - 1)
  <2>1. i - 1 \in 0..n /\ recs[i].turn = i
    BY <1>1, <1>3
  <2>2. CASE i < t
    <3>1. Upto(i) = SubSeq(recs, 1, i) /\ Upto(i - 1) = SubSeq(recs, 1, i - 1)
      BY <2>2, <1>1
    <3>2. SubSeq(recs, 1, i) = Append(SubSeq(recs, 1, i - 1), recs[i])
      BY <1>1
    <3> QED BY <3>1, <3>2, <2>1, <2>2
  <2>3. CASE ~(i < t)
    <3>1. Upto(i) = SubSeq(recs, 1, t - 1) /\ Upto(i - 1) = SubSeq(recs, 1, t - 1)
      BY <2>3, <1>1
    <3> QED BY <3>1, <2>1, <2>3
  <2> QED BY <2>2, <2>3
<1> HIDE DEF Upto
<1>4. Sat(G)
  <2>1. ASSUME NEW i \in 0..n PROVE G[i] = OneMore(G, i)
    <3>1. CASE i = 0
      BY <3>1, <1>2
    <3>2. CASE i # 0
      <4>1. i \in 1..n /\ i - 1 \in 0..n
        BY <3>2, <1>1
      <4>2. G[i - 1] = Upto(i - 1) /\ G[i] = Upto(i)
        BY <4>1
      <4> QED BY <4>1, <4>2, <3>2, <1>3
    <3> QED BY <3>1, <3>2
  <2> QED BY <2>1
<1> DEFINE F == CHOOSE H : Sat(H)
<1>5. Legs!ReplayUpto(recs, t) = F[n]
  BY DEF Legs!ReplayUpto
<1>6. Sat(F)
  <2> HIDE DEF Sat
  <2> QED BY <1>4
<1> HIDE DEF F, G
<1>7. \A i \in 0..n : F[i] = Upto(i)
  <2> DEFINE Bad == {i \in 0..n : F[i] # Upto(i)}
  <2> SUFFICES ASSUME Bad # {} PROVE FALSE
    OBVIOUS
  <2>1. Bad \subseteq Nat
    BY <1>1
  <2>2. PICK m \in Bad : \A k \in Bad : m <= k
    BY <2>1, LeastOf
  <2>3. F[m] = OneMore(F, m)
    BY <1>6
  <2>4. CASE m = 0
    BY <2>2, <2>3, <2>4, <1>2
  <2>5. CASE m # 0
    <3>1. m \in 1..n /\ m - 1 \in 0..n /\ ~(m <= m - 1)
      BY <2>5, <1>1
    <3>2. F[m - 1] = Upto(m - 1)
      BY <3>1, <2>2
    <3> QED BY <3>1, <3>2, <2>2, <2>3, <2>5, <1>3
  <2> QED BY <2>4, <2>5
<1>8. Legs!ReplayUpto(recs, t) = Upto(n)
  BY <1>1, <1>5, <1>7
<1> QED BY <1>1, <1>8 DEF Upto

(* Of a mind only its days and its posts are counted. *)
IsMind(m) ==
  /\ DOMAIN m = {"seen", "day", "active", "chosenAt", "posts", "art", "mismatch", "bandit", "through"}
  /\ m.day \in Nat /\ m.posts \in 0..PostCap /\ m.through \in Nat

ResumeTyped ==
  /\ up \in BOOLEAN /\ stage \in {"waiting", "restored", "acting", "done"}
  /\ day \in Nat \ {0} /\ saved \in Nat /\ made \in Nat /\ undone \in Nat
  /\ IsMind(mind)

(* The latest turn that is in the journal for good. *)
Journaled == IF ~up THEN saved ELSE IF stage = "done" THEN day ELSE day - 1

(* The n-th record is the mind at the end of turn n, of every turn that stands. *)
JournalIsTheRecord ==
  /\ \E D : journal \in Seq(D)
  /\ DOMAIN stood = 1..Len(journal)
  /\ \A i \in 1..Len(journal) : journal[i].turn = i /\ journal[i].doc = stood[i]
  /\ \A i \in 1..Len(journal) : stood[i].posts \in 0..PostCap /\ stood[i].day \in Nat
  /\ saved < day /\ Journaled <= Len(journal)

(* A runtime that has processed a turn has either the mind of the turn before,   *)
(* or knows that it has to go back.                                             *)
MindIsKept ==
  up =>
    /\ stage = "waiting" /\ mind.day # 0 =>
         mind.through >= day - 1 /\ (mind.through = day - 1 /\ day > 1 => Legs!Doc(mind) = stood[day - 1])
    /\ stage = "done" => mind.through = day /\ Legs!Doc(mind) = stood[day]

(* A restored mind is the one that the turn before ended with. *)
SameMind(m, then) ==
  /\ <<m.seen, m.day, m.active, m.chosenAt, m.posts>> = <<then.seen, then.day, then.active, then.chosenAt, then.posts>>
  /\ m.bandit # None => m.bandit = IF then.bandit = None THEN Legs!Untaught ELSE then.bandit
  /\ then.digest # None => m.art \in {None, then.digest}
MindIsRestored == stage = "restored" /\ day > 1 => SameMind(mind, stood[day - 1])

(* The requests that were answered, less the turns that were taken back, are     *)
(* those the mind of any standing turn has counted and at most one a turn since.  *)
Posted(t) == IF t = 0 THEN 0 ELSE stood[t].posts
Reached == IF up THEN Legs!Played ELSE saved
PostsAreCounted ==
  /\ \A t \in 0..Journaled : made <= undone + Posted(t) + (Reached - t)
  /\ up /\ stage \in {"restored", "acting"} => made <= undone + mind.posts

LegsInv == ResumeTyped /\ JournalIsTheRecord /\ MindIsKept /\ MindIsRestored /\ PostsAreCounted

(* What a turn goes on from: the records of the turns before it, each of them. *)
LEMMA KeptIs ==
  ASSUME NEW D, NEW recs \in Seq(D), NEW t \in Nat \ {0}, t - 1 <= Len(recs),
         \A i \in 1..Len(recs) : recs[i].turn = i
  PROVE  /\ Legs!ReplayUpto(recs, t) \in Seq(D) /\ Len(Legs!ReplayUpto(recs, t)) = t - 1
         /\ \A i \in 1..t - 1 : Legs!ReplayUpto(recs, t)[i] = recs[i]
<1>1. Len(recs) \in Nat /\ DOMAIN recs = 1..Len(recs)
  OBVIOUS
<1>2. Legs!ReplayUpto(recs, t) = IF Len(recs) < t THEN recs ELSE SubSeq(recs, 1, t - 1)
  BY <1>1, KeptIsAPrefix
<1>3. CASE Len(recs) < t
  <2>1. Len(recs) = t - 1
    BY <1>1, <1>3
  <2> QED BY <2>1, <1>2, <1>3
<1>4. CASE ~(Len(recs) < t)
  <2>1. Legs!ReplayUpto(recs, t) = SubSeq(recs, 1, t - 1)
    BY <1>2, <1>4
  <2>2. t - 1 \in 0..Len(recs)
    BY <1>1
  <2>3. SubSeq(recs, 1, t - 1) \in Seq(D) /\ Len(SubSeq(recs, 1, t - 1)) = t - 1
    BY <2>2, <1>1
  <2>4. \A i \in 1..t - 1 : SubSeq(recs, 1, t - 1)[i] = recs[i]
    BY <2>2, <1>1
  <2> QED BY <2>1, <2>3, <2>4, <1>2
<1> QED BY <1>3, <1>4

(* A constructor's mind has played and posted nothing. *)
LEMMA BlankIsAMind == \A artifact, armed : IsMind(Legs!Blank(artifact, armed))
<1> TAKE artifact, armed
<1> DEFINE bandit == IF armed THEN Legs!Untaught ELSE None
<1>1. Legs!Blank(artifact, armed) =
        [seen |-> {}, day |-> 0, active |-> "", chosenAt |-> 0, posts |-> 0, art |-> artifact,
         mismatch |-> FALSE, bandit |-> bandit, through |-> 0]
  BY DEF Legs!Blank
<1> HIDE DEF bandit
<1>2. 0 \in Nat /\ 0 \in 0..PostCap
  BY ResumeAssumption
<1> DEFINE m == [seen |-> {}, day |-> 0, active |-> "", chosenAt |-> 0, posts |-> 0, art |-> artifact,
                 mismatch |-> FALSE, bandit |-> bandit, through |-> 0]
<1>3. DOMAIN m = {"seen", "day", "active", "chosenAt", "posts", "art", "mismatch", "bandit", "through"}
  OBVIOUS
<1>4. m.day = 0 /\ m.posts = 0 /\ m.through = 0
  OBVIOUS
<1>5. Legs!Blank(artifact, armed) = m
  BY <1>1
<1> HIDE DEF m
<1> QED BY <1>2, <1>3, <1>4, <1>5 DEF IsMind

(* At first nothing was played. *)
LEMMA LegsInit == Legs!Init => LegsInv
<1> SUFFICES ASSUME Legs!Init PROVE LegsInv
  OBVIOUS
<1>1. /\ up = FALSE /\ stage = "waiting" /\ day = 1 /\ saved = 0 /\ made = 0 /\ undone = 0
      /\ journal = <<>> /\ stood = <<>> /\ mind = Legs!Blank(None, FALSE)
  BY DEF Legs!Init
<1>2. IsMind(mind)
  BY <1>1, BlankIsAMind
<1>3. ResumeTyped
  <2>1. up \in BOOLEAN
    BY <1>1
  <2>2. /\ stage \in {"waiting", "restored", "acting", "done"}
        /\ day \in Nat \ {0} /\ saved \in Nat /\ made \in Nat /\ undone \in Nat
    BY <1>1
  <2> QED BY <1>2, <2>1, <2>2 DEF ResumeTyped
<1>4. JournalIsTheRecord
  BY <1>1 DEF JournalIsTheRecord, Journaled
<1>5. MindIsKept /\ MindIsRestored
  BY <1>1 DEF MindIsKept, MindIsRestored
<1>6. PostsAreCounted
  BY <1>1 DEF PostsAreCounted, Journaled, Posted, Reached
<1> QED BY <1>3, <1>4, <1>5, <1>6 DEF LegsInv

(* A new process goes on from the checkpoint with a blank mind. *)
LEMMA StartKeeps == ASSUME NEW artifact, NEW armed, LegsInv, Legs!Start(artifact, armed) PROVE LegsInv'
<1> USE DEF LegsInv
<1>1. /\ ~up /\ up' = TRUE /\ stage' = "waiting" /\ day' = saved + 1 /\ mind' = Legs!Blank(artifact, armed)
      /\ saved' = saved /\ journal' = journal /\ stood' = stood /\ made' = made /\ undone' = undone
  BY DEF Legs!Start
<1>2. saved \in Nat /\ made \in Nat /\ undone \in Nat
  BY DEF ResumeTyped
<1>3. IsMind(mind')
  BY <1>1, BlankIsAMind
<1>4. ResumeTyped'
  BY <1>1, <1>2, <1>3 DEF ResumeTyped, IsMind
<1>5. Journaled' = Journaled /\ Reached' = Reached
  BY <1>1, <1>2 DEF Journaled, Reached, Legs!Played
<1>6. JournalIsTheRecord'
  BY <1>1, <1>2, <1>5 DEF JournalIsTheRecord
<1>7. MindIsKept' /\ MindIsRestored'
  BY <1>1 DEF MindIsKept, MindIsRestored, Legs!Blank
<1>8. PostsAreCounted'
  BY <1>1, <1>5 DEF PostsAreCounted, Posted
<1> QED BY <1>4, <1>6, <1>7, <1>8

(* A runtime used again for an earlier checkpoint has processed later turns. *)
LEMMA ReuseKeeps == ASSUME NEW t \in 1..LastDay, LegsInv, Legs!Reuse(t) PROVE LegsInv'
<1> USE DEF LegsInv
<1>1. /\ up /\ up' = up /\ stage = "waiting" /\ stage' = stage /\ day' = t + 1 /\ saved' = t /\ t < saved
      /\ undone' = undone + Legs!Played - t
      /\ mind' = mind /\ journal' = journal /\ stood' = stood /\ made' = made
  BY DEF Legs!Reuse
<1>2. /\ saved \in Nat /\ made \in Nat /\ undone \in Nat /\ day \in Nat /\ t \in Nat
      /\ Legs!Played = day - 1 /\ saved < day
  BY <1>1, ResumeAssumption DEF ResumeTyped, JournalIsTheRecord, Legs!Played
<1>3. ResumeTyped'
  BY <1>1, <1>2 DEF ResumeTyped, IsMind
<1>4. Journaled = day - 1 /\ Journaled' = t /\ Reached = day - 1 /\ Reached' = t
  BY <1>1, <1>2 DEF Journaled, Reached, Legs!Played
<1>5. JournalIsTheRecord'
  <2>1. Len(journal) \in Nat /\ day - 1 <= Len(journal)
    BY <1>4 DEF JournalIsTheRecord
  <2>2. t <= Len(journal) /\ t < t + 1
    BY <2>1, <1>1, <1>2
  <2> QED BY <2>2, <1>1, <1>4 DEF JournalIsTheRecord
<1>6. MindIsKept' /\ MindIsRestored'
  <2>1. mind.through \in Nat
    BY DEF ResumeTyped, IsMind
  <2>2. mind.day # 0 => mind.through >= day - 1
    BY <1>1 DEF MindIsKept
  <2>3. mind.day # 0 => mind.through > t
    BY <2>1, <2>2, <1>1, <1>2
  <2> QED BY <2>1, <2>3, <1>1, <1>2 DEF MindIsKept, MindIsRestored
<1>7. PostsAreCounted'
  <2>1. ASSUME NEW s \in 0..t PROVE made <= undone' + Posted(s) + (t - s)
    <3>1. s \in 0..day - 1 /\ s \in Nat /\ s <= t
      BY <1>1, <1>2
    <3>2. made <= undone + Posted(s) + (day - 1 - s)
      BY <3>1, <1>4 DEF PostsAreCounted
    <3>3. Posted(s) \in Int
      <4>1. s # 0 => s \in 1..Len(journal)
        BY <3>1, <1>1, <1>2, <1>4 DEF JournalIsTheRecord
      <4>2. s # 0 => stood[s].posts \in Int
        BY <4>1, ResumeAssumption DEF JournalIsTheRecord
      <4> QED BY <4>2 DEF Posted
    <3> QED BY <3>1, <3>2, <3>3, <1>1, <1>2
  <2> QED BY <2>1, <1>1, <1>4 DEF PostsAreCounted, Posted
<1> QED BY <1>3, <1>5, <1>6, <1>7

(* The restored mind is the latest record's, or the one it already was. *)
LEMMA RestoreKeeps == ASSUME LegsInv, Legs!Restore PROVE LegsInv'
<1> USE DEF LegsInv
<1>1. /\ up /\ up' = up /\ stage = "waiting" /\ stage' = "restored" /\ day' = day /\ saved' = saved
      /\ mind' = Legs!Restored(mind, day)
      /\ journal' = journal /\ stood' = stood /\ made' = made /\ undone' = undone
  BY DEF Legs!Restore
<1>2. saved \in Nat /\ made \in Nat /\ undone \in Nat /\ day \in Nat \ {0} /\ IsMind(mind)
  BY DEF ResumeTyped
<1>3. /\ Journaled = day - 1 /\ Journaled' = day - 1 /\ Reached = day - 1 /\ Reached' = day - 1
      /\ day - 1 <= Len(journal) /\ Len(journal) \in Nat
  BY <1>1, <1>2 DEF Journaled, Reached, Legs!Played, JournalIsTheRecord
<1> DEFINE docs == Legs!ReplayUpto(journal, day)
           last == docs[Len(docs)].doc
           fresh == mind.day # 0 /\ day > mind.through
           Back == /\ IsMind(mind') /\ mind'.posts \in 0..PostCap
                   /\ day > 1 => SameMind(mind', stood[day - 1]) /\ mind'.posts = stood[day - 1].posts
<1>4. Len(docs) = day - 1 /\ (docs = <<>> <=> day = 1) /\ (day > 1 => last = stood[day - 1])
  <2>1. PICK D : journal \in Seq(D)
    BY DEF JournalIsTheRecord
  <2>2. /\ docs \in Seq(D) /\ Len(docs) = day - 1
        /\ \A i \in 1..day - 1 : docs[i] = journal[i]
    BY <2>1, <1>2, <1>3, KeptIs DEF JournalIsTheRecord
  <2>3. docs = <<>> <=> day = 1
    BY <2>2, <1>2
  <2>4. day > 1 => day - 1 \in 1..day - 1 /\ day - 1 \in 1..Len(journal)
    BY <1>2, <1>3
  <2>5. day > 1 => last = stood[day - 1]
    BY <2>2, <2>4 DEF JournalIsTheRecord
  <2> QED BY <2>2, <2>3, <2>5
<1>5. ASSUME fresh \/ day = 1 PROVE Back
  <2>1. mind' = mind
    BY <1>1, <1>4, <1>5 DEF Legs!Restored
  <2>2. day > 1 => Legs!Doc(mind) = stood[day - 1]
    <3> SUFFICES ASSUME day > 1 PROVE Legs!Doc(mind) = stood[day - 1]
      OBVIOUS
    <3>1. mind.through >= day - 1 /\ day > mind.through /\ mind.through \in Nat
      BY <1>1, <1>2, <1>5 DEF MindIsKept, IsMind
    <3>2. mind.through = day - 1
      BY <3>1, <1>2
    <3> QED BY <3>2, <1>1, <1>2, <1>5 DEF MindIsKept
  <2>3. day > 1 => SameMind(mind, stood[day - 1]) /\ mind.posts = stood[day - 1].posts
    BY <2>2 DEF Legs!Doc, SameMind
  <2>4. mind.posts \in 0..PostCap
    BY <1>2 DEF IsMind
  <2> QED BY <2>1, <2>3, <2>4, <1>2
<1>6. ASSUME ~(fresh \/ day = 1) PROVE Back
  <2> DEFINE swapped == last.digest # None /\ last.digest # mind.art
             taught == IF mind.bandit = None THEN None ELSE IF last.bandit = None THEN Legs!Untaught ELSE last.bandit
             art == IF swapped THEN None ELSE mind.art
  <2>1. mind' = [seen |-> last.seen, day |-> last.day, active |-> last.active, chosenAt |-> last.chosenAt,
                 posts |-> last.posts, art |-> art,
                 mismatch |-> mind.mismatch \/ swapped, bandit |-> taught, through |-> mind.through]
    BY <1>1, <1>4, <1>6 DEF Legs!Restored
  <2>2. day > 1 /\ last = stood[day - 1] /\ day - 1 \in 1..Len(journal)
    BY <1>2, <1>3, <1>4, <1>6
  <2>3. last.posts \in 0..PostCap /\ last.day \in Nat
    BY <2>2 DEF JournalIsTheRecord
  <2>4. mind.through \in Nat
    BY <1>2 DEF IsMind
  <2>5. (last.digest # None => art \in {None, last.digest})
    OBVIOUS
  <2>6. taught # None => taught = IF last.bandit = None THEN Legs!Untaught ELSE last.bandit
    OBVIOUS
  <2> HIDE DEF last, swapped, taught, art
  <2>7. IsMind(mind')
    BY <2>1, <2>3, <2>4 DEF IsMind
  <2>8. SameMind(mind', last) /\ mind'.posts = last.posts
    BY <2>1, <2>5, <2>6 DEF SameMind
  <2> QED BY <2>2, <2>3, <2>7, <2>8
<1>7. Back
  BY <1>5, <1>6
<1>8. ResumeTyped'
  BY <1>1, <1>2, <1>7 DEF ResumeTyped, IsMind
<1>9. JournalIsTheRecord'
  BY <1>1, <1>3 DEF JournalIsTheRecord
<1>10. MindIsKept' /\ MindIsRestored'
  BY <1>1, <1>7 DEF MindIsKept, MindIsRestored, SameMind
<1>11. PostsAreCounted'
  <2>1. \A t \in 0..day - 1 : made <= undone + Posted(t) + (day - 1 - t)
    BY <1>3 DEF PostsAreCounted
  <2>2. made <= undone + Posted(day - 1) /\ Posted(day - 1) \in Int
    <3>1. day - 1 \in 0..day - 1 /\ (day - 1) - (day - 1) = 0
      BY <1>2
    <3>2. Posted(day - 1) \in Int
      <4>1. day > 1 => day - 1 \in 1..Len(journal) /\ day - 1 # 0
        BY <1>2, <1>3
      <4>2. day > 1 => stood[day - 1].posts \in Int
        BY <4>1, ResumeAssumption DEF JournalIsTheRecord
      <4> QED BY <4>1, <4>2, <1>2 DEF Posted
    <3>3. made <= undone + Posted(day - 1) + (day - 1 - (day - 1))
      BY <2>1, <3>1
    <3> QED BY <3>2, <3>3, <1>2
  <2>3. Posted(day - 1) <= mind'.posts
    <3>1. CASE day = 1
      BY <3>1, <1>7, ResumeAssumption DEF Posted
    <3>2. CASE day > 1
      BY <3>2, <1>2, <1>7, ResumeAssumption DEF Posted
    <3> QED BY <3>1, <3>2, <1>2
  <2>4. made <= undone + mind'.posts
    BY <2>2, <2>3, <1>2, <1>7, ResumeAssumption
  <2> QED BY <2>1, <2>4, <1>1, <1>3 DEF PostsAreCounted, Posted
<1> QED BY <1>8, <1>9, <1>10, <1>11

(* A decision posts once at most, and only under the cap. *)
LEMMA DecideKeeps ==
  ASSUME NEW look, NEW over, NEW option, NEW answered \in BOOLEAN, LegsInv, Legs!Decide(look, over, option, answered)
  PROVE  LegsInv'
<1> USE DEF LegsInv
<1> DEFINE more == IF answered THEN 1 ELSE 0
<1>1. /\ up /\ up' = up /\ stage = "restored" /\ stage' = "acting" /\ day' = day /\ saved' = saved
      /\ journal' = journal /\ stood' = stood /\ made' = made + more /\ undone' = undone
  BY DEF Legs!Decide
<1>2. saved \in Nat /\ made \in Nat /\ undone \in Nat /\ day \in Nat \ {0} /\ IsMind(mind) /\ more \in 0..1
  BY DEF ResumeTyped
<1>3. Journaled = day - 1 /\ Journaled' = day - 1 /\ Reached = day - 1 /\ Reached' = day
  BY <1>1, <1>2 DEF Journaled, Reached, Legs!Played
<1>4. IsMind(mind') /\ mind'.posts = mind.posts + more
  <2> DEFINE sees == [mind EXCEPT !.seen = @ \cup look.foes, !.day = day]
  <2>1. IsMind(sees) /\ sees.posts = mind.posts
    BY <1>2 DEF IsMind
  <2>2. more = 1 => mind.posts < PostCap /\ Legs!MustChoose(over)
    BY DEF Legs!Decide, Legs!PostsLeft
  <2>3. CASE Legs!MustChoose(over)
    <3> DEFINE chosen == Legs!Choose(sees, look, option, answered)
    <3> HIDE DEF sees
    <3>1. /\ DOMAIN chosen = DOMAIN sees /\ chosen.day = sees.day /\ chosen.through = sees.through
          /\ chosen.posts = sees.posts + more
      BY <2>1 DEF Legs!Choose, IsMind
    <3>2. mind' = chosen
      BY <2>3 DEF Legs!Decide, sees
    <3>3. mind.posts \in Nat /\ mind.posts <= PostCap
      BY <1>2, ResumeAssumption DEF IsMind
    <3>4. mind.posts + more \in 0..PostCap
      BY <1>2, <2>2, <3>3, ResumeAssumption
    <3> HIDE DEF chosen, more
    <3> QED BY <2>1, <3>1, <3>2, <3>4 DEF IsMind
  <2>4. CASE ~Legs!MustChoose(over)
    <3>1. mind' = sees /\ more = 0
      BY <2>4, <2>2 DEF Legs!Decide
    <3>2. mind.posts \in Int
      BY <1>2, ResumeAssumption DEF IsMind
    <3> QED BY <2>1, <3>1, <3>2
  <2> QED BY <2>3, <2>4
<1>5. ResumeTyped'
  BY <1>1, <1>2, <1>4 DEF ResumeTyped, IsMind
<1>6. JournalIsTheRecord' /\ MindIsKept' /\ MindIsRestored'
  BY <1>1, <1>3 DEF JournalIsTheRecord, MindIsKept, MindIsRestored
<1>7. PostsAreCounted'
  <2>1. ASSUME NEW t \in 0..day - 1 PROVE made' <= undone + Posted(t) + (day - t)
    <3>1. made <= undone + Posted(t) + (day - 1 - t)
      BY <1>3 DEF PostsAreCounted
    <3>2. Posted(t) \in Int
      <4>1. t # 0 => t \in 1..Len(journal)
        BY <1>2, <1>3 DEF JournalIsTheRecord
      <4>2. t # 0 => stood[t].posts \in Int
        BY <4>1, ResumeAssumption DEF JournalIsTheRecord
      <4> QED BY <4>2 DEF Posted
    <3>3. t \in Int
      BY <1>2
    <3> QED BY <3>1, <3>2, <3>3, <1>1, <1>2
  <2>2. made' <= undone + mind'.posts
    <3>1. made <= undone + mind.posts /\ mind.posts \in Int
      BY <1>1, <1>2, ResumeAssumption DEF PostsAreCounted, IsMind
    <3> QED BY <3>1, <1>1, <1>2, <1>4
  <2> QED BY <2>1, <2>2, <1>1, <1>3 DEF PostsAreCounted, Posted
<1> QED BY <1>5, <1>6, <1>7

(* A completed turn's record replaces what was journaled of it and after it. *)
LEMMA CompleteKeeps == ASSUME NEW dead, LegsInv, Legs!Complete(dead) PROVE LegsInv'
<1> USE DEF LegsInv
<1> DEFINE after == [mind EXCEPT !.seen = @ \ dead, !.through = day]
           doc == Legs!Doc(after)
           docs == Legs!ReplayUpto(journal, day)
           rec == [turn |-> day, doc |-> doc]
<1>1. /\ up /\ up' = up /\ stage = "acting" /\ stage' = "done" /\ day' = day /\ saved' = saved
      /\ mind' = after /\ journal' = Append(docs, rec)
      /\ stood' = [t \in 1..day |-> IF t = day THEN doc ELSE stood[t]]
      /\ made' = made /\ undone' = undone
  BY DEF Legs!Complete, Legs!Recorded
<1>2. saved \in Nat /\ made \in Nat /\ undone \in Nat /\ day \in Nat \ {0} /\ IsMind(mind)
  BY DEF ResumeTyped
<1>3. /\ Journaled = day - 1 /\ Journaled' = day /\ Reached = day /\ Reached' = day
      /\ day - 1 <= Len(journal) /\ Len(journal) \in Nat
  BY <1>1, <1>2 DEF Journaled, Reached, Legs!Played, JournalIsTheRecord
<1>4. /\ DOMAIN after = DOMAIN mind /\ after.day = mind.day /\ after.posts = mind.posts
      /\ after.through = day
  BY <1>2 DEF IsMind
<1>5. IsMind(after) /\ doc.posts = mind.posts /\ doc.day = mind.day
  BY <1>2, <1>4 DEF IsMind, Legs!Doc
<1> HIDE DEF after, doc
<1>6. PICK D : journal \in Seq(D)
  BY DEF JournalIsTheRecord
<1>7. docs \in Seq(D) /\ Len(docs) = day - 1 /\ \A i \in 1..day - 1 : docs[i] = journal[i]
  BY <1>2, <1>3, <1>6, KeptIs DEF JournalIsTheRecord
<1>8. /\ Len(journal') = day /\ DOMAIN journal' = 1..day /\ journal'[day] = rec
      /\ \A i \in 1..day - 1 : journal'[i] = journal[i]
      /\ journal' \in Seq(D \cup {rec})
  <2> HIDE DEF docs, rec
  <2> QED BY <1>1, <1>2, <1>7
<1>9. /\ DOMAIN stood' = 1..day /\ stood'[day] = doc
      /\ \A i \in 1..day - 1 : stood'[i] = stood[i]
  BY <1>1, <1>2
<1>10. \A i \in 1..day : i = day \/ (i \in 1..day - 1 /\ i \in 1..Len(journal))
  BY <1>2, <1>3
<1>11. \A i \in 1..day : journal'[i].turn = i /\ journal'[i].doc = stood'[i]
  <2>1. rec.turn = day /\ rec.doc = doc
    OBVIOUS
  <2> HIDE DEF docs, rec
  <2> QED BY <2>1, <1>8, <1>9, <1>10 DEF JournalIsTheRecord
<1>12. \A i \in 1..day : stood'[i].posts \in 0..PostCap /\ stood'[i].day \in Nat
  BY <1>2, <1>5, <1>9, <1>10 DEF JournalIsTheRecord, IsMind
<1>13. ResumeTyped'
  BY <1>1, <1>2, <1>5 DEF ResumeTyped, IsMind
<1>14. JournalIsTheRecord'
  <2> HIDE DEF docs, rec
  <2> QED BY <1>1, <1>2, <1>3, <1>8, <1>9, <1>11, <1>12 DEF JournalIsTheRecord
<1>15. MindIsKept' /\ MindIsRestored'
  BY <1>1, <1>4, <1>9 DEF MindIsKept, MindIsRestored, doc
<1>16. PostsAreCounted'
  <2>1. ASSUME NEW t \in 0..day PROVE made <= undone + Posted(t)' + (day - t)
    <3>1. CASE t = day
      <4>1. made <= undone + mind.posts /\ mind.posts \in Int
        BY <1>1, <1>2, ResumeAssumption DEF PostsAreCounted, IsMind
      <4> QED BY <3>1, <4>1, <1>2, <1>5, <1>9 DEF Posted
    <3>2. CASE t # day
      <4>1. t \in 0..day - 1
        BY <3>2, <1>2
      <4>2. Posted(t)' = Posted(t)
        BY <4>1, <1>2, <1>9 DEF Posted
      <4> QED BY <4>1, <4>2, <1>3 DEF PostsAreCounted
    <3> QED BY <3>1, <3>2
  <2> QED BY <2>1, <1>1, <1>3 DEF PostsAreCounted, Posted
<1> QED BY <1>13, <1>14, <1>15, <1>16

(* The turn after it, with or without a checkpoint. *)
LEMMA BoundaryKeeps == ASSUME LegsInv, Legs!Boundary PROVE LegsInv'
<1> USE DEF LegsInv
<1>1. /\ up /\ up' = up /\ stage = "done" /\ stage' = "waiting" /\ day' = day + 1
      /\ saved' \in {day, saved}
      /\ mind' = mind /\ journal' = journal /\ stood' = stood /\ made' = made /\ undone' = undone
  BY DEF Legs!Boundary
<1>2. saved \in Nat /\ day \in Nat \ {0} /\ saved < day
  BY DEF ResumeTyped, JournalIsTheRecord
<1>3. ResumeTyped'
  BY <1>1, <1>2 DEF ResumeTyped, IsMind
<1>4. Journaled = day /\ Journaled' = day /\ Reached = day /\ Reached' = day
  BY <1>1, <1>2 DEF Journaled, Reached, Legs!Played
<1>5. JournalIsTheRecord'
  BY <1>1, <1>2, <1>4 DEF JournalIsTheRecord
<1>6. MindIsKept' /\ MindIsRestored'
  BY <1>1, <1>2 DEF MindIsKept, MindIsRestored
<1>7. PostsAreCounted'
  BY <1>1, <1>4 DEF PostsAreCounted, Posted
<1> QED BY <1>3, <1>5, <1>6, <1>7

(* A kill takes back the turns since the checkpoint, and their posts with them. *)
LEMMA KillKeeps == ASSUME LegsInv, Legs!Kill PROVE LegsInv'
<1> USE DEF LegsInv
<1>1. /\ up /\ up' = FALSE /\ stage' = stage /\ day' = day /\ saved' = saved
      /\ undone' = undone + Legs!Played - saved
      /\ mind' = mind /\ journal' = journal /\ stood' = stood /\ made' = made
  BY DEF Legs!Kill
<1>2. /\ saved \in Nat /\ made \in Nat /\ undone \in Nat /\ day \in Nat
      /\ saved < day /\ Legs!Played \in Nat /\ saved <= Legs!Played /\ Reached = Legs!Played
      /\ Journaled \in Nat /\ saved <= Journaled /\ Journaled' = saved /\ Reached' = saved
  BY <1>1 DEF ResumeTyped, JournalIsTheRecord, Legs!Played, Reached, Journaled
<1>3. ResumeTyped'
  <2>1. undone' \in Nat
    BY <1>1, <1>2
  <2>2. up' \in BOOLEAN
    BY <1>1
  <2> QED BY <2>1, <2>2, <1>1 DEF ResumeTyped, IsMind
<1>4. Len(journal) \in Nat /\ Journaled <= Len(journal)
  BY DEF JournalIsTheRecord
<1>5. JournalIsTheRecord'
  BY <1>1, <1>2, <1>4 DEF JournalIsTheRecord
<1>6. MindIsKept' /\ MindIsRestored'
  BY <1>1, <1>2 DEF MindIsKept, MindIsRestored
<1>7. PostsAreCounted'
  <2>1. ASSUME NEW s \in 0..saved PROVE made <= undone' + Posted(s) + (saved - s)
    <3>1. s \in 0..Journaled /\ s \in Nat /\ s <= Len(journal)
      BY <1>2, <1>4
    <3>2. made <= undone + Posted(s) + (Legs!Played - s)
      BY <3>1, <1>2 DEF PostsAreCounted
    <3>3. Posted(s) \in Int
      <4>1. s # 0 => s \in 1..Len(journal)
        BY <3>1, <1>4
      <4>2. s # 0 => stood[s].posts \in Int
        BY <4>1, ResumeAssumption DEF JournalIsTheRecord
      <4> QED BY <4>2 DEF Posted
    <3> QED BY <3>1, <3>2, <3>3, <1>1, <1>2
  <2> QED BY <2>1, <1>1, <1>2 DEF PostsAreCounted, Posted
<1> QED BY <1>3, <1>5, <1>6, <1>7

(* The invariant implies what the run checks. *)
LEMMA LegsInvIsEnough == LegsInv => Legs!ResumesWhereItStood /\ Legs!PostsStayCapped
<1> SUFFICES ASSUME LegsInv PROVE Legs!ResumesWhereItStood /\ Legs!PostsStayCapped
  OBVIOUS
<1> USE DEF LegsInv
<1>1. Legs!Loads(journal)
  <2>1. \A i \in 1..Len(journal) : journal[i].turn = i
    BY DEF JournalIsTheRecord
  <2>2. Len(journal) \in Nat
    BY DEF JournalIsTheRecord
  <2> QED BY <2>1, <2>2 DEF Legs!Loads
<1>2. Legs!ResumesWhereItStood
  BY <1>1 DEF Legs!ResumesWhereItStood, MindIsRestored, SameMind
<1>3. Legs!PostsStayCapped
  <2>1. /\ saved \in Nat /\ day \in Nat \ {0} /\ made \in Nat /\ undone \in Nat
        /\ stage \in {"waiting", "restored", "acting", "done"} /\ Len(journal) \in Nat
        /\ Journaled <= Len(journal) /\ mind.posts \in 0..PostCap
    BY DEF ResumeTyped, JournalIsTheRecord, IsMind
  <2>2. CASE up /\ stage \in {"restored", "acting"}
    <3>1. made <= undone + mind.posts
      BY <2>2 DEF PostsAreCounted
    <3> QED BY <3>1, <2>1, ResumeAssumption DEF Legs!PostsStayCapped
  <2>3. CASE ~(up /\ stage \in {"restored", "acting"})
    <3>1. Journaled \in Nat /\ Reached = Journaled
      BY <2>1, <2>3 DEF Journaled, Reached, Legs!Played
    <3>2. Posted(Journaled) \in 0..PostCap
      BY <2>1, <3>1, ResumeAssumption DEF Posted, JournalIsTheRecord
    <3>3. made <= undone + Posted(Journaled) + (Reached - Journaled)
      BY <3>1 DEF PostsAreCounted
    <3> QED BY <3>1, <3>2, <3>3, <2>1, ResumeAssumption DEF Legs!PostsStayCapped
  <2> QED BY <2>2, <2>3
<1> QED BY <1>2, <1>3

(* A step that leaves the legs alone keeps their invariant. *)
LEMMA LegsRest == LegsInv /\ UNCHANGED legVars => LegsInv'
BY DEF legVars, LegsInv, ResumeTyped, IsMind, JournalIsTheRecord, Journaled, MindIsKept, MindIsRestored,
       SameMind, PostsAreCounted, Posted, Reached, Legs!Played, Legs!Doc

(* Whatever was killed or taken back, a turn begins with the mind that the turn  *)
(* before it ended with, the journal is one the next constructor accepts, and    *)
(* the requests to the proposer go over the match's cap by the turns taken back  *)
(* at most: for every cap, option, look and number of kills                      *)
(* (planner/journal.py, planner/runtime.py _restore_from_journal).               *)
THEOREM LegsAreAlwaysSeamless == MCSpec => []LegsAreSeamless
<1>1. MCInit => LegsInv
  BY LegsInit DEF MCInit
<1>2. LegsInv /\ [MCNext]_<<which, vars, simVars, legVars, forecastVars>> => LegsInv'
  <2> SUFFICES ASSUME LegsInv, [MCNext]_<<which, vars, simVars, legVars, forecastVars>>
      PROVE  LegsInv'
    OBVIOUS
  <2>1. CASE Legs!Next
    <3>1. CASE \E artifact \in Artifact \cup {None}, armed \in BOOLEAN : Legs!Start(artifact, armed)
      BY <3>1, StartKeeps
    <3>2. CASE \E t \in 1..LastDay : Legs!Reuse(t)
      BY <3>2, ReuseKeeps
    <3>3. CASE Legs!Restore
      BY <3>3, RestoreKeeps
    <3>4. CASE \E look \in Looks, over \in BOOLEAN, option \in PlanOption, answered \in BOOLEAN :
                 Legs!Decide(look, over, option, answered)
      BY <3>4, DecideKeeps
    <3>5. CASE \E dead \in SUBSET mind.seen : Legs!Complete(dead)
      BY <3>5, CompleteKeeps
    <3>6. CASE Legs!Boundary
      BY <3>6, BoundaryKeeps
    <3>7. CASE Legs!Kill
      BY <3>7, KillKeeps
    <3> QED BY <2>1, <3>1, <3>2, <3>3, <3>4, <3>5, <3>6, <3>7 DEF Legs!Next
  <2>2. CASE UNCHANGED legVars
    BY <2>2, LegsRest
  <2>3. Legs!Next \/ UNCHANGED legVars
    BY DEF MCNext
  <2> QED BY <2>1, <2>2, <2>3
<1>3. LegsInv => LegsAreSeamless
  BY LegsInvIsEnough DEF LegsAreSeamless
<1> QED BY <1>1, <1>2, <1>3, PTL DEF MCSpec
=============================================================================
