----------------------------- MODULE Forecasts -----------------------------
(***************************************************************************)
(* The forecasts of a strategic seat's builds (agents/build_option.py,     *)
(* agents/economic_forecast.py): one is issued when a production choice is *)
(* accepted, watched at the opening of every later turn, and settled by    *)
(* what is seen of the queue; a threat or a new rate censors it.  The      *)
(* advice that is made of them (advisory, compare_alternatives) changes    *)
(* nothing and is left out.                                                *)
(***************************************************************************)
EXTENDS Integers, Sequences, FiniteSets

CONSTANTS
  City, Item, Defender,  \* Defender \subseteq Item
  MaxLeft,               \* turns a build is estimated to take
  LastTurn, MaxChanges, MaxForecasts,  \* bounds; changes are those nobody forecast
  None                   \* no item, no forecast, not censored

VARIABLES
  forecastTurn, watched, \* the turn; whether its observation is past
  city,                  \* per city: [mine, item, left]
  threat,                \* a barbarian is near an owned city
  changes,               \* changes so far
  monitor,               \* per city, its pending forecast
  issued,                \* every accepted forecast: [city, item, turn, due]
  told,                  \* the outcomes: [id, event, turn, censored]
  past                   \* history: [threats: turns, rates: [city, turn, due] told by
                         \* a row, built: [city, turn] of the items that were done]

vars == <<forecastTurn, watched, city, threat, changes, monitor, issued, told, past>>

Init ==
  /\ forecastTurn = 1 /\ watched = FALSE /\ threat = FALSE /\ changes = 0
  /\ city = [c \in City |-> [mine |-> TRUE, item |-> None, left |-> 0]]
  /\ monitor = [c \in City |-> None]
  /\ issued = <<>> /\ told = {}
  /\ past = [threats |-> {}, rates |-> {}, built |-> {}]

-----------------------------------------------------------------------------
(* The engine. *)
Idle(c) == city[c].item = None
Built(c) == [mine |-> city[c].mine, item |-> None, left |-> 0]

\* The next turn: every build goes on; a barbarian comes, goes or stays.
NextTurn ==
  /\ watched /\ forecastTurn < LastTurn
  /\ \A c \in City : city[c].mine => ~Idle(c)
  /\ forecastTurn' = forecastTurn + 1 /\ watched' = FALSE
  /\ city' = [c \in City |-> IF Idle(c) THEN city[c] ELSE IF city[c].left = 1 THEN Built(c)
                             ELSE [city[c] EXCEPT !.left = @ - 1]]
  /\ past' = [past EXCEPT !.built = @ \cup {[city |-> c, turn |-> forecastTurn + 1] :
                                             c \in {d \in City : city[d].left = 1}}]
  /\ threat' \in BOOLEAN
  /\ UNCHANGED <<changes, monitor, issued, told>>

\* What no forecast foresees: a rate changes, a city is lost, another item takes
\* the head of the queue or the queue is emptied.
Change(c) ==
  /\ changes < MaxChanges /\ changes' = changes + 1 /\ city[c].mine /\ ~Idle(c)
  /\ \/ \E n \in 1..(MaxLeft + 1) : n # city[c].left /\ city' = [city EXCEPT ![c].left = n]
     \/ city' = [city EXCEPT ![c] = [Built(c) EXCEPT !.mine = FALSE]]
     \/ \E i \in Item \ {city[c].item} : city' = [city EXCEPT ![c].item = i]
     \/ city' = [city EXCEPT ![c] = Built(c)]
  /\ UNCHANGED <<forecastTurn, watched, threat, monitor, issued, told, past>>

-----------------------------------------------------------------------------
(* The monitor. *)
Threats == threat /\ \E c \in City : city[c].mine
Outcome(p, event) ==
  [id |-> p.id, event |-> event, turn |-> forecastTurn, censored |-> p.censored]

\* forecast_completion_turn is a date; the row of a catalog counts turns down.
OnTime_Countdown(c) == city[c].left = monitor[c].due - issued[monitor[c].id].turn
OnTime(c) == forecastTurn + city[c].left = monitor[c].due

\* A threat censors all but a defender's build; a catalog row of the item, while it
\* is still the head, that implies another date censors it too. Only the first
\* reason is kept.
Censored(c, row) ==
  LET p == monitor[c]
      byThreat == Threats /\ p.item \notin Defender
      byRate == city[c].mine /\ row /\ city[c].item = p.item /\ p.due # 0 /\ ~OnTime(c)
  IN IF p.censored # None THEN p.censored
     ELSE IF byThreat THEN "threat" ELSE IF byRate THEN "rate" ELSE None

\* classify_outcome, after the censoring.
Event(c) ==
  LET p == monitor[c] IN
  CASE ~city[c].mine -> "unobserved"
    [] city[c].mine /\ city[c].item = p.item ->
         IF p.due # 0 /\ forecastTurn > p.due /\ ~p.overdue THEN "overdue" ELSE "none"
    [] city[c].mine /\ city[c].item \notin {p.item, None} -> "queue_changed"
    [] city[c].mine /\ Idle(c) ->
         IF p.due = 0 THEN "completed" ELSE IF forecastTurn < p.due THEN "early"
         ELSE IF forecastTurn = p.due THEN "in_window" ELSE "late"

Terminal == {"unobserved", "queue_changed", "completed", "early", "in_window", "late", "superseded"}
Pending == {c \in City : monitor[c] # None}

\* observe, before the turn's decision and orders; rows are those of the pending
\* cities whose catalog has the item.
Observe ==
  /\ ~watched /\ watched' = TRUE
  /\ \E rows \in SUBSET {c \in Pending : city[c].mine} :
       LET seen == [c \in Pending |-> [monitor[c] EXCEPT !.censored = Censored(c, c \in rows)]]
           says == {c \in Pending : Event(c) # "none"}
           out == [c \in says |-> Outcome(seen[c], Event(c))]
       IN /\ told' = told \cup {out[c] : c \in says}
          /\ monitor' = [c \in City |->
               IF c \notin Pending \/ (c \in says /\ Event(c) \in Terminal) THEN None
               ELSE [seen[c] EXCEPT !.overdue = @ \/ c \in says]]
          /\ past' = [built |-> past.built,
               threats |-> past.threats \cup (IF Threats THEN {forecastTurn} ELSE {}),
               rates |-> past.rates \cup {[city |-> c, turn |-> forecastTurn,
                                           due |-> forecastTurn + city[c].left] :
                                            c \in {d \in rows : city[d].item = monitor[d].item}}]
  /\ UNCHANGED <<forecastTurn, city, threat, changes, issued>>

\* register: a forecast of another item that is still pending is superseded, one of
\* the same item is replaced.
Registered(c, f) ==
  /\ issued' = Append(issued, f)
  /\ monitor' = [monitor EXCEPT ![c] =
       [id |-> Len(issued) + 1, item |-> f.item, due |-> f.due, censored |-> None, overdue |-> FALSE]]
  /\ told' = IF monitor[c] # None /\ monitor[c].item # f.item
             THEN told \cup {[Outcome(monitor[c], "superseded") EXCEPT !.censored = None]}
             ELSE told

\* _economy: a production choice for a city with an empty queue; the engine's
\* estimate is known or not. It is forecast only when it is accepted.
Produce(c) ==
  /\ watched /\ city[c].mine /\ Idle(c) /\ Len(issued) < MaxForecasts
  /\ \E i \in Item, n \in 1..MaxLeft, known \in BOOLEAN :
       /\ city' = [city EXCEPT ![c] = [mine |-> TRUE, item |-> i, left |-> n]]
       /\ Registered(c, [city |-> c, item |-> i, turn |-> forecastTurn,
                         due |-> IF known THEN forecastTurn + n ELSE 0])
  /\ UNCHANGED <<forecastTurn, watched, threat, changes, past>>

Next == NextTurn \/ Observe \/ \E c \in City : Change(c) \/ Produce(c)

Spec == Init /\ [][Next]_vars

-----------------------------------------------------------------------------
OutcomesOf(id) == {r \in told : r.id = id}
Settled(id) == {r \in OutcomesOf(id) : r.event \in Terminal}

\* A forecast is pending until it is settled, and settled once, whatever becomes of
\* its city and its queue; only one that the same item replaced is neither. It is
\* called overdue at most once, and then still pending: nothing settles it in the
\* same turn but a queue that is emptied after the look, and filled with another item.
FatesAreSettled ==
  \A id \in DOMAIN issued :
    LET c == issued[id].city
        pending == monitor[c] # None /\ monitor[c].id = id
        late == {r \in OutcomesOf(id) : r.event = "overdue"}
    IN /\ Cardinality(Settled(id)) <= 1 /\ Cardinality(late) <= 1
       /\ pending => Settled(id) = {}
       /\ ~pending /\ Settled(id) = {} =>
            \E next \in (id + 1)..Len(issued) :
              issued[next].city = c /\ issued[next].item = issued[id].item
       /\ \A o \in late, r \in Settled(id) :
            o.turn < r.turn \/ (o.turn = r.turn /\ r.event = "superseded")

\* A verdict is censored exactly when the build, in a turn after it was chosen up
\* to the verdict, stood under a threat or a row told another date for it; and it
\* says "in the estimated window" exactly of a build whose queue is empty on the
\* turn that was forecast.
VerdictsAreFair ==
  \A r \in told :
    LET f == issued[r.id]
        threatened == f.item \notin Defender /\ \E t \in past.threats : f.turn < t /\ t <= r.turn
        changed == f.due # 0 /\ \E x \in past.rates :
                     x.city = f.city /\ f.turn < x.turn /\ x.turn <= r.turn /\ x.due # f.due
    IN r.event \in {"completed", "early", "in_window", "late"} =>
         /\ (r.censored # None) = (threatened \/ changed)
         /\ (r.event = "in_window") = (f.due # 0 /\ r.turn = f.due)
         /\ [city |-> f.city, turn |-> r.turn] \in past.built \/ changes > 0
=============================================================================
