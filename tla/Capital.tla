------------------------------ MODULE Capital ------------------------------
(***************************************************************************)
(* The founding of a seat's first city: the plan the strategic controller  *)
(* keeps for its one settler, over the turns it takes.  The land is a row  *)
(* of sites; what forbids a site (terrain, an owner, a city near by, a     *)
(* foreign unit) is one set, which changes from turn to turn and within    *)
(* one.  The game accepts or rejects an order, and carries an accepted one *)
(* out at once, by the next turn, or never.                                *)
(***************************************************************************)
EXTENDS Integers, FiniteSets

CONSTANTS
  Site,            \* numbers; neighbours differ by one
  Start,
  Guards,          \* what may be forbidden at one time: sets of sites
  MaxPlanTurns, MaxRelocations, MaxGuardHolds,
  MaxTurn, MaxMishaps,   \* bounds
  None, Gone

VARIABLES
  turn, stage,
  w,               \* the world: the settler, its health and movement, the cities, what is guarded
  plan, order,     \* InitialCapitalPlan; the directive's override for the founder
  sent,            \* the founder's order of this turn, as the scouting pass reports it
  due,             \* an accepted order the game has yet to carry out
  acted, idle,     \* history: orders sent; turns closed with nothing done
  mishaps

vars == <<turn, stage, w, plan, order, sent, due, acted, idle, mishaps>>

Action == {"move", "found"}
Hold == [action |-> "hold", dest |-> Start]
Orders == {None, Hold} \cup [action : Action, dest : Site]

Init ==
  /\ turn = 1 /\ stage = "begin"
  /\ w = [at |-> Start, healthy |-> TRUE, fresh |-> TRUE, cities |-> {}, guarded |-> {}]
  /\ plan = [mission |-> None, pending |-> None, disabled |-> FALSE, failed |-> FALSE,
             started |-> 0, relocations |-> 0, failedEdges |-> {}, foundSites |-> {},
             resolution |-> FALSE, holds |-> 0, lastHold |-> 0, completed |-> 0]
  /\ order = None /\ sent = None /\ due = None /\ acted = {} /\ idle = {} /\ mishaps = 0

-----------------------------------------------------------------------------
\* observe, of what an order came to.
Settled(p, t) ==
  LET o == p.pending
  IN CASE o.action = "move" /\ o.status = "accepted" /\ w.at = p.mission.site ->
            [p EXCEPT !.mission.arrived = t, !.pending = None]
       [] o.action = "move" /\ ~(o.status = "accepted" /\ w.at = p.mission.site)
            /\ (o.status = "rejected" \/ t > o.turn) ->
            [p EXCEPT !.failedEdges = @ \cup {<<o.origin, p.mission.site>>}, !.resolution = TRUE]
       [] o.action = "found" /\ o.status = "rejected" -> [p EXCEPT !.resolution = TRUE]
       [] o.action = "found" /\ o.status = "accepted" /\ t > o.turn -> [p EXCEPT !.failed = TRUE]
       [] OTHER -> p

\* The founder is gone, and a city stands where it was ordered to found one.
Founded(p) ==
  /\ p.pending # None
  /\ p.pending.action = "found" /\ p.pending.status = "accepted" /\ ~p.pending.superseded
  /\ w.at = Gone /\ p.mission.site \in w.cities

Observe(p, t) ==
  LET q == [p EXCEPT !.started = IF @ = 0 THEN t ELSE @]
  IN CASE p.disabled -> p
       [] ~p.disabled /\ p.mission # None /\ Founded(p) ->
            [p EXCEPT !.completed = t, !.pending = None, !.disabled = TRUE]
       [] ~p.disabled /\ ~(p.mission # None /\ Founded(p)) /\ w.cities # {} ->
            [p EXCEPT !.disabled = TRUE,
                      !.pending = IF @ = None THEN None ELSE [@ EXCEPT !.superseded = TRUE]]
       [] OTHER ->
            IF w.at = Gone \/ t - q.started >= MaxPlanTurns THEN [q EXCEPT !.failed = TRUE]
            ELSE IF q.mission = None \/ q.pending = None THEN q
            ELSE IF q.pending.status = "due" THEN q
            ELSE Settled(q, t)

Guarded(site) == w.at = Gone \/ ~w.healthy \/ site \in w.guarded

Beside(a, b) == a - b \in {1, -1}
Target(o) == IF o.action = "move" THEN o.dest ELSE w.at

\* directive_error: may the model's order for the founder be taken?
Refused(p, o) ==
  /\ ~p.disabled /\ ~p.failed
  /\ IF w.at = Gone THEN TRUE
     ELSE IF o = None THEN p.resolution
     ELSE IF o.action = "hold" THEN FALSE
     ELSE \/ Guarded(Target(o))
          \/ o.action = "move" /\ (\/ ~Beside(w.at, o.dest) \/ <<w.at, o.dest>> \in p.failedEdges
                                   \/ p.relocations >= MaxRelocations)
          \/ o.action = "found" /\ w.at \in p.foundSites
          \/ IF p.pending = None THEN FALSE
             ELSE p.pending.action = "found" /\ p.pending.status = "accepted"

\* prepare drops a hold that nothing observed calls for.
Kept(o) == IF o = None THEN None
           ELSE IF o.action = "hold" /\ ~Guarded(w.at) THEN None ELSE o

\* A new order retires what was pending.
Pending(p, o, t) ==
  IF o = None \/ o = Hold THEN None
  ELSE [action |-> o.action, status |-> "due", turn |-> t, origin |-> w.at, superseded |-> FALSE]

Prepared(p, o, t) ==
  CASE p.disabled \/ p.failed -> p
    [] ~(p.disabled \/ p.failed) /\ Refused(p, o) -> [p EXCEPT !.failed = TRUE]
    [] OTHER -> IF Kept(o) = None /\ p.mission # None THEN p
                ELSE [p EXCEPT !.resolution = FALSE, !.pending = Pending(p, Kept(o), t),
                        !.mission = [site |-> IF Kept(o) = None THEN w.at ELSE Target(Kept(o)),
                                     arrived |-> 0]]

-----------------------------------------------------------------------------
Stops(p) == p.failed
Goes(p, next) == stage' = IF Stops(p) THEN "stopped" ELSE next

\* What the game did with an order, as far as it shows.
CarriedOut(v, o) ==
  IF o.action = "move" THEN [v EXCEPT !.at = o.dest, !.fresh = FALSE]
  ELSE [v EXCEPT !.cities = @ \cup {v.at}, !.at = Gone]

\* begin_turn: the game went on, and the plan observes.
Begin ==
  /\ stage = "begin" /\ turn <= MaxTurn
  /\ \E v \in {w} \cup (IF due = None \/ w.at = Gone THEN {} ELSE {CarriedOut(w, due)}),
        ill, spent \in BOOLEAN, guarded \in Guards :
       \/ w' = [v EXCEPT !.healthy = ~ill, !.fresh = ~spent, !.guarded = guarded]
          /\ UNCHANGED mishaps
       \/ /\ mishaps < MaxMishaps /\ mishaps' = mishaps + 1
          /\ w' \in {[v EXCEPT !.at = Gone], [v EXCEPT !.cities = @ \cup {-1}]}
  /\ due' = None /\ sent' = None /\ order' = None /\ stage' = "observe"
  /\ UNCHANGED <<turn, plan, acted, idle>>

\* The controller asks for a directive, which a required resolution makes it
\* do, or plays on; a refused order stops the match after its repair.
Decide(o) ==
  /\ stage = "observe"
  /\ LET p == Observe(plan, turn)
     IN /\ o = None => ~p.resolution \/ p.disabled \/ p.failed
        /\ IF p.failed THEN o = None /\ plan' = p
                       ELSE ~Refused(p, o) /\ plan' = Prepared(p, o, turn)
        /\ order' = IF p.disabled THEN None ELSE Kept(o)
        /\ Goes(plan', "scout")
  /\ UNCHANGED <<turn, w, sent, due, acted, idle, mishaps>>

\* Another unit's move shows more, before the founder's order is sent.
Reveal ==
  /\ stage = "scout" /\ sent = None
  /\ \E guarded \in Guards : w' = [w EXCEPT !.guarded = guarded]
  /\ stage' = "revealed"
  /\ UNCHANGED <<turn, plan, order, sent, due, acted, idle, mishaps>>

\* dispatch_error: the order must still be the plan's, and still be allowed.
DispatchError(p, o) ==
  \/ p.pending = None \/ w.at # p.pending.origin \/ Target(o) # p.mission.site
  \/ Refused(p, o)

Explicit == IF order = None THEN FALSE ELSE order # Hold

\* An order to the game: what it answers and when it does it.
Effects(status) == IF status = "accepted" THEN {"now", "later", "never"} ELSE {"never"}
Sends(o, status, effect) ==
  /\ acted' = acted \cup {[turn |-> turn, action |-> o.action, site |-> Target(o),
                           origin |-> w.at, status |-> status, effect |-> effect]}
  /\ w' = IF effect = "now" THEN CarriedOut(w, o) ELSE w
  /\ due' = IF effect = "later" THEN o ELSE None

\* scouting_execute of the founder's order; a guard that has come up stops
\* the match.
Dispatch(status, effect) ==
  /\ stage \in {"scout", "revealed"} /\ Explicit /\ ~plan.disabled
  /\ effect \in Effects(status)
  /\ IF DispatchError(plan, order)
     THEN /\ plan' = [plan EXCEPT !.failed = TRUE] /\ stage' = "stopped"
          /\ UNCHANGED <<w, due, acted, sent>>
     ELSE /\ Sends(order, status, effect) /\ sent' = status /\ stage' = "run"
          /\ UNCHANGED plan
  /\ UNCHANGED <<turn, order, idle, mishaps>>

\* No order for the founder, or the scouting pass leaves it out.
NoDispatch ==
  /\ stage \in {"scout", "revealed"} /\ stage' = "run"
  /\ UNCHANGED <<turn, w, plan, order, sent, due, acted, idle, mishaps>>

-----------------------------------------------------------------------------
Attempted_None(p, site) == p

\* A site is founded on at most once, whatever comes of it.
Attempted(p, site) == [p EXCEPT !.foundSites = @ \cup {site}]

\* run, first: the receipt of the order the model gave.
Received(p) ==
  IF (IF p.pending = None THEN TRUE ELSE p.pending.status # "due") THEN p
  ELSE IF sent = None THEN [p EXCEPT !.failed = TRUE]
  ELSE LET q == [p EXCEPT !.pending.status = sent]
       IN IF p.pending.action = "move" THEN [q EXCEPT !.relocations = @ + 1]
                                       ELSE Attempted(q, p.mission.site)

Held(p) ==
  LET q == IF p.lastHold = turn THEN p ELSE [p EXCEPT !.holds = @ + 1, !.lastHold = turn]
  IN [q EXCEPT !.failed = q.holds > MaxGuardHolds]

\* run without an order of its own: it observes, and waits on a guard, on the
\* order the founder has, on its movement; or it may not found here again.
MustFound(p) == ~p.disabled /\ ~p.failed /\ p.mission # None /\ p.pending = None
Waits(p) ==
  CASE Guarded(p.mission.site) -> Held(p)
    [] ~Guarded(p.mission.site) /\ order # None ->
         IF p.mission.arrived = turn THEN p ELSE Held(p)
    [] ~Guarded(p.mission.site) /\ order = None /\ w.at # p.mission.site ->
         [p EXCEPT !.failed = TRUE]
    [] ~Guarded(p.mission.site) /\ order = None /\ w.at = p.mission.site /\ ~w.fresh -> Held(p)
    [] OTHER -> [p EXCEPT !.failed = TRUE]

MayFound(p) ==
  /\ MustFound(p) /\ ~Guarded(p.mission.site) /\ order = None
  /\ w.at = p.mission.site /\ w.fresh /\ p.mission.site \notin p.foundSites

\* A turn the founder neither acts in, nor is held, nor has just arrived, nor
\* has a city.
Idle(p) ==
  /\ ~p.disabled /\ p.lastHold # turn
  /\ \A a \in acted : a.turn # turn
  /\ IF p.mission = None THEN TRUE ELSE p.mission.arrived # turn

Run ==
  /\ stage = "run"
  /\ LET p == Observe(Received(plan), turn)
         q == IF MustFound(p) THEN Waits(p) ELSE p
     IN /\ ~MayFound(p)
        /\ plan' = q /\ Goes(q, "close")
        /\ idle' = IF Idle(q) /\ ~q.failed
                   THEN idle \cup {[turn |-> turn, asks |-> q.resolution]} ELSE idle
  /\ UNCHANGED <<turn, w, order, sent, due, acted, mishaps>>

\* run founds the city, and observes once more.
Found(status, effect) ==
  /\ stage = "run" /\ effect \in Effects(status)
  /\ LET p == Observe(Received(plan), turn)
         o == [action |-> "found", dest |-> Start]
     IN /\ MayFound(p)
        /\ Sends(o, status, effect)
        /\ plan' = [Attempted(p, p.mission.site) EXCEPT !.pending =
                      [action |-> "found", status |-> status, turn |-> turn, origin |-> w.at,
                       superseded |-> FALSE]]
  /\ stage' = "founded"
  /\ UNCHANGED <<turn, order, sent, idle, mishaps>>

Observed ==
  /\ stage = "founded" /\ plan' = Observe(plan, turn) /\ Goes(plan', "close")
  /\ UNCHANGED <<turn, w, order, sent, due, acted, idle, mishaps>>

Close ==
  /\ stage = "close" /\ stage' = "begin" /\ turn' = turn + 1
  /\ UNCHANGED <<w, plan, order, sent, due, acted, idle, mishaps>>

Next ==
  \/ Begin \/ Reveal \/ NoDispatch \/ Run \/ Observed \/ Close
  \/ \E o \in Orders : Decide(o)
  \/ \E status \in {"accepted", "rejected"}, effect \in {"now", "later", "never"} :
       Dispatch(status, effect) \/ Found(status, effect)

Spec == Init /\ [][Next]_vars

-----------------------------------------------------------------------------
\* No site is tried twice, nothing is ordered after a founding the game has
\* accepted, a move that came to nothing is not ordered again, and the
\* founder's moves stay within the plan's.
NothingTwice ==
  \A a, b \in acted : a # b =>
    /\ a.action = "found" /\ b.action = "found" => a.site # b.site
    /\ a.action = "found" /\ a.status = "accepted" => b.turn <= a.turn
    /\ a.action = "move" /\ b.action = "move" /\ a.effect = "never" /\ a.turn < b.turn
         => <<a.origin, a.site>> # <<b.origin, b.site>>

\* The plan takes credit for a city only if its order founded it, at the site
\* the order named.
CreditIsEarned ==
  plan.completed # 0 =>
    \E a \in acted : a.action = "found" /\ a.effect # "never" /\ a.site \in w.cities

\* A founder is never left idle for a turn but while the plan still asks the
\* model to resolve a failed order; and the plan ends within its turns.
NeverIdleUnasked ==
  /\ \A i \in idle : i.asks
  /\ stage = "close" /\ ~plan.disabled => turn - plan.started < MaxPlanTurns

CapitalIsFoundedWithCare == NothingTwice /\ CreditIsEarned /\ NeverIdleUnasked
=============================================================================
