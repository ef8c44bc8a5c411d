----------------------------- MODULE Expansion -----------------------------
(***************************************************************************)
(* How a seat grows past its first city: the policy that keeps one         *)
(* settlement mission and the receipt of the one founder trained for it,   *)
(* and the executor that sends the mission's actions, one a turn.  The     *)
(* land is a row of tiles with the city at 0; what makes a site unfit, a   *)
(* threat near the city and the guard that stays at home are each a fact   *)
(* of the observation.  The game carries an accepted order out at once, by *)
(* the next turn or never; the model may order the mission's units itself. *)
(***************************************************************************)
EXTENDS Integers, FiniteSets

CONSTANTS
  Site,            \* tiles a city may be founded on
  Wait, TTL, MaxCities, MaxReplans,    \* GrowthControls: quiet_turns, mission_ttl, ...
  LastTurn, MaxEvents,                 \* bounds
  None

VARIABLES
  day, step,
  g,               \* the game as observed
  due,             \* an accepted order it has yet to carry out
  pol, exe,        \* GrowthPolicy; SettlementExecutor
  touched,         \* the mission's units the model has ordered this turn
  sent, trained,   \* history: mission actions sent; turns a founder was accepted in
  events

vars == <<day, step, g, due, pol, exe, touched, sent, trained, events>>

Terminal == {"founded", "expired", "lost"}

Init ==
  /\ day = 1 /\ step = "begin"
  /\ g = [settler |-> None, escort |-> [at |-> 0, healthy |-> TRUE], guard |-> TRUE,
          threat |-> FALSE, open |-> Site, cities |-> {0}, queue |-> "", born |-> 0]
  /\ due = None
  /\ pol = [mode |-> "grow", quiet |-> 0, mission |-> None, preparation |-> None,
            training |-> None, reserved |-> FALSE]
  /\ exe = [pending |-> None, attempted |-> 0]
  /\ touched = {} /\ sent = {} /\ trained = {} /\ events = 0

Away(a, b) == IF a < b THEN b - a ELSE a - b
Next1(a, b) == IF a < b THEN a + 1 ELSE a - 1

-----------------------------------------------------------------------------
(* GrowthPolicy *)

Pending_IfVisible(p) == IF p.training = None THEN FALSE
                        ELSE p.training.status \notin {"completed", "unavailable"}

\* _training_pending: the receipt stands until its mission is closed.
Pending(p) == IF p.training = None THEN FALSE ELSE p.training.status # "completed"

\* _observe_founder_training: a queue that vanished never cancels the receipt.
Trained(p, t) ==
  IF ~Pending(p) THEN p
  ELSE LET r == p.training
           queued == g.queue = "SETTLER"
           \* an owned founder that was not there when it was accepted
           here == (g.settler # None) /\ (g.born > r.born)
           missing == ~queued /\ ~here /\ (t > r.accepted \/ r.seen)
           status == IF here THEN "observed" ELSE IF queued THEN "queued"
                     ELSE IF missing THEN "unavailable" ELSE "unresolved"
       IN [p EXCEPT !.training = [r EXCEPT !.seen = r.seen \/ queued, !.status = status]]

\* _unstarted: nothing was sent, trained or assigned for the mission.
Unstarted(m) ==
  IF m = None THEN TRUE
  ELSE m.status \notin Terminal /\ ~m.assigned /\ m.started = 0 /\ m.trained = 0 /\ ~m.attempted

FounderQueued(p) == g.queue = "SETTLER" \/ p.reserved

Origin == IF g.settler = None THEN 0 ELSE g.settler.at
Fit(s) == s \in g.open /\ \A c \in g.cities : Away(s, c) >= 2
Best(S) == CHOOSE s \in S : \A r \in S : \/ Away(Origin, s) < Away(Origin, r)
                                         \/ Away(Origin, s) = Away(Origin, r) /\ s <= r

Identity(m) == <<m.made, m.site>>
NewMission(p, t, site, tried) ==
  [site |-> site, made |-> t, status |-> "planned", assigned |-> FALSE, escort |-> FALSE,
   started |-> 0, progress |-> 0, attempted |-> FALSE, completed |-> 0, tried |-> tried,
   trained |-> IF p.preparation = "surveying" THEN p.training.accepted ELSE 0]

\* A new mission takes over the founder that was trained before it.
Adopted(p, m) ==
  LET unclaimed == IF Pending(p) THEN p.training.mission = None ELSE FALSE
  IN [p EXCEPT !.preparation = IF @ = "surveying" THEN "selected" ELSE @,
        !.mission = IF unclaimed THEN [m EXCEPT !.trained = p.training.accepted] ELSE m,
        !.training = IF unclaimed THEN [@ EXCEPT !.mission = Identity(m)] ELSE @]

EscortFit == g.guard /\ g.escort # None /\ g.escort.healthy /\ Away(g.escort.at, Origin) <= 1

\* The end of _plan_settlement: who goes, with whom, and what is waited for.
Manned(p, t) ==
  LET m == [p.mission EXCEPT !.assigned = g.settler # None,
              !.started = IF @ = 0 /\ g.settler # None THEN t ELSE @]
      committed == (~Unstarted(m) \/ FounderQueued(p)) /\ m.escort
      apart == committed /\ g.escort # None
               /\ (~g.guard \/ (IF g.escort = None THEN FALSE ELSE Away(g.escort.at, Origin) > 1))
      escort == IF committed THEN g.escort # None ELSE EscortFit
  IN [p EXCEPT !.mission =
       IF apart THEN [m EXCEPT !.status = "apart"]
       ELSE [m EXCEPT !.escort = escort,
               !.status = CASE ~escort -> "no_escort"
                            [] escort /\ ~g.escort.healthy -> "hurt_escort"
                            [] escort /\ g.escort.healthy /\ g.settler = None -> "awaiting_settler"
                            [] OTHER -> IF ~g.settler.healthy THEN "hurt_settler"
                                        ELSE IF ~g.settler.fresh THEN "awaiting_movement"
                                        ELSE "ready"]]

Status(p, status) == IF p.mission = None THEN p ELSE [p EXCEPT !.mission.status = status]

\* Where to settle: the mission's site while it is fit, another only before
\* anything is sent, trained or queued for it.
Sited(p, t) ==
  LET m == p.mission
      sites == {s \in (IF m = None THEN Site ELSE {m.site}) : Fit(s)}
      replan == IF m = None THEN FALSE
                ELSE /\ Unstarted(m) /\ g.settler = None /\ ~FounderQueued(p) /\ ~Pending(p)
                     /\ Cardinality(m.tried) < MaxReplans
      tried == m.tried \cup {m.site}
      others == IF replan THEN {s \in Site \ tried : Fit(s)} ELSE {}
  IN CASE sites # {} -> Manned(IF m = None THEN Adopted(p, NewMission(p, t, Best(sites), {}))
                               ELSE p, t)
       [] sites = {} /\ others # {} -> Manned(Adopted(p, NewMission(p, t, Best(others), tried)), t)
       [] OTHER -> Status(p, "infeasible")

Basis(m) == IF m.progress # 0 THEN m.progress ELSE m.started

\* _plan_settlement.
Plan(q, t) ==
  LET p == Trained(q, t)
      m == p.mission
      over == IF m = None THEN FALSE ELSE m.status \in Terminal
      here == IF m = None THEN FALSE ELSE m.site \in g.cities
      late == IF m = None THEN FALSE ELSE m.started # 0 /\ t - Basis(m) >= TTL
      lost == IF m = None THEN FALSE ELSE m.assigned /\ g.settler = None
  IN CASE over -> p
       [] ~over /\ here -> Status(p, "founded")
       [] ~over /\ ~here /\ late -> Status(p, "expired")
       [] ~over /\ ~here /\ ~late /\ lost -> Status(p, "lost")
       [] OTHER -> IF Cardinality(g.cities) >= MaxCities THEN Status(p, "city_limit")
                   ELSE IF p.mode = "defend" THEN Status(p, "suspended")
                   ELSE Sited(p, t)

Alarmed(p) == IF g.threat THEN [p EXCEPT !.mode = "defend", !.quiet = 0] ELSE p

\* begin_turn: the quiet clock goes on only here.
Calmed(p) ==
  IF g.threat \/ p.mode = "grow" THEN Alarmed(p)
  ELSE [p EXCEPT !.quiet = @ + 1, !.mode = IF p.quiet + 1 >= Wait THEN "grow" ELSE "defend"]

\* complete_turn: a mission confirmed this turn is closed, its receipt too.
Completed(p, t) ==
  IF (IF p.mission = None THEN TRUE ELSE p.mission.completed # t) THEN p
  ELSE [p EXCEPT !.mission = None,
          !.preparation = IF @ = "selected" THEN "completed" ELSE @,
          !.training = IF @ = None THEN None
                       ELSE IF @.mission = Identity(p.mission) THEN [@ EXCEPT !.status = "completed"] ELSE @]

-----------------------------------------------------------------------------
(* SettlementExecutor *)

\* observe, given the policy's view: only what the game shows confirms.
Seen(x, p) ==
  IF x.pending = None THEN "none"
  ELSE LET o == x.pending
       IN CASE o.superseded \/ o.status = "rejected" -> "open"
            [] ~(o.superseded \/ o.status = "rejected") /\ o.action = "move" ->
                 IF (IF o.unit = "settler" THEN g.settler # None /\ g.settler.at = o.dest
                     ELSE g.escort # None /\ g.escort.at = o.dest) THEN "arrived" ELSE "open"
            [] OTHER -> IF o.site \in g.cities /\ g.settler = None /\ p.mission # None
                        THEN (IF Identity(p.mission) = o.mission /\ p.mission.status = "founded"
                              THEN "settled" ELSE "open")
                        ELSE "open"

Confirmed(p, x, t) ==
  CASE Seen(x, p) = "arrived" /\ p.mission.status \notin Terminal -> [p EXCEPT !.mission.progress = t]
    [] Seen(x, p) = "settled" -> [p EXCEPT !.mission.completed = t]
    [] OTHER -> p
Cleared(x, p) == IF Seen(x, p) \in {"arrived", "settled"} THEN [x EXCEPT !.pending = None] ELSE x

Healthy == /\ g.settler # None /\ g.escort # None /\ g.guard
           /\ g.settler.healthy /\ g.escort.healthy

\* The mission's next action: the escort goes first when the settler would
\* leave it behind.
Action(m) ==
  LET dest == Next1(g.settler.at, m.site)
      step1 == Next1(g.escort.at, m.site)
  IN CASE g.settler.at = m.site -> [action |-> "found", unit |-> "settler", dest |-> m.site]
       [] g.settler.at # m.site /\ Away(g.escort.at, dest) <= 1 ->
            [action |-> "move", unit |-> "settler", dest |-> dest]
       [] OTHER -> [action |-> "move", unit |-> "escort", dest |-> step1]

\* May run send an action of the mission?
MayAct(p, x) ==
  IF p.mission = None THEN FALSE
  ELSE /\ x.pending = None /\ x.attempted < day
       /\ p.mission.status \in {"ready", "awaiting_movement"}
       /\ p.mission.assigned /\ p.mission.escort
       /\ Healthy /\ touched = {}
       /\ LET o == Action(p.mission)
          IN /\ o.action = "found" => Away(g.settler.at, g.escort.at) <= 1
             /\ o.unit = "escort" => g.escort.at # p.mission.site /\ Away(o.dest, g.settler.at) <= 1
             /\ o.unit = "settler" => g.settler.fresh

Superseded(x) ==
  IF x.pending = None THEN x ELSE [x EXCEPT !.pending.superseded = @ \/ x.pending.unit \in touched]

-----------------------------------------------------------------------------
CarriedOut(v, o) ==
  CASE o.action = "train" -> [v EXCEPT !.queue = "SETTLER"]
    [] o.action = "found" -> IF v.settler = None THEN v
                             ELSE [v EXCEPT !.cities = @ \cup {o.dest}, !.settler = None]
    [] OTHER -> IF o.unit = "settler"
                THEN IF v.settler = None THEN v
                     ELSE [v EXCEPT !.settler.at = o.dest, !.settler.fresh = FALSE]
                ELSE IF v.escort = None THEN v ELSE [v EXCEPT !.escort.at = o.dest]

\* A turn's news: production, threats, wounds, losses and what makes sites fit.
News(v) ==
  {[v EXCEPT !.threat = ~@], [v EXCEPT !.open = {}], [v EXCEPT !.open = Site], [v EXCEPT !.guard = ~@],
   [v EXCEPT !.queue = ""]}
  \cup (IF v.settler = None THEN {} ELSE {[v EXCEPT !.settler = None]})
  \cup (IF v.escort = None THEN {} ELSE {[v EXCEPT !.escort = None],
                                         [v EXCEPT !.escort.healthy = ~@]})
Rested(v) ==
  LET u == IF v.settler = None THEN v ELSE [v EXCEPT !.settler.fresh = TRUE]
  IN {u} \cup (IF u.queue # "SETTLER" \/ u.settler # None THEN {}
               ELSE {[u EXCEPT !.queue = "", !.born = @ + 1,
                        !.settler = [at |-> 0, healthy |-> TRUE, fresh |-> TRUE]]})

EngineTurn ==
  /\ step = "begin" /\ day <= LastTurn
  /\ \E v \in {g} \cup (IF due = None THEN {} ELSE {CarriedOut(g, due)}) :
     \E u \in Rested(v) :
       \/ g' = u /\ UNCHANGED events
       \/ events < MaxEvents /\ events' = events + 1 /\ g' \in News(u)
  /\ due' = None /\ touched' = {} /\ step' = "observe"
  /\ UNCHANGED <<day, pol, exe, sent, trained>>

\* begin_turn of the policy, and the executor's first look.
Observe ==
  /\ step = "observe"
  /\ LET p == Plan(Calmed([pol EXCEPT !.reserved = FALSE]), day)
     IN pol' = Confirmed(p, exe, day) /\ exe' = Cleared(exe, p)
  /\ step' = "scout"
  /\ UNCHANGED <<day, g, due, touched, sent, trained, events>>

\* A tactical override of the model for one of the mission's units.
Tactic ==
  /\ step = "scout" /\ events < MaxEvents /\ events' = events + 1
  /\ \/ g.settler # None /\ touched' = {"settler"}
        /\ \/ \E d \in {-1, 1} : g' = CarriedOut(g, [action |-> "move", unit |-> "settler",
                                                     dest |-> g.settler.at + d])
           \/ Fit(g.settler.at) /\ g' = CarriedOut(g, [action |-> "found", dest |-> g.settler.at])
     \/ g.escort # None /\ touched' = {"escort"}
        /\ \E d \in {-1, 1} : g' = [g EXCEPT !.escort.at = @ + d]
  /\ step' = "run"
  /\ UNCHANGED <<day, due, pol, exe, sent, trained>>

NoTactic == step = "scout" /\ step' = "run"
            /\ UNCHANGED <<day, g, due, pol, exe, touched, sent, trained, events>>

\* run of the executor without an action.
Looked == LET p == Plan(Alarmed(pol), day) IN <<Confirmed(p, Superseded(exe), day),
                                                Cleared(Superseded(exe), p)>>
Run ==
  /\ step = "run" /\ ~MayAct(Looked[1], Looked[2])
  /\ pol' = Looked[1] /\ exe' = Looked[2] /\ step' = "economy"
  /\ UNCHANGED <<day, g, due, touched, sent, trained, events>>

\* run sends the mission's action, refreshes and looks again.
Act(status, effect) ==
  /\ step = "run" /\ (status = "rejected" => effect = "never")
  /\ MayAct(Looked[1], Looked[2])
  /\ LET p == Looked[1]
         o == Action(p.mission)
     IN /\ g' = IF effect = "now" THEN CarriedOut(g, o) ELSE g
        /\ due' = IF effect = "later" THEN o ELSE None
        /\ exe' = [pending |-> [action |-> o.action, unit |-> o.unit, dest |-> o.dest,
                                mission |-> Identity(p.mission), site |-> p.mission.site, turn |-> day,
                                status |-> status, superseded |-> FALSE],
                   attempted |-> day]
        /\ pol' = [p EXCEPT !.mission.attempted = TRUE]
        /\ sent' = sent \cup {[turn |-> day, mission |-> Identity(p.mission), action |-> o.action,
                               unit |-> o.unit, dest |-> o.dest, status |-> status,
                               beside |-> Away(IF o.unit = "escort" THEN o.dest ELSE g.escort.at,
                                               IF o.unit = "settler" THEN o.dest ELSE g.settler.at) <= 1]}
  /\ step' = "sent"
  /\ UNCHANGED <<day, touched, trained, events>>

Looked2 ==
  /\ step = "sent"
  /\ LET p == Plan(Alarmed(pol), day)
     IN pol' = Confirmed(p, exe, day) /\ exe' = Cleared(exe, p)
  /\ step' = "economy"
  /\ UNCHANGED <<day, g, due, touched, sent, trained, events>>

-----------------------------------------------------------------------------
(* adjust_production and reserve_founder_production *)

Founders(p) == (IF g.settler = None THEN 0 ELSE 1) + (IF FounderQueued(p) THEN 1 ELSE 0)
Grows(p) == p.mode = "grow" /\ Founders(p) = 0 /\ ~Pending(p)
Expands(p) ==
  Grows(p) /\ (IF p.mission = None THEN FALSE
               ELSE p.mission.status = "awaiting_settler" /\ p.mission.trained = 0)
Prepares(p) ==
  /\ Grows(p) /\ Unstarted(p.mission) /\ Cardinality(g.cities) < MaxCities
  /\ g.guard /\ g.escort # None /\ g.escort.healthy /\ Away(g.escort.at, 0) <= 1

Receipt(p) == [status |-> "unresolved", accepted |-> day, seen |-> FALSE, born |-> g.born,
               mission |-> IF p.mission = None THEN None ELSE Identity(p.mission)]
Reserved(p) ==
  LET q == IF Expands(p) THEN [p EXCEPT !.mission.trained = day]
           ELSE [p EXCEPT !.mission = None, !.preparation = "surveying"]
  IN [q EXCEPT !.training = Receipt(q), !.reserved = TRUE]

\* An empty queue is given a founder, which the game accepts or rejects and
\* may show in the queue, show later, or not at all.
Train(effect) ==
  /\ step = "economy" /\ g.queue = ""
  /\ effect = "later" => due = None
  /\ LET p == Plan(Alarmed(pol), day)
     IN /\ Expands(p) \/ Prepares(p)
        /\ \/ effect # "rejected" /\ pol' = Reserved(p)
              /\ trained' = trained \cup {day}
           \/ effect = "rejected" /\ pol' = p /\ UNCHANGED trained
  /\ g' = IF effect = "now" THEN CarriedOut(g, [action |-> "train"]) ELSE g
  /\ due' = IF effect = "later" THEN [action |-> "train"] ELSE due
  /\ step' = "close"
  /\ UNCHANGED <<day, exe, touched, sent, events>>

\* Something else is built, or the queue is not empty.
TrainOther ==
  /\ step = "economy" /\ step' = "close"
  /\ pol' = Plan(Alarmed(pol), day)
  /\ ~(g.queue = "" /\ (Expands(pol') \/ Prepares(pol')))
  /\ UNCHANGED <<day, g, due, exe, touched, sent, trained, events>>

Close ==
  /\ step = "close" /\ step' = "begin" /\ day' = day + 1
  /\ pol' = Completed(pol, day)
  /\ UNCHANGED <<g, due, exe, touched, sent, trained, events>>

Next ==
  \/ EngineTurn \/ Observe \/ Tactic \/ NoTactic \/ Run \/ Looked2 \/ TrainOther \/ Close
  \/ \E status \in {"accepted", "rejected"}, effect \in {"now", "later", "never"} : Act(status, effect)
  \/ \E effect \in {"now", "later", "never", "rejected"} : Train(effect)

Spec == Init /\ [][Next]_vars

-----------------------------------------------------------------------------
\* There is never more than one founder queued, afield or still to come of an
\* accepted order, and one is accepted only for a city founded since the last:
\* however late the game shows what it accepted, and when it never does.
OneFounderAtATime ==
  /\ Cardinality({x \in {"afield", "queued", "due"} :
                    CASE x = "afield" -> g.settler # None
                      [] x = "queued" -> g.queue = "SETTLER"
                      [] OTHER -> IF due = None THEN FALSE ELSE due.action = "train"}) <= 1
  /\ Cardinality(trained) <= Cardinality(g.cities)

\* A mission's action is sent at most once a turn, only with its escort beside
\* it, and never while the one before it is not seen to be done.
MissionsAreCareful ==
  /\ \A a \in sent : a.beside
  /\ \A a, b \in sent : a # b => a.turn # b.turn
  /\ \A a, b \in sent : a.turn < b.turn /\ a.mission = b.mission => a.status = "accepted"

\* The receipt of a founder belongs to the mission that is under way, or to
\* none while a site is still looked for; it is completed with the mission.
ReceiptFollowsMission ==
  Pending(pol) =>
    IF pol.training.mission = None
    THEN pol.mission = None /\ pol.preparation = "surveying"
    ELSE IF pol.mission = None THEN FALSE ELSE Identity(pol.mission) = pol.training.mission
=============================================================================
