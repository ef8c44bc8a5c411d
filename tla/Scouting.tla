------------------------------ MODULE Scouting ------------------------------
(***************************************************************************)
(* The routine that moves a seat's scouts, over the turns: the overlay     *)
(* that holds a hurt unit, the memory of moves that came to nothing, and   *)
(* the pass that orders at most two attempts from what it last observed.   *)
(* One unit on a row of tiles; what forbids a tile (terrain, an owner, a   *)
(* threat, another unit) is one set, and the scores a choice among the     *)
(* rest.  The game rejects an order, or accepts it and carries it out at   *)
(* once, by the next turn or never.                                        *)
(***************************************************************************)
EXTENDS Integers, FiniteSets

CONSTANTS
  Tile,                       \* numbers; neighbours differ by one
  Blocked,                    \* what may be forbidden at one time: sets of tiles
  Named,                      \* tiles an override may name
  Health, EnterBelow, ResumeAt,   \* RecoveryPolicy: held below the one until at the other
  TTL,                        \* NONPROGRESS_TTL
  LastTurn, MaxEvents,        \* bounds
  None

VARIABLES
  turn, stage, frozen,        \* frozen: opening_units_frozen
  unit,                       \* as last observed
  bad,                        \* tiles the routine may not enter
  tracker, overlay,           \* RecoveryTracker's row of the unit; this turn's
  staged, cooling,            \* ScoutingFeedback: _pending; _cooldowns
  order, role,                \* the directive's override; what else the unit is for
  untouched, tried, due,
  moves,                      \* history: the orders to move of the last turns
  hurt, settled,              \* history: see HeldWhileHurt and NeverPushed
  events

vars == <<turn, stage, frozen, unit, bad, tracker, overlay, staged, cooling, order, role,
          untouched, tried, due, moves, hurt, settled, events>>

Beside(a) == {b \in Tile : b - a \in {1, -1}}
Orders == {None, [action |-> "hold", dest |-> None]} \cup [action : {"move"}, dest : Named]
Low == unit.hp < EnterBelow

Init ==
  /\ turn = 1 /\ stage = "open" /\ frozen \in BOOLEAN
  /\ unit = [at |-> 1, hp |-> ResumeAt, valid |-> TRUE, mv |-> 1, fort |-> FALSE]
  /\ bad = {} /\ tracker = None /\ overlay = None /\ staged = None /\ cooling = None
  /\ order = None /\ role = "scout" /\ untouched = FALSE /\ tried = {} /\ due = None
  /\ moves = {} /\ hurt = FALSE /\ settled = 1 /\ events = 0

-----------------------------------------------------------------------------
(* RecoveryTracker and ScoutingFeedback at the opening of a turn *)

Threshold_Flat(row) == EnterBelow

\* Held below the one percentage, it goes again at the other.
Threshold(row) == IF row = None THEN EnterBelow
                  ELSE IF row.recovering THEN ResumeAt ELSE EnterBelow

\* begin_turn of the tracker: unknown health neither holds for good nor frees.
Proposed(u) ==
  IF u.valid
  THEN IF u.hp >= Threshold(tracker) THEN None ELSE [recovering |-> TRUE]
  ELSE [recovering |-> IF tracker = None THEN FALSE ELSE tracker.recovering]

\* begin_turn of the feedback: an accepted move is only now known to have
\* come to nothing; a unit that stands elsewhere is forgotten.
Cooled(u, t) ==
  LET origin == IF cooling # None THEN cooling.origin
                ELSE IF staged # None THEN staged.origin ELSE None
      old == IF cooling = None THEN {} ELSE cooling.dests
      new == IF staged = None THEN {}
             ELSE IF staged.turn = t - 1 THEN {[dest |-> staged.dest, until |-> t + TTL]} ELSE {}
      kept == {r \in {o \in old : \A n \in new : n.dest # o.dest} \cup new : t < r.until}
  IN IF origin = u.at /\ kept # {} THEN [origin |-> origin, dests |-> kept] ELSE None

\* The engine's turn: an accepted order may be carried out late, the unit
\* rests, is hurt or healed, or its health cannot be read.
CarriedOut(u) == IF due = None THEN u ELSE [u EXCEPT !.at = due, !.fort = FALSE]
Rested(u, heals) == [u EXCEPT !.mv = IF frozen THEN 0 ELSE 1,
                              !.hp = IF u.hp < ResumeAt /\ heals THEN @ + 1 ELSE @]
Opening(u) == {Rested(v, heals) : v \in {u, CarriedOut(u)}, heals \in BOOLEAN}
News(u) == {[u EXCEPT !.hp = h, !.valid = TRUE] : h \in Health} \cup {[u EXCEPT !.valid = FALSE]}

Hurt(u) == IF ~u.valid THEN hurt ELSE u.hp < EnterBelow \/ (hurt /\ u.hp < ResumeAt)

Open ==
  /\ stage = "open" /\ turn <= LastTurn
  /\ \E u \in Opening(unit) :
       \/ unit' = u /\ UNCHANGED events
       \/ events < MaxEvents /\ events' = events + 1 /\ unit' \in News(u) \ {u}
  /\ overlay' = Proposed(unit') /\ cooling' = Cooled(unit', turn) /\ staged' = None
  /\ hurt' = Hurt(unit') /\ settled' = IF unit'.at = unit.at /\ due = None THEN settled ELSE turn
  /\ due' = None /\ untouched' = frozen /\ tracker' = None /\ stage' = "decide"
  /\ UNCHANGED <<turn, frozen, bad, order, role, tried, moves>>

\* The directive of the turn, new or running on.
Decide ==
  /\ stage = "decide" /\ stage' = "others"
  /\ order' \in Orders /\ role' \in {"scout", "other", "reserved"}
  /\ UNCHANGED <<turn, frozen, unit, bad, tracker, overlay, staged, cooling, untouched, tried,
                 due, moves, hurt, settled, events>>

\* Other units act first; the refresh after them shows what it shows.  See
\* HeldWhileHurt for what history keeps of a wound shown now.
Others ==
  /\ stage = "others" /\ stage' = "choose"
  /\ bad' \in Blocked
  /\ \/ UNCHANGED <<unit, events>>
     \/ events < MaxEvents /\ events' = events + 1 /\ unit' \in News(unit)
  /\ hurt' = IF overlay # None /\ ~overlay.recovering THEN hurt ELSE Hurt(unit')
  /\ UNCHANGED <<turn, frozen, tracker, overlay, staged, cooling, order, role, untouched, tried,
                 due, moves, settled>>

-----------------------------------------------------------------------------
(* _decision and run_scouting *)

\* The row the decision holds the unit by: the turn's, or one that the latest
\* observation calls for.
Active ==
  IF overlay # None THEN overlay
  ELSE IF ~unit.valid THEN [recovering |-> FALSE]
  ELSE IF Low THEN [recovering |-> TRUE] ELSE None

MaySpend == unit.mv > 0 \/ untouched
Suppressed == IF cooling = None THEN {}
              ELSE IF cooling.origin = unit.at THEN {r.dest : r \in cooling.dests} ELSE {}
Candidates == (Beside(unit.at) \ bad) \ Suppressed

Hold == [action |-> "hold", dest |-> None, override |-> FALSE]
Explicit == {[action |-> order.action, dest |-> order.dest, override |-> TRUE]}

\* What _decision may select.
Selected ==
  CASE order # None -> IF (IF order.action = "move" THEN order.dest \in Beside(unit.at) ELSE TRUE)
                       THEN Explicit ELSE {}
    [] order = None /\ Active # None -> IF unit.fort THEN {} ELSE {Hold}
    [] order = None /\ Active = None /\ role = "reserved" -> {}
    [] order = None /\ Active = None /\ role = "other" -> IF unit.fort THEN {} ELSE {Hold}
    [] OTHER -> IF Candidates = {} THEN {Hold}
                ELSE {[action |-> "move", dest |-> d, override |-> FALSE] : d \in Candidates}

\* The hold the decision came to is committed with the turn.
Overlaid == IF overlay = None /\ MaySpend THEN Active ELSE overlay

\* Nothing to order: no movement, a standing order, a reserved unit.
Skip ==
  /\ stage = "choose" /\ (~MaySpend \/ Selected = {})
  /\ overlay' = Overlaid /\ stage' = "close"
  /\ UNCHANGED <<turn, frozen, unit, bad, tracker, staged, cooling, order, role, untouched, tried,
                 due, moves, hurt, settled, events>>

\* What an order does to the unit, as the refresh after it shows.
Done(a) == IF a.action = "hold" THEN [unit EXCEPT !.fort = TRUE]
           ELSE [unit EXCEPT !.at = a.dest, !.fort = FALSE, !.mv = 0]

\* May the pass try once more? A rejection that changed nothing is the only
\* permit, and never for an override.
Retries(a, status) ==
  status = "illegal" /\ tried = {} /\ a.action = "move" /\ ~a.override /\ unit.mv > 0

Orders2 == {a \in Selected : a.action = "move" => a.dest \notin tried}

Act(a, status, effect) ==
  /\ a \in Orders2
  /\ status # "accepted" => effect = "never"
  /\ status = "accepted" /\ a.action = "hold" => effect = "now"
  /\ unit' = IF effect = "now" THEN Done(a) ELSE unit
  /\ due' = IF effect = "later" THEN a.dest ELSE due
  /\ moves' = IF a.action = "hold" THEN moves
              ELSE moves \cup {[turn |-> turn, origin |-> unit.at, dest |-> a.dest,
                                override |-> a.override, status |-> status, effect |-> effect,
                                spent |-> unit.mv = 0, hurt |-> hurt \/ ~unit.valid,
                                since |-> settled]}
  /\ staged' = IF status = "accepted" /\ a.action = "move" /\ effect # "now"
               THEN [origin |-> unit.at, dest |-> a.dest, turn |-> turn] ELSE staged
  /\ untouched' = FALSE /\ tried' = tried \cup {a.dest}
  /\ stage' = IF Retries(a, status) THEN "retry" ELSE "close"
  /\ settled' = IF effect = "now" /\ a.action = "move" THEN turn ELSE settled
  /\ UNCHANGED <<turn, frozen, bad, tracker, cooling, order, role, hurt, events>>

First(status, effect) ==
  /\ stage = "choose" /\ MaySpend /\ overlay' = Overlaid
  /\ \E a \in Selected : Act(a, status, effect)

\* The second attempt is another destination of a fresh decision.
Second(status, effect) ==
  /\ stage = "retry" /\ UNCHANGED overlay
  /\ \E a \in Selected : a.action = "move" /\ Act(a, status, effect)

NoSecond ==
  /\ stage = "retry" /\ stage' = "close"
  /\ \A a \in Orders2 : a.action # "move"
  /\ UNCHANGED <<turn, frozen, unit, bad, tracker, overlay, staged, cooling, order, role, untouched,
                 tried, due, moves, hurt, settled, events>>

\* commit and remember_completed, after the turn is closed.
Close ==
  /\ stage = "close" /\ stage' = "open" /\ turn' = turn + 1
  /\ tracker' = overlay /\ overlay' = None /\ order' = None /\ role' = "scout" /\ bad' = {}
  /\ untouched' = FALSE /\ tried' = {} /\ moves' = {a \in moves : a.turn > turn - TTL}
  /\ UNCHANGED <<frozen, unit, staged, cooling, due, hurt, settled, events>>

Next ==
  \/ Open \/ Decide \/ Others \/ Skip \/ NoSecond \/ Close
  \/ \E status \in {"accepted", "illegal", "rejected"}, effect \in {"now", "later", "never"} :
       First(status, effect) \/ Second(status, effect)

Spec == Init /\ [][Next]_vars

-----------------------------------------------------------------------------
\* A unit observed badly hurt is not moved by the routine, in that turn or any
\* later one, until it is observed well again; nor while its health is unknown.
\* Not so where the opening could not read its health and only a later look of
\* the turn shows the wound: the row of the turn stays (README, section 6).
HeldWhileHurt == \A a \in moves : ~a.override => ~a.hurt

\* A move the game accepted and never carried out is not ordered again by the
\* routine while the unit stands there, for as long as the memory lasts.
NeverPushed ==
  \A a, b \in moves :
    /\ a.status = "accepted" /\ a.effect = "never"
    /\ ~b.override /\ a.turn < b.turn /\ b.turn <= a.turn + TTL
    /\ b.since <= a.turn
    => <<a.origin, a.dest>> # <<b.origin, b.dest>>

\* A turn has at most two orders to move the unit, two only after a rejected
\* one and never to one tile, and one at most with no movement to spend.
AttemptsAreBounded ==
  \A t \in 1..LastTurn :
    LET now == {a \in moves : a.turn = t}
    IN /\ Cardinality(now) <= 2
       /\ Cardinality({a \in now : a.status = "accepted"}) <= 1
       /\ \A a, b \in now : a # b => ~a.override /\ a.dest # b.dest
       /\ Cardinality({a \in now : a.spent}) <= 1
=============================================================================
