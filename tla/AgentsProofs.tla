---------------------------- MODULE AgentsProofs ----------------------------
(***************************************************************************)
(* What is proved of the players that MCAgents sets at the seats.  Each    *)
(* has an invariant of its own; a step of another leaves its variables     *)
(* alone.                                                                  *)
(***************************************************************************)
EXTENDS MCAgents, SequenceTheorems, FiniteSetTheorems, TLAPS

-----------------------------------------------------------------------------
(* The scouts. *)


Spot == Tile \cup Named
UnitRow == [at : Spot, hp : Int, valid : BOOLEAN, mv : {0, 1}, fort : BOOLEAN]
RowOf == [recovering : BOOLEAN]
Moved == [turn : Nat, origin : Spot, dest : Spot, override : BOOLEAN,
          status : {"accepted", "illegal", "rejected"}, effect : {"now", "later", "never"},
          spent : BOOLEAN, hurt : BOOLEAN, since : Nat]

ScoutTypes ==
  /\ scoutTurn \in Nat \ {0}
  /\ scoutStage \in {"open", "decide", "others", "choose", "retry", "close"}
  /\ frozen \in BOOLEAN /\ untouched \in BOOLEAN /\ hurt \in BOOLEAN
  /\ unit \in UnitRow
  /\ tracker \in {None} \cup RowOf /\ overlay \in {None} \cup RowOf
  /\ staged \in {None} \cup [origin : Spot, dest : Spot, turn : Nat]
  /\ cooling \in {None} \cup [origin : Spot, dests : SUBSET [dest : Spot, until : Nat]]
  /\ override \in Scouts!Orders
  /\ late \in {None} \cup Spot
  /\ settled \in Nat
  /\ moves \in SUBSET Moved

(* A unit that was observed badly hurt has a row that says so, or the look   *)
(* that showed it is the latest and the decision to come will see it.        *)
HeldRow == overlay # None /\ overlay.recovering
Healing ==
  /\ scoutStage \in {"decide", "others", "choose"} => unit.mv > 0 \/ untouched
  /\ scoutStage = "open" => (hurt => tracker # None /\ tracker.recovering)
  /\ scoutStage \in {"decide", "others", "retry", "close"} => (hurt => HeldRow)
  /\ scoutStage = "choose" =>
       (hurt => HeldRow \/ (overlay = None /\ unit.valid /\ unit.hp < EnterBelow))
  /\ Scouts!HeldWhileHurt

(* A move that came to nothing is staged until the next opening, and then    *)
(* kept for as long as it matters.                                           *)
LastPlayed == IF scoutStage = "open" THEN scoutTurn - 1 ELSE scoutTurn
InVain(a) == a.status = "accepted" /\ a.effect = "never"
Kept(a) ==
  /\ a.origin = unit.at
  /\ IF a.turn = LastPlayed /\ scoutStage \in {"open", "close"}
     THEN staged = [origin |-> a.origin, dest |-> a.dest, turn |-> a.turn]
     ELSE /\ cooling # None /\ cooling.origin = a.origin
          /\ \E r \in cooling.dests : r.dest = a.dest /\ r.until >= a.turn + 1 + SuppressFor
Remembering ==
  /\ \A a \in moves : a.turn <= LastPlayed
  /\ scoutStage \in {"decide", "others", "choose"} => \A a \in moves : a.turn < scoutTurn
  /\ scoutStage \in {"decide", "others", "choose", "retry"} =>
       staged = None /\ (cooling # None => cooling.origin = unit.at)
  /\ staged # None => staged.origin = unit.at /\ (cooling # None => cooling.origin = unit.at)
  /\ \A a \in moves :
       InVain(a) /\ settled <= a.turn /\ scoutTurn <= a.turn + SuppressFor => Kept(a)
  /\ Scouts!NeverPushed

(* A turn's orders to move: none, one, or a rejected one and another.        *)
Of(t) == {a \in moves : a.turn = t}
Twice(x, y) ==
  x.status = "illegal" /\ ~x.override /\ ~y.override /\ x.dest # y.dest /\ ~x.spent
Fine(S) ==
  S = {} \/ (\E x \in S : S = {x}) \/ (\E x, y \in S : S = {x, y} /\ Twice(x, y))
Attempted ==
  /\ \A t \in 1 .. scoutTurn - 1 : Fine(Of(t))
  /\ scoutStage = "retry" =>
       /\ override = None /\ unit.mv > 0
       /\ \E x \in Of(scoutTurn) : /\ Of(scoutTurn) = {x} /\ tried = {x.dest}
            /\ x.status = "illegal" /\ ~x.override /\ ~x.spent
  /\ scoutStage = "close" => Fine(Of(scoutTurn))

ScoutInv == ScoutTypes /\ Healing /\ Remembering /\ Attempted

-----------------------------------------------------------------------------
(* What may be ordered. *)
LEMMA RoutineMoves ==
  ASSUME ScoutTypes, NEW a \in Scouts!Selected
  PROVE  /\ a = [action |-> a.action, dest |-> a.dest, override |-> a.override]
         /\ a.action \in {"hold", "move"} /\ a.override \in BOOLEAN
         /\ a.action = "move" => a.dest \in Tile
         /\ ~a.override => override = None
         /\ ~a.override /\ a.action = "move" =>
              Scouts!Active = None /\ a.dest \in Scouts!Candidates
<1>1. CASE override # None
  <2>1. override \in [action : {"hold", "move"}, dest : {None} \cup Named]
    BY <1>1 DEF ScoutTypes, Scouts!Orders
  <2>2. a \in Scouts!Explicit /\ (override.action = "move" => override.dest \in Tile)
    BY <1>1, <2>1 DEF Scouts!Selected, Scouts!Beside
  <2>3. a = [action |-> override.action, dest |-> override.dest, override |-> TRUE]
    BY <2>2 DEF Scouts!Explicit
  <2> QED BY <2>1, <2>2, <2>3
<1>2. CASE override = None
  <2>1. CASE a = Scouts!Hold
    BY <1>2, <2>1 DEF Scouts!Hold
  <2>2. CASE a # Scouts!Hold
    <3>1. Scouts!Active = None
          /\ \E d \in Scouts!Candidates : a = [action |-> "move", dest |-> d, override |-> FALSE]
      BY <1>2, <2>2, Zenon DEF Scouts!Selected
    <3>2. Scouts!Candidates \subseteq Tile
      BY DEF Scouts!Candidates, Scouts!Beside
    <3> QED BY <1>2, <3>1, <3>2
  <2> QED BY <2>1, <2>2
<1> QED BY <1>1, <1>2

(* The new record of an order to move. *)
MoveOf(a, status, effect) ==
  [turn |-> scoutTurn, origin |-> unit.at, dest |-> a.dest, override |-> a.override,
   status |-> status, effect |-> effect, spent |-> unit.mv = 0, hurt |-> hurt \/ ~unit.valid,
   since |-> settled]

Statuses == {"accepted", "illegal", "rejected"}
Effects == {"now", "later", "never"}

(* An order of the pass, whether it is the first or the second.              *)
Ordered(a, status, effect) ==
  /\ scoutStage \in {"choose", "retry"}
  /\ a \in Scouts!Selected /\ Scouts!Act(a, status, effect)
  /\ overlay' = IF scoutStage = "choose" THEN Scouts!Overlaid ELSE overlay
  /\ scoutStage = "retry" => a.action = "move"

LEMMA OrdersOfThePass ==
  ASSUME NEW status \in Statuses, NEW effect \in Effects,
         Scouts!First(status, effect) \/ Scouts!Second(status, effect)
  PROVE  \E a \in Scouts!Selected : Ordered(a, status, effect)
BY DEF Scouts!First, Scouts!Second, Ordered

LEMMA ScoutSteps ==
  ASSUME Scouts!Next
  PROVE  \/ Scouts!Open \/ Scouts!Decide \/ Scouts!Others \/ Scouts!Skip
         \/ Scouts!NoSecond \/ Scouts!Close
         \/ \E status \in Statuses, effect \in Effects : \E a \in Scouts!Selected :
              Ordered(a, status, effect)
BY OrdersOfThePass DEF Scouts!Next, Statuses, Effects

LEMMA MovesOfAnOrder ==
  ASSUME ScoutTypes, NEW status \in Statuses, NEW effect \in Effects,
         NEW a \in Scouts!Selected, Ordered(a, status, effect)
  PROVE  /\ a.action = "hold" => moves' = moves
         /\ a.action = "move" => moves' = moves \cup {MoveOf(a, status, effect)}
         /\ a.action = "move" => MoveOf(a, status, effect) \in Moved
<1>1. a.action = "hold" => moves' = moves
  BY DEF Ordered, Scouts!Act
<1>2. a.action = "move" => moves' = moves \cup {MoveOf(a, status, effect)}
  BY DEF Ordered, Scouts!Act, MoveOf
<1>3. ASSUME a.action = "move" PROVE MoveOf(a, status, effect) \in Moved
  <2>1. a.dest \in Spot /\ a.override \in BOOLEAN
    BY <1>3, RoutineMoves DEF Spot
  <2>2. unit.at \in Spot /\ scoutTurn \in Nat /\ settled \in Nat /\ hurt \in BOOLEAN
        /\ unit.valid \in BOOLEAN
    BY DEF ScoutTypes, UnitRow
  <2>3. (unit.mv = 0) \in BOOLEAN /\ (hurt \/ ~unit.valid) \in BOOLEAN
    OBVIOUS
  <2> QED BY <2>1, <2>2, <2>3 DEF MoveOf, Moved, Statuses, Effects
<1> QED BY <1>1, <1>2, <1>3

-----------------------------------------------------------------------------
LEMMA NewsOfAUnit ==
  ASSUME NEW u \in UnitRow, NEW n \in Scouts!News(u)
  PROVE  n \in UnitRow /\ n.at = u.at /\ n.mv = u.mv
<1> USE ScoutingAssumption
<1>1. CASE n = [u EXCEPT !.valid = FALSE]
  BY <1>1 DEF UnitRow
<1>2. ASSUME NEW h \in Health, n = [u EXCEPT !.hp = h, !.valid = TRUE]
      PROVE  n \in UnitRow /\ n.at = u.at /\ n.mv = u.mv
  <2>1. n = [at |-> u.at, hp |-> h, valid |-> TRUE, mv |-> u.mv, fort |-> u.fort]
    BY <1>2 DEF UnitRow
  <2> QED BY <2>1 DEF UnitRow
<1> QED BY <1>1, <1>2 DEF Scouts!News

LEMMA RestOfAUnit ==
  ASSUME NEW u \in UnitRow, NEW m \in {0, 1}, NEW h \in Int
  PROVE  [u EXCEPT !.mv = m, !.hp = h] \in UnitRow /\ [u EXCEPT !.mv = m, !.hp = h].mv = m
<1>1. [u EXCEPT !.mv = m, !.hp = h] \in UnitRow
  BY DEF UnitRow
<1>2. [u EXCEPT !.mv = m, !.hp = h].mv = m
  BY DEF UnitRow
<1> QED BY <1>1, <1>2

LEMMA OpeningOfAUnit ==
  ASSUME ScoutTypes, NEW u \in Scouts!Opening(unit)
  PROVE  u \in UnitRow /\ u.mv = IF frozen THEN 0 ELSE 1
<1> USE ScoutingAssumption
<1>1. Scouts!CarriedOut(unit) \in UnitRow /\ unit \in UnitRow
  BY DEF Scouts!CarriedOut, ScoutTypes, UnitRow
<1>2. PICK z \in {unit, Scouts!CarriedOut(unit)}, heals \in BOOLEAN :
        u = Scouts!Rested(z, heals)
  BY DEF Scouts!Opening
<1>3. z \in UnitRow
  BY <1>1, <1>2
<1> DEFINE m == IF frozen THEN 0 ELSE 1
           h == IF z.hp < ResumeAt /\ heals THEN z.hp + 1 ELSE z.hp
<1>4. Scouts!Rested(z, heals) = [z EXCEPT !.mv = m, !.hp = h]
  BY Zenon DEF Scouts!Rested
<1>5. m \in {0, 1} /\ z.hp \in Int
  BY <1>3 DEF UnitRow
<1>6. h \in Int
  BY <1>5
<1> HIDE DEF m, h
<1>7. [z EXCEPT !.mv = m, !.hp = h] \in UnitRow /\ [z EXCEPT !.mv = m, !.hp = h].mv = m
  BY <1>3, <1>5, <1>6, RestOfAUnit, Zenon
<1> QED BY <1>2, <1>4, <1>7, Zenon DEF m

LEMMA ScoutTypesStep ==
  ASSUME ScoutTypes, Scouts!Next
  PROVE  ScoutTypes'
<1> USE ScoutingAssumption
<1>1. CASE Scouts!Open
  <2>1. unit' \in UnitRow
    <3>1. PICK u \in Scouts!Opening(unit) : unit' = u \/ unit' \in Scouts!News(u)
      BY <1>1 DEF Scouts!Open
    <3>2. u \in UnitRow
      BY <3>1, OpeningOfAUnit
    <3> QED BY <3>1, <3>2, NewsOfAUnit
  <2>2. overlay' \in {None} \cup RowOf
    BY <1>1 DEF Scouts!Open, Scouts!Proposed, RowOf, ScoutTypes
  <2>3. cooling' \in {None} \cup [origin : Spot, dests : SUBSET [dest : Spot, until : Nat]]
    <3> DEFINE origin == IF cooling # None THEN cooling.origin
                         ELSE IF staged # None THEN staged.origin ELSE None
               old == IF cooling = None THEN {} ELSE cooling.dests
               new == IF staged = None THEN {}
                      ELSE IF staged.turn = scoutTurn - 1
                           THEN {[dest |-> staged.dest, until |-> scoutTurn + SuppressFor]} ELSE {}
               kept == {r \in {o \in old : \A n \in new : n.dest # o.dest} \cup new : scoutTurn < r.until}
    <3>1. cooling' = IF origin = unit'.at /\ kept # {} THEN [origin |-> origin, dests |-> kept] ELSE None
      BY <1>1, Zenon DEF Scouts!Open, Scouts!Cooled
    <3>2. old \in SUBSET [dest : Spot, until : Nat] /\ new \in SUBSET [dest : Spot, until : Nat]
      BY DEF ScoutTypes
    <3>3. kept \in SUBSET [dest : Spot, until : Nat]
      BY <3>2
    <3> HIDE DEF origin, kept
    <3>4. unit'.at \in Spot
      BY <2>1 DEF UnitRow
    <3> QED BY <3>1, <3>3, <3>4
  <2>4. hurt' \in BOOLEAN /\ settled' \in Nat
    BY <1>1 DEF Scouts!Open, Scouts!Hurt, ScoutTypes
  <2> QED BY <1>1, <2>1, <2>2, <2>3, <2>4 DEF ScoutTypes, Scouts!Open
<1>2. CASE Scouts!Decide
  BY <1>2 DEF Scouts!Decide, ScoutTypes, Scouts!Orders
<1>3. CASE Scouts!Others
  <2>1. unit' \in UnitRow
    BY <1>3, NewsOfAUnit DEF Scouts!Others, ScoutTypes
  <2>2. hurt' \in BOOLEAN
    BY <1>3 DEF Scouts!Others, Scouts!Hurt, ScoutTypes
  <2> QED BY <1>3, <2>1, <2>2 DEF Scouts!Others, ScoutTypes
<1>4. Scouts!Overlaid \in {None} \cup RowOf
  BY DEF Scouts!Overlaid, Scouts!Active, ScoutTypes, RowOf
<1>5. CASE Scouts!Skip
  BY <1>4, <1>5 DEF Scouts!Skip, ScoutTypes
<1>6. CASE Scouts!NoSecond
  BY <1>6 DEF Scouts!NoSecond, ScoutTypes
<1>7. CASE Scouts!Close
  <2>1. moves' \subseteq moves
    BY <1>7 DEF Scouts!Close
  <2>2. override' \in Scouts!Orders
    BY <1>7 DEF Scouts!Close, Scouts!Orders
  <2>3. scoutTurn' \in Nat \ {0} /\ moves' \in SUBSET Moved
    BY <1>7, <2>1 DEF Scouts!Close, ScoutTypes
  <2>4. scoutStage' = "open" /\ tracker' = overlay /\ overlay' = None /\ untouched' = FALSE
        /\ UNCHANGED <<frozen, unit, staged, cooling, late, hurt, settled>>
    BY <1>7 DEF Scouts!Close
  <2> QED BY <2>2, <2>3, <2>4 DEF ScoutTypes, Scouts!Orders
<1>8. ASSUME NEW status \in Statuses, NEW effect \in Effects,
             NEW a \in Scouts!Selected, Ordered(a, status, effect)
      PROVE  ScoutTypes'
  <2> USE <1>8
  <2>1. moves' \in SUBSET Moved
    BY MovesOfAnOrder, RoutineMoves DEF ScoutTypes
  <2>2. a.action \in {"hold", "move"} /\ (a.action = "move" => a.dest \in Spot)
    BY RoutineMoves DEF Spot
  <2>3. unit' \in UnitRow
    BY <2>2 DEF Ordered, Scouts!Act, Scouts!Done, ScoutTypes, UnitRow
  <2>4. effect = "later" => a.action = "move"
    BY <2>2 DEF Ordered, Scouts!Act, Statuses
  <2>5. late' \in {None} \cup Spot
    BY <2>2, <2>4 DEF Ordered, Scouts!Act, ScoutTypes
  <2>6. staged' \in {None} \cup [origin : Spot, dest : Spot, turn : Nat]
    BY <2>2 DEF Ordered, Scouts!Act, ScoutTypes, UnitRow
  <2>7. overlay' \in {None} \cup RowOf
    BY <1>4 DEF Ordered, ScoutTypes
  <2>8. scoutStage' \in {"retry", "close"} /\ untouched' = FALSE /\ settled' \in Nat
        /\ UNCHANGED <<scoutTurn, frozen, tracker, cooling, override, hurt>>
    BY DEF Ordered, Scouts!Act, ScoutTypes
  <2> QED BY <2>1, <2>3, <2>5, <2>6, <2>7, <2>8 DEF ScoutTypes, Scouts!Orders
<1> QED BY <1>1, <1>2, <1>3, <1>5, <1>6, <1>7, <1>8, ScoutSteps
-----------------------------------------------------------------------------
(* A unit observed badly hurt.  The opening sees to it that its row says so  *)
(* or that the decision to come can see it, and the pass commits what the    *)
(* decision saw.                                                             *)
LEMMA RowsAreRows == \A b \in BOOLEAN : [recovering |-> b] \in RowOf /\ [recovering |-> b] # None
<1>1. \A b \in BOOLEAN : [recovering |-> b] \in [recovering : BOOLEAN]
  OBVIOUS
<1> QED BY <1>1, ScoutingAssumption, Zenon DEF RowOf

LEMMA OverlaidHolds ==
  ASSUME ScoutTypes, Healing, scoutStage = "choose"
  PROVE  hurt => Scouts!Overlaid # None /\ Scouts!Overlaid.recovering
<1>1. unit.mv > 0 \/ untouched
  BY DEF Healing
<1>2. CASE overlay # None
  BY <1>2 DEF Healing, HeldRow, Scouts!Overlaid
<1>3. CASE overlay = None
  <2>1. ASSUME hurt PROVE Scouts!Overlaid = [recovering |-> TRUE]
    <3>1. unit.valid /\ unit.hp < EnterBelow
      BY <1>3, <2>1 DEF Healing, HeldRow
    <3> QED BY <1>1, <1>3, <3>1 DEF Scouts!Overlaid, Scouts!MaySpend, Scouts!Active, Scouts!Low
  <2>2. None # [recovering |-> TRUE]
    BY RowsAreRows
  <2> QED BY <2>1, <2>2
<1> QED BY <1>2, <1>3

LEMMA RoutineMovesTheWell ==
  ASSUME ScoutTypes, Healing, scoutStage \in {"choose", "retry"}, Scouts!Active = None
  PROVE  ~hurt /\ unit.valid
<1>1. overlay = None /\ unit.valid /\ ~(unit.hp < EnterBelow)
  <2>1. None \notin {[recovering |-> FALSE], [recovering |-> TRUE]}
    BY RowsAreRows
  <2> QED BY <2>1 DEF Scouts!Active, Scouts!Low
<1> QED BY <1>1 DEF Healing, HeldRow

LEMMA HealingOpens ==
  ASSUME ScoutTypes, Healing, Scouts!Open
  PROVE  Healing'
<1> USE ScoutingAssumption
<1>1. scoutStage = "open" /\ scoutStage' = "decide" /\ untouched' = frozen /\ moves' = moves
  BY DEF Scouts!Open
<1>2. unit'.mv > 0 \/ untouched'
  <2>1. PICK u \in Scouts!Opening(unit) : unit' = u \/ unit' \in Scouts!News(u)
    BY DEF Scouts!Open
  <2>2. u \in UnitRow /\ u.mv = IF frozen THEN 0 ELSE 1
    BY <2>1, OpeningOfAUnit
  <2>3. unit'.mv = u.mv
    BY <2>1, <2>2, NewsOfAUnit
  <2> QED BY <1>1, <2>2, <2>3 DEF ScoutTypes
<1>3. hurt' => HeldRow'
  <2> SUFFICES ASSUME hurt' PROVE HeldRow'
    OBVIOUS
  <2>1. hurt => tracker # None /\ tracker.recovering
    BY <1>1 DEF Healing
  <2>2. overlay' = Scouts!Proposed(unit') /\ hurt' = Scouts!Hurt(unit')
    BY DEF Scouts!Open
  <2>3. unit' \in UnitRow
    BY ScoutTypesStep DEF Scouts!Next, ScoutTypes
  <2>4. overlay' = [recovering |-> TRUE]
    <3>1. CASE ~unit'.valid
      <4>1. hurt
        BY <2>2, <3>1 DEF Scouts!Hurt
      <4>2. tracker \in RowOf
        BY <2>1, <4>1 DEF ScoutTypes
      <4> QED BY <2>1, <2>2, <3>1, <4>1, <4>2 DEF Scouts!Proposed, RowOf
    <3>2. CASE unit'.valid
      <4>1. unit'.hp \in Int
        BY <2>3 DEF UnitRow
      <4>2. unit'.hp < EnterBelow \/ (hurt /\ unit'.hp < ResumeAt)
        BY <2>2, <3>2 DEF Scouts!Hurt
      <4>3. Scouts!Threshold(tracker) \in {EnterBelow, ResumeAt}
            /\ (hurt => Scouts!Threshold(tracker) = ResumeAt)
        BY <2>1 DEF Scouts!Threshold
      <4>4. unit'.hp < Scouts!Threshold(tracker)
        BY <4>1, <4>2, <4>3
      <4> QED BY <2>2, <3>2, <4>1, <4>3, <4>4 DEF Scouts!Proposed
    <3> QED BY <3>1, <3>2
  <2>5. None # [recovering |-> TRUE]
    BY RowsAreRows
  <2> QED BY <2>4, <2>5 DEF HeldRow
<1>4. Scouts!HeldWhileHurt'
  BY <1>1 DEF Healing, Scouts!HeldWhileHurt
<1> QED BY <1>1, <1>2, <1>3, <1>4 DEF Healing

LEMMA HealingStep ==
  ASSUME ScoutTypes, Healing, Scouts!Next
  PROVE  Healing'
<1>1. CASE Scouts!Open
  BY <1>1, HealingOpens
<1>2. CASE Scouts!Decide
  BY <1>2 DEF Scouts!Decide, Healing, HeldRow, Scouts!HeldWhileHurt
<1>3. CASE Scouts!Others
  <2>1. scoutStage = "others" /\ scoutStage' = "choose" /\ UNCHANGED <<overlay, untouched, moves>>
    BY <1>3 DEF Scouts!Others
  <2>2. unit'.mv = unit.mv
    BY <1>3, NewsOfAUnit DEF Scouts!Others, ScoutTypes
  <2>3. hurt' => HeldRow' \/ (overlay' = None /\ unit'.valid /\ unit'.hp < EnterBelow)
    <3>1. CASE overlay # None /\ ~overlay.recovering
      BY <1>3, <2>1, <3>1 DEF Scouts!Others, Healing, HeldRow
    <3>2. CASE overlay # None /\ overlay.recovering
      BY <2>1, <3>2 DEF HeldRow
    <3>3. CASE overlay = None
      BY <1>3, <2>1, <3>3 DEF Scouts!Others, Scouts!Hurt, Healing, HeldRow
    <3> QED BY <3>1, <3>2, <3>3
  <2> QED BY <2>1, <2>2, <2>3 DEF Healing, Scouts!HeldWhileHurt
<1>4. CASE Scouts!Skip
  <2>1. scoutStage = "choose" /\ scoutStage' = "close" /\ overlay' = Scouts!Overlaid
        /\ UNCHANGED <<hurt, moves>>
    BY <1>4 DEF Scouts!Skip
  <2> QED BY <2>1, OverlaidHolds DEF Healing, HeldRow, Scouts!HeldWhileHurt
<1>5. CASE Scouts!NoSecond
  BY <1>5 DEF Scouts!NoSecond, Healing, HeldRow, Scouts!HeldWhileHurt
<1>6. CASE Scouts!Close
  BY <1>6 DEF Scouts!Close, Healing, HeldRow, Scouts!HeldWhileHurt
<1>7. ASSUME NEW status \in Statuses, NEW effect \in Effects,
             NEW a \in Scouts!Selected, Ordered(a, status, effect)
      PROVE  Healing'
  <2> USE <1>7
  <2>1. scoutStage' \in {"retry", "close"} /\ hurt' = hurt
    BY DEF Ordered, Scouts!Act
  <2>2. hurt' => HeldRow'
    BY <2>1, OverlaidHolds DEF Ordered, Healing, HeldRow
  <2>3. a.action = "move" /\ ~a.override => ~MoveOf(a, status, effect).hurt
    <3> SUFFICES ASSUME a.action = "move", ~a.override PROVE ~MoveOf(a, status, effect).hurt
      OBVIOUS
    <3>1. Scouts!Active = None
      BY RoutineMoves
    <3>2. scoutStage \in {"choose", "retry"}
      BY DEF Ordered
    <3>3. ~hurt /\ unit.valid
      BY <3>1, <3>2, RoutineMovesTheWell
    <3> QED BY <3>3 DEF MoveOf
  <2>4. MoveOf(a, status, effect).override = a.override
    BY DEF MoveOf
  <2>5. Scouts!HeldWhileHurt'
    BY <2>3, <2>4, MovesOfAnOrder, RoutineMoves DEF Healing, Scouts!HeldWhileHurt
  <2> QED BY <2>1, <2>2, <2>5 DEF Healing
<1> QED BY <1>1, <1>2, <1>3, <1>4, <1>5, <1>6, <1>7, ScoutSteps
-----------------------------------------------------------------------------
(* Moves that came to nothing.                                               *)
LEMMA Remembered ==
  ASSUME ScoutTypes, Remembering, scoutStage \in {"choose", "retry"},
         NEW x \in moves, InVain(x), x.turn < scoutTurn, scoutTurn <= x.turn + SuppressFor,
         settled <= x.turn
  PROVE  x.origin = unit.at /\ x.dest \in Scouts!Suppressed
<1>1. Kept(x)
  BY DEF Remembering
<1>2. /\ x.origin = unit.at /\ cooling # None /\ cooling.origin = x.origin
      /\ \E r \in cooling.dests : r.dest = x.dest
  BY <1>1 DEF Kept, LastPlayed
<1> QED BY <1>2 DEF Scouts!Suppressed

LEMMA RememberingOpens ==
  ASSUME ScoutTypes, Remembering, Scouts!Open
  PROVE  Remembering'
<1> USE ScoutingAssumption
<1>1. /\ scoutStage = "open" /\ scoutStage' = "decide" /\ staged' = None
      /\ UNCHANGED <<scoutTurn, moves>> /\ cooling' = Scouts!Cooled(unit', scoutTurn)
      /\ settled' = IF unit'.at = unit.at /\ late = None THEN settled ELSE scoutTurn
  BY DEF Scouts!Open
<1>2. ScoutTypes' /\ scoutTurn \in Nat /\ settled \in Nat /\ moves \in SUBSET Moved
  BY ScoutTypesStep DEF Scouts!Next, ScoutTypes
<1>3. \A x \in moves : x.turn \in Nat /\ x.turn < scoutTurn
  BY <1>1, <1>2 DEF Remembering, LastPlayed, Moved
<1>9. Spot \subseteq Int /\ \A x \in moves : x.origin \in Int /\ x.dest \in Int
  <2>1. Spot \subseteq Int
    BY DEF Spot
  <2>2. \A x \in moves : x.origin \in Spot /\ x.dest \in Spot
    BY <1>2 DEF Moved
  <2> QED BY <2>1, <2>2
<1> DEFINE origin == IF cooling # None THEN cooling.origin
                     ELSE IF staged # None THEN staged.origin ELSE None
           old == IF cooling = None THEN {} ELSE cooling.dests
           new == IF staged = None THEN {}
                  ELSE IF staged.turn = scoutTurn - 1
                       THEN {[dest |-> staged.dest, until |-> scoutTurn + SuppressFor]} ELSE {}
           kept == {r \in {o \in old : \A n \in new : n.dest # o.dest} \cup new : scoutTurn < r.until}
<1>4. cooling' = IF origin = unit'.at /\ kept # {} THEN [origin |-> origin, dests |-> kept] ELSE None
  BY <1>1, Zenon DEF Scouts!Cooled
<1>5. cooling' # None => cooling'.origin = unit'.at
  BY <1>4
<1>6. ASSUME NEW x \in moves, InVain(x), settled' <= x.turn, scoutTurn <= x.turn + SuppressFor
      PROVE  Kept(x)'
  <2>1. x.turn \in Nat /\ x.turn < scoutTurn
    BY <1>3
  <2>2. unit'.at = unit.at /\ settled' = settled
    BY <1>1, <1>2, <1>6, <2>1
  <2>3. Kept(x)
    BY <1>6, <2>2 DEF Remembering
  <2>10. x.turn = scoutTurn - 1 =>
           staged = [origin |-> x.origin, dest |-> x.dest, turn |-> x.turn] /\ staged # None
    <3> SUFFICES ASSUME x.turn = scoutTurn - 1
                 PROVE  staged = [origin |-> x.origin, dest |-> x.dest, turn |-> x.turn]
                        /\ staged # None
      OBVIOUS
    <3>1. staged = [origin |-> x.origin, dest |-> x.dest, turn |-> x.turn]
      BY <1>1, <2>3 DEF Kept, LastPlayed
    <3>2. staged \in [origin : Int, dest : Int, turn : Int]
      BY <1>9, <2>1, <3>1
    <3> QED BY <3>1, <3>2, Zenon
  <2>4. origin = x.origin /\ x.origin = unit'.at
    <3>1. x.origin = unit.at
      BY <2>3 DEF Kept
    <3>2. CASE cooling # None
      <4>1. cooling.origin = unit.at
        <5>1. CASE x.turn = scoutTurn - 1
          BY <2>10, <3>2, <5>1 DEF Remembering
        <5>2. CASE x.turn # scoutTurn - 1
          BY <1>1, <2>3, <3>1, <5>2 DEF Kept, LastPlayed
        <5> QED BY <5>1, <5>2
      <4> QED BY <2>2, <3>1, <3>2, <4>1
    <3>3. CASE cooling = None
      <4>1. x.turn = scoutTurn - 1
        BY <1>1, <2>3, <3>3 DEF Kept, LastPlayed
      <4> QED BY <2>2, <2>10, <3>1, <3>3, <4>1
    <3> QED BY <3>2, <3>3
  <2>5. \E r \in kept : r.dest = x.dest /\ r.until >= x.turn + 1 + SuppressFor
    <3>1. CASE x.turn = scoutTurn - 1
      <4>2. staged # None /\ staged.turn = scoutTurn - 1 /\ staged.dest = x.dest
        BY <2>10, <3>1
      <4>3. [dest |-> x.dest, until |-> scoutTurn + SuppressFor] \in new
        BY <4>2
      <4>4. scoutTurn < scoutTurn + SuppressFor /\ scoutTurn + SuppressFor >= x.turn + 1 + SuppressFor
        BY <1>2, <1>6, <2>1, <3>1
      <4> QED BY <4>3, <4>4
    <3>2. CASE x.turn # scoutTurn - 1
      <4>1. PICK r \in cooling.dests : r.dest = x.dest /\ r.until >= x.turn + 1 + SuppressFor
        BY <1>1, <2>3, <3>2 DEF Kept, LastPlayed
      <4>2. cooling # None /\ r \in old
        BY <1>1, <2>3, <3>2, <4>1 DEF Kept, LastPlayed
      <4>3. r.until \in Nat
        BY <4>1, <4>2 DEF ScoutTypes
      <4>4. CASE \A n \in new : n.dest # r.dest
        <5>1. scoutTurn < r.until
          BY <1>2, <1>6, <2>1, <4>1, <4>3
        <5> QED BY <4>1, <4>2, <4>4, <5>1
      <4>5. CASE \E n \in new : n.dest = r.dest
        <5>1. PICK n \in new : n.dest = r.dest
          BY <4>5
        <5>2. n.until = scoutTurn + SuppressFor
          BY <5>1
        <5>3. scoutTurn < n.until /\ n.until >= x.turn + 1 + SuppressFor
          BY <1>2, <1>6, <2>1, <5>2
        <5> QED BY <4>1, <5>1, <5>3
      <4> QED BY <4>4, <4>5
    <3> QED BY <3>1, <3>2
  <2> HIDE DEF origin, kept
  <2>6. cooling' = [origin |-> origin, dests |-> kept]
    BY <1>4, <2>4, <2>5
  <2>7. cooling' # None
    <3>1. cooling' \in {None} \cup [origin : Spot, dests : SUBSET [dest : Spot, until : Nat]]
      BY <1>2 DEF ScoutTypes
    <3>2. kept \in SUBSET [dest : Int, until : Int] /\ origin \in Int
      <4>1. old \in SUBSET [dest : Int, until : Int] /\ new \in SUBSET [dest : Int, until : Int]
        <5>1. old \in SUBSET [dest : Spot, until : Nat] /\ new \in SUBSET [dest : Spot, until : Nat]
          BY DEF ScoutTypes
        <5>2. [dest : Spot, until : Nat] \subseteq [dest : Int, until : Int]
          <6> SUFFICES ASSUME NEW p \in [dest : Spot, until : Nat] PROVE p \in [dest : Int, until : Int]
            OBVIOUS
          <6>1. p.dest \in Spot /\ p.until \in Nat /\ p = [dest |-> p.dest, until |-> p.until]
            OBVIOUS
          <6>2. p.dest \in Int
            BY <1>9, <6>1, Zenon
          <6>3. p.until \in Int
            BY <6>1
          <6> QED BY <6>1, <6>2, <6>3
        <5> HIDE DEF old, new
        <5> QED BY <5>1, <5>2
      <4>2. kept \in SUBSET [dest : Int, until : Int]
        BY <4>1 DEF kept
      <4>3. x.origin \in Int
        BY <1>9
      <4> QED BY <2>4, <4>2, <4>3
    <3>3. cooling' \in [origin : Int, dests : SUBSET [dest : Int, until : Int]]
      BY <2>6, <3>2
    <3> QED BY <3>3, Zenon
  <2>8. cooling'.origin = x.origin /\ cooling'.dests = kept
    BY <2>4, <2>6
  <2>9. scoutStage' \notin {"open", "close"}
    BY <1>1
  <2> QED BY <2>4, <2>5, <2>7, <2>8, <2>9 DEF Kept
<1>7. Scouts!NeverPushed'
  BY <1>1 DEF Remembering, Scouts!NeverPushed
<1> HIDE DEF origin, kept
<1>8. \A x \in moves' : x.turn <= LastPlayed'
  BY <1>1, <1>2, <1>3 DEF LastPlayed
<1> QED BY <1>1, <1>3, <1>5, <1>6, <1>7, <1>8 DEF Remembering, InVain

LEMMA RememberingOrders ==
  ASSUME ScoutTypes, Remembering, Attempted, NEW status \in Statuses, NEW effect \in Effects,
         NEW a \in Scouts!Selected, Ordered(a, status, effect)
  PROVE  Remembering'
<1> DEFINE m == MoveOf(a, status, effect)
<1>1. /\ scoutStage \in {"choose", "retry"} /\ scoutStage' \in {"retry", "close"}
      /\ status = "accepted" => scoutStage' = "close"
      /\ UNCHANGED <<scoutTurn, cooling>>
  BY DEF Ordered, Scouts!Act, Scouts!Retries
<1>2. a.action \in {"hold", "move"}
      /\ (~a.override /\ a.action = "move" =>
            a.dest \in Scouts!Candidates)
  BY RoutineMoves
<1>3. scoutTurn \in Nat /\ settled \in Nat /\ unit \in UnitRow /\ moves \in SUBSET Moved
  BY DEF ScoutTypes
<1>4. \A x \in moves : x.turn \in Nat /\ x.turn <= scoutTurn
  BY <1>1, <1>3 DEF Remembering, LastPlayed, Moved
<1>5. \A x \in moves : InVain(x) => x.turn < scoutTurn
  <2>1. ASSUME NEW x \in moves, InVain(x), scoutStage = "retry" PROVE x.turn # scoutTurn
    <3>1. x.status = "accepted"
      BY <2>1 DEF InVain
    <3> QED BY <2>1, <3>1 DEF Attempted, Of
  <2> QED BY <1>1, <1>3, <1>4, <2>1 DEF Remembering
<1>6. /\ m.turn = scoutTurn /\ m.origin = unit.at /\ m.dest = a.dest /\ m.status = status
      /\ m.effect = effect /\ m.override = a.override /\ m.since = settled
  BY DEF MoveOf
<1> HIDE DEF m
<1>7. /\ moves' \subseteq moves \cup {m} /\ (a.action = "hold" => moves' = moves)
  BY <1>2, MovesOfAnOrder DEF m
<1>8. \/ unit'.at = unit.at /\ settled' = settled
      \/ unit'.at = a.dest /\ settled' = scoutTurn /\ effect = "now" /\ a.action = "move"
  <2>1. a.action = "hold" => Scouts!Done(a).at = unit.at
    BY <1>3 DEF Scouts!Done, UnitRow
  <2>2. a.action = "move" => Scouts!Done(a).at = a.dest
    BY <1>3 DEF Scouts!Done, UnitRow
  <2>3. /\ unit' = IF effect = "now" THEN Scouts!Done(a) ELSE unit
        /\ settled' = IF effect = "now" /\ a.action = "move" THEN scoutTurn ELSE settled
    BY DEF Ordered, Scouts!Act
  <2> QED BY <1>2, <2>1, <2>2, <2>3
<1>9. /\ staged = None /\ (cooling # None => cooling.origin = unit.at)
      /\ staged' = IF status = "accepted" /\ a.action = "move" /\ effect # "now"
                   THEN [origin |-> unit.at, dest |-> a.dest, turn |-> scoutTurn] ELSE staged
      /\ (effect = "later" => status = "accepted" /\ a.action = "move")
  BY <1>1, <1>2 DEF Ordered, Scouts!Act, Remembering, Statuses
<1>10. \A x \in moves' : x.turn <= LastPlayed'
  BY <1>1, <1>3, <1>4, <1>6, <1>7 DEF LastPlayed
<1>11. scoutStage' = "retry" => staged' = None /\ (cooling' # None => cooling'.origin = unit'.at)
  <2>1. scoutStage' = "retry" => effect = "never" /\ status # "accepted"
    BY <1>1 DEF Ordered, Scouts!Act
  <2> QED BY <1>1, <1>8, <1>9, <2>1
<1>12. staged' # None => staged'.origin = unit'.at /\ (cooling' # None => cooling'.origin = unit'.at)
  BY <1>1, <1>8, <1>9
<1>13. ASSUME NEW x \in moves', InVain(x), settled' <= x.turn, scoutTurn' <= x.turn + SuppressFor
       PROVE  Kept(x)'
  <2>1. CASE x \in moves
    <3>1. x.turn \in Nat /\ x.turn < scoutTurn
      BY <1>4, <1>5, <1>13, <2>1
    <3>2. unit'.at = unit.at /\ settled' = settled
      BY <1>3, <1>8, <1>13, <3>1
    <3>3. Kept(x)
      BY <1>1, <1>13, <2>1, <3>2 DEF Remembering
    <3>4. x.turn # LastPlayed /\ x.turn # LastPlayed'
      BY <1>1, <1>3, <3>1 DEF LastPlayed
    <3> QED BY <1>1, <3>2, <3>3, <3>4 DEF Kept
  <2>2. CASE x = m /\ a.action = "move"
    <3>1. status = "accepted" /\ effect = "never"
      BY <1>6, <1>13, <2>2 DEF InVain
    <3>2. scoutStage' = "close" /\ LastPlayed' = scoutTurn
      BY <1>1, <3>1 DEF LastPlayed
    <3>3. staged' = [origin |-> x.origin, dest |-> x.dest, turn |-> x.turn]
      BY <1>6, <1>9, <2>2, <3>1
    <3>4. x.origin = unit'.at /\ x.turn = LastPlayed'
      BY <1>6, <1>8, <2>2, <3>1, <3>2
    <3> QED BY <3>2, <3>3, <3>4 DEF Kept
  <2> QED BY <1>2, <1>7, <2>1, <2>2
<1>14. Scouts!NeverPushed'
  <2> SUFFICES ASSUME NEW x \in moves', NEW y \in moves',
                      x.status = "accepted", x.effect = "never", ~y.override, x.turn < y.turn,
                      y.turn <= x.turn + SuppressFor, y.since <= x.turn
               PROVE  <<x.origin, x.dest>> # <<y.origin, y.dest>>
    BY DEF Scouts!NeverPushed
  <2>1. x # m
    BY <1>3, <1>4, <1>6, <1>7
  <2>2. x \in moves
    BY <1>7, <2>1
  <2>3. CASE y \in moves
    BY <2>2, <2>3 DEF Remembering, Scouts!NeverPushed
  <2>4. CASE y = m /\ a.action = "move"
    <3>1. InVain(x) /\ x.turn < scoutTurn /\ scoutTurn <= x.turn + SuppressFor /\ settled <= x.turn
      BY <1>6, <2>4 DEF InVain
    <3>2. x.dest \in Scouts!Suppressed
      BY <1>1, <2>2, <3>1, Remembered
    <3>3. a.dest \notin Scouts!Suppressed
      BY <1>2, <1>6, <2>4 DEF Scouts!Candidates
    <3> QED BY <1>6, <2>4, <3>2, <3>3
  <2> QED BY <1>2, <1>7, <2>3, <2>4
<1>15. scoutStage' \notin {"decide", "others", "choose"}
  BY <1>1
<1> QED BY <1>1, <1>10, <1>11, <1>12, <1>13, <1>14, <1>15 DEF Remembering, InVain

LEMMA RememberingStep ==
  ASSUME ScoutTypes, Remembering, Attempted, Scouts!Next
  PROVE  Remembering'
<1> USE ScoutingAssumption
<1>1. CASE Scouts!Open
  BY <1>1, RememberingOpens
<1>2. CASE Scouts!Decide
  BY <1>2 DEF Scouts!Decide, Remembering, LastPlayed, InVain, Kept, Scouts!NeverPushed
<1>3. CASE Scouts!Others
  <2>1. unit'.at = unit.at
    BY <1>3, NewsOfAUnit DEF Scouts!Others, ScoutTypes
  <2>2. scoutStage = "others" /\ scoutStage' = "choose"
        /\ UNCHANGED <<scoutTurn, staged, cooling, moves, settled>>
    BY <1>3 DEF Scouts!Others
  <2> QED BY <2>1, <2>2 DEF Remembering, LastPlayed, InVain, Kept, Scouts!NeverPushed
<1>4. CASE Scouts!Skip \/ Scouts!NoSecond
  <2>1. /\ scoutStage \in {"choose", "retry"} /\ scoutStage' = "close"
        /\ UNCHANGED <<scoutTurn, unit, staged, cooling, moves, settled>>
    BY <1>4 DEF Scouts!Skip, Scouts!NoSecond
  <2>2. \A x \in moves : InVain(x) => x.turn # scoutTurn
    <3>1. CASE scoutStage = "choose"
      <4>1. \A x \in moves : x.turn \in Nat /\ x.turn < scoutTurn
        BY <3>1 DEF Remembering, ScoutTypes, Moved
      <4> QED BY <4>1 DEF ScoutTypes
    <3>2. CASE scoutStage = "retry"
      BY <3>2 DEF Attempted, Of, InVain
    <3> QED BY <2>1, <3>1, <3>2
  <2>3. LastPlayed' = LastPlayed /\ LastPlayed = scoutTurn
    BY <2>1 DEF LastPlayed
  <2>4. \A x \in moves : InVain(x) /\ Kept(x) => Kept(x)'
    BY <2>1, <2>2, <2>3 DEF Kept
  <2>5. Scouts!NeverPushed'
    BY <2>1 DEF Remembering, Scouts!NeverPushed
  <2> QED BY <2>1, <2>3, <2>4, <2>5 DEF Remembering, InVain
<1>5. CASE Scouts!Close
  <2>1. /\ scoutStage = "close" /\ scoutStage' = "open" /\ scoutTurn' = scoutTurn + 1
        /\ UNCHANGED <<unit, staged, cooling, settled>> /\ moves' \subseteq moves
    BY <1>5 DEF Scouts!Close
  <2>2. scoutTurn \in Nat /\ \A x \in moves : x.turn \in Nat
    BY DEF ScoutTypes, Moved
  <2>3. LastPlayed' = LastPlayed
    BY <2>1, <2>2 DEF LastPlayed
  <2>4. \A x \in moves : Kept(x) => Kept(x)'
    BY <2>1, <2>3 DEF Kept
  <2>5. \A x \in moves : scoutTurn' <= x.turn + SuppressFor => scoutTurn <= x.turn + SuppressFor
    BY <2>1, <2>2
  <2>6. Scouts!NeverPushed'
    BY <2>1 DEF Remembering, Scouts!NeverPushed
  <2> QED BY <2>1, <2>3, <2>4, <2>5, <2>6 DEF Remembering, InVain
<1>6. ASSUME NEW status \in Statuses, NEW effect \in Effects,
             NEW a \in Scouts!Selected, Ordered(a, status, effect)
      PROVE  Remembering'
  BY <1>6, RememberingOrders
<1> QED BY <1>1, <1>2, <1>3, <1>4, <1>5, <1>6, ScoutSteps

-----------------------------------------------------------------------------
(* The attempts of a turn.                                                   *)
LEMMA AttemptsOrder ==
  ASSUME ScoutTypes, Remembering, Attempted, NEW status \in Statuses, NEW effect \in Effects,
         NEW a \in Scouts!Selected, Ordered(a, status, effect)
  PROVE  Attempted'
<1> DEFINE m == MoveOf(a, status, effect)
           t == scoutTurn
<1>1. /\ scoutStage \in {"choose", "retry"} /\ scoutStage' \in {"retry", "close"}
      /\ scoutStage' = "retry" <=> Scouts!Retries(a, status)
      /\ UNCHANGED <<scoutTurn, override>> /\ tried' = tried \cup {a.dest}
      /\ (a.action = "move" => a.dest \notin tried)
      /\ (status # "accepted" => effect = "never") /\ (effect = "never" => unit' = unit)
  BY DEF Ordered, Scouts!Act, Scouts!Orders2
<1>2. a.action \in {"hold", "move"} /\ a.override \in BOOLEAN /\ (~a.override => override = None)
  BY RoutineMoves
<1>3. override = None => ~a.override
  BY DEF Scouts!Selected, Scouts!Hold
<1>4. /\ m.turn = t /\ m.dest = a.dest /\ m.status = status /\ m.override = a.override
      /\ m.spent = (unit.mv = 0)
  BY DEF MoveOf
<1> HIDE DEF m
<1>5. moves' = IF a.action = "hold" THEN moves ELSE moves \cup {m}
  BY <1>2, MovesOfAnOrder DEF m
<1>6. \A x \in moves : x.turn \in Nat
  BY DEF ScoutTypes, Moved
<1>7. scoutTurn \in Nat /\ unit.mv \in {0, 1}
  BY DEF ScoutTypes, UnitRow
<1>8. \A s \in 1 .. scoutTurn' - 1 : Fine(Of(s))'
  <2> SUFFICES ASSUME NEW s \in 1 .. t - 1 PROVE Fine(Of(s))'
    BY <1>1
  <2>1. Of(s)' = Of(s)
    BY <1>4, <1>5, <1>7 DEF Of
  <2>2. Fine(Of(s))
    BY DEF Attempted
  <2> QED BY <2>1, <2>2 DEF Fine
<1>9. CASE scoutStage = "choose"
  <2>1. Of(t) = {}
    BY <1>6, <1>7, <1>9 DEF Remembering, Of
  <2>2. CASE a.action = "hold"
    <3>1. Of(t)' = {} /\ scoutStage' = "close"
      BY <1>1, <1>5, <2>1, <2>2 DEF Of, Scouts!Retries
    <3> QED BY <1>1, <1>8, <3>1 DEF Attempted, Fine
  <2>3. CASE a.action = "move"
    <3>1. Of(t)' = {m}
      BY <1>1, <1>4, <1>5, <2>1, <2>3 DEF Of
    <3>2. Fine(Of(t))'
      BY <3>1 DEF Fine
    <3>3. CASE scoutStage' = "close"
      BY <1>1, <1>8, <3>2, <3>3 DEF Attempted
    <3>4. CASE scoutStage' = "retry"
      <4>1. status = "illegal" /\ tried = {} /\ ~a.override /\ unit.mv > 0
        BY <1>1, <3>4 DEF Scouts!Retries
      <4>2. override' = None /\ unit'.mv > 0 /\ tried' = {m.dest}
        BY <1>1, <1>2, <1>4, <4>1
      <4>3. m.status = "illegal" /\ ~m.override /\ ~m.spent
        <5>1. (unit.mv = 0) = FALSE
          BY <1>7, <4>1
        <5> QED BY <1>4, <4>1, <5>1, Zenon
      <4> QED BY <1>1, <1>8, <3>1, <3>4, <4>2, <4>3 DEF Attempted
    <3> QED BY <1>1, <3>3, <3>4
  <2> QED BY <1>2, <2>2, <2>3
<1>10. CASE scoutStage = "retry"
  <2>1. /\ override = None /\ unit.mv > 0
        /\ \E x \in Of(t) : /\ Of(t) = {x} /\ tried = {x.dest}
                            /\ x.status = "illegal" /\ ~x.override /\ ~x.spent
    BY <1>10 DEF Attempted
  <2>2. PICK x \in Of(t) : /\ Of(t) = {x} /\ tried = {x.dest}
                           /\ x.status = "illegal" /\ ~x.override /\ ~x.spent
    BY <2>1
  <2>3. a.action = "move" /\ ~a.override /\ a.dest # x.dest
    BY <1>1, <1>3, <1>10, <2>1, <2>2 DEF Ordered
  <2>4. scoutStage' = "close"
    BY <1>1, <2>2 DEF Scouts!Retries
  <2>5. Of(t)' = {x, m}
    BY <1>1, <1>4, <1>5, <2>2, <2>3 DEF Of
  <2>6. Twice(x, m)
    BY <1>4, <2>2, <2>3 DEF Twice
  <2>7. Fine({x, m})
    BY <2>6 DEF Fine
  <2>8. Fine(Of(t))'
    BY <2>5, <2>7 DEF Fine
  <2> QED BY <1>1, <1>8, <2>4, <2>8 DEF Attempted
<1> QED BY <1>1, <1>9, <1>10

LEMMA AttemptedStep ==
  ASSUME ScoutTypes, Remembering, Attempted, Scouts!Next
  PROVE  Attempted'
<1>1. CASE Scouts!Open \/ Scouts!Decide \/ Scouts!Others
  BY <1>1 DEF Scouts!Open, Scouts!Decide, Scouts!Others, Attempted, Of, Fine
<1>2. CASE Scouts!Skip
  <2>1. scoutStage = "choose" /\ scoutStage' = "close" /\ UNCHANGED <<scoutTurn, moves>>
    BY <1>2 DEF Scouts!Skip
  <2>2. Of(scoutTurn) = {}
    BY <2>1 DEF Remembering, Of, ScoutTypes, Moved
  <2> QED BY <2>1, <2>2 DEF Attempted, Of, Fine
<1>3. CASE Scouts!NoSecond
  <2>1. scoutStage = "retry" /\ scoutStage' = "close" /\ UNCHANGED <<scoutTurn, moves>>
    BY <1>3 DEF Scouts!NoSecond
  <2>2. Fine(Of(scoutTurn))
    BY <2>1 DEF Attempted, Fine
  <2> QED BY <2>1, <2>2 DEF Attempted, Of, Fine
<1>4. CASE Scouts!Close
  <2>1. /\ scoutStage = "close" /\ scoutStage' = "open" /\ scoutTurn' = scoutTurn + 1
        /\ moves' = {x \in moves : x.turn > scoutTurn - SuppressFor}
    BY <1>4 DEF Scouts!Close
  <2>2. scoutTurn \in Nat
    BY DEF ScoutTypes
  <2>3. ASSUME NEW s \in 1 .. scoutTurn' - 1 PROVE Fine(Of(s))'
    <3>1. s \in Nat /\ (s \in 1 .. scoutTurn - 1 \/ s = scoutTurn)
      BY <2>1, <2>2
    <3>2. Fine(Of(s))
      BY <2>1, <3>1 DEF Attempted
    <3>3. Of(s)' = IF s > scoutTurn - SuppressFor THEN Of(s) ELSE {}
      BY <2>1 DEF Of
    <3> QED BY <3>2, <3>3 DEF Fine
  <2> QED BY <2>1, <2>3 DEF Attempted
<1>5. ASSUME NEW status \in Statuses, NEW effect \in Effects,
             NEW a \in Scouts!Selected, Ordered(a, status, effect)
      PROVE  Attempted'
  BY <1>5, AttemptsOrder
<1> QED BY <1>1, <1>2, <1>3, <1>4, <1>5, ScoutSteps

(* Small sets. *)
LEMMA AtMostTwo ==
  ASSUME NEW x, NEW y, NEW S, S \subseteq {x, y}
  PROVE  Cardinality(S) <= 2 /\ (x \notin S \/ x = y => Cardinality(S) <= 1)
<1>1. IsFiniteSet({x}) /\ Cardinality({x}) = 1 /\ IsFiniteSet({y}) /\ Cardinality({y}) = 1
  BY FS_Singleton
<1>2. IsFiniteSet({x} \cup {y}) /\ Cardinality({x} \cup {y}) \in {1, 2}
  <2>1. CASE x = y
    <3>1. {x} \cup {y} = {x}
      BY <2>1
    <3> QED BY <1>1, <3>1
  <2>2. CASE x # y
    <3>1. y \notin {x}
      BY <2>2
    <3>2. Cardinality({x} \cup {y}) = Cardinality({x}) + 1 /\ IsFiniteSet({x} \cup {y})
      BY <1>1, <3>1, FS_AddElement
    <3> QED BY <1>1, <3>2
  <2> QED BY <2>1, <2>2
<1>3. S \subseteq {x} \cup {y}
  OBVIOUS
<1>4. Cardinality(S) <= Cardinality({x} \cup {y}) /\ IsFiniteSet(S)
  BY <1>2, <1>3, FS_Subset
<1>5. Cardinality(S) \in Nat
  BY <1>4, FS_CardinalityType
<1>6. ASSUME x \notin S \/ x = y PROVE Cardinality(S) <= 1
  <2>1. S \subseteq {y}
    BY <1>6
  <2>2. Cardinality(S) <= Cardinality({y})
    BY <1>1, <2>1, FS_Subset
  <2> QED BY <1>1, <2>2
<1> QED BY <1>2, <1>4, <1>5, <1>6

LEMMA FineIsBounded ==
  ASSUME NEW S, Fine(S)
  PROVE  /\ Cardinality(S) <= 2
         /\ Cardinality({a \in S : a.status = "accepted"}) <= 1
         /\ \A a, b \in S : a # b => ~a.override /\ a.dest # b.dest
         /\ Cardinality({a \in S : a.spent}) <= 1
<1>1. PICK x, y : S \subseteq {x, y} /\ (x = y \/ Twice(x, y))
  BY DEF Fine
<1> DEFINE A == {a \in S : a.status = "accepted"}
           W == {a \in S : a.spent}
<1>2. A \subseteq {x, y} /\ (x \notin A \/ x = y)
  BY <1>1 DEF Twice
<1>3. W \subseteq {x, y} /\ (x \notin W \/ x = y)
  BY <1>1 DEF Twice
<1>4. \A a, b \in S : a # b => ~a.override /\ a.dest # b.dest
  BY <1>1 DEF Twice
<1> HIDE DEF A, W
<1>5. Cardinality(A) <= 1 /\ Cardinality(W) <= 1 /\ Cardinality(S) <= 2
  BY <1>1, <1>2, <1>3, AtMostTwo
<1> QED BY <1>4, <1>5 DEF A, W

(* No turn has more orders than the pass may give. *)
LEMMA AttemptsStayBounded ==
  ASSUME ScoutTypes, Remembering, Attempted
  PROVE  Scouts!AttemptsAreBounded
<1>1. ASSUME NEW t \in 1 .. ScoutTurns PROVE Fine(Of(t))
  <2>1. t \in Nat /\ scoutTurn \in Nat /\ t >= 1
    BY ScoutingAssumption DEF ScoutTypes
  <2>2. \A x \in moves : x.turn \in Nat /\ x.turn <= LastPlayed
    BY DEF ScoutTypes, Moved, Remembering
  <2>3. CASE t < scoutTurn
    BY <2>1, <2>3 DEF Attempted
  <2>4. CASE t = scoutTurn
    <3>1. CASE scoutStage \in {"decide", "others", "choose"}
      <4>1. Of(t) = {}
        BY <2>1, <2>2, <2>4, <3>1 DEF Of, Remembering
      <4> QED BY <4>1 DEF Fine
    <3>2. CASE scoutStage = "open"
      <4>1. Of(t) = {}
        BY <2>1, <2>2, <2>4, <3>2 DEF Of, LastPlayed
      <4> QED BY <4>1 DEF Fine
    <3>3. CASE scoutStage = "retry"
      BY <2>4, <3>3 DEF Attempted, Fine
    <3>4. CASE scoutStage = "close"
      BY <2>4, <3>4 DEF Attempted
    <3> QED BY <3>1, <3>2, <3>3, <3>4 DEF ScoutTypes
  <2>5. CASE t > scoutTurn
    <3>1. Of(t) = {}
      BY <2>1, <2>2, <2>5 DEF Of, LastPlayed
    <3> QED BY <3>1 DEF Fine
  <2> QED BY <2>1, <2>3, <2>4, <2>5
<1>2. ASSUME NEW t \in 1 .. ScoutTurns
      PROVE  /\ Cardinality(Of(t)) <= 2
             /\ Cardinality({a \in Of(t) : a.status = "accepted"}) <= 1
             /\ \A a, b \in Of(t) : a # b => ~a.override /\ a.dest # b.dest
             /\ Cardinality({a \in Of(t) : a.spent}) <= 1
  <2>1. Fine(Of(t))
    BY <1>1
  <2> QED BY <2>1, FineIsBounded, Zenon
<1>3. \A S : Scouts!Cardinality(S) = Cardinality(S)
  BY DEF Scouts!Cardinality, Cardinality
<1> QED BY <1>2, <1>3, Zenon DEF Scouts!AttemptsAreBounded, Of

-----------------------------------------------------------------------------
LEMMA ScoutInvStarts == MCInit => ScoutInv
<1> SUFFICES ASSUME Scouts!Init PROVE ScoutInv
  BY DEF MCInit
<1> USE ScoutingAssumption
<1>1. /\ scoutTurn = 1 /\ scoutStage = "open" /\ frozen \in BOOLEAN
      /\ unit = [at |-> 1, hp |-> ResumeAt, valid |-> TRUE, mv |-> 1, fort |-> FALSE]
      /\ tracker = None /\ overlay = None /\ staged = None /\ cooling = None /\ override = None
      /\ untouched = FALSE /\ late = None /\ moves = {} /\ hurt = FALSE /\ settled = 1
  BY DEF Scouts!Init
<1>2. ScoutTypes
  <2>1. unit \in UnitRow
    BY <1>1 DEF UnitRow, Spot
  <2>2. scoutTurn \in Nat \ {0} /\ settled \in Nat /\ override \in Scouts!Orders
    BY <1>1 DEF Scouts!Orders
  <2>3. /\ scoutStage \in {"open", "decide", "others", "choose", "retry", "close"}
        /\ untouched \in BOOLEAN /\ hurt \in BOOLEAN /\ moves \in SUBSET Moved
    BY <1>1
  <2> QED BY <1>1, <2>1, <2>2, <2>3 DEF ScoutTypes
<1>3. Healing
  BY <1>1 DEF Healing, Scouts!HeldWhileHurt
<1>4. Remembering
  BY <1>1 DEF Remembering, Scouts!NeverPushed
<1>5. Attempted
  BY <1>1 DEF Attempted, Of, Fine
<1> QED BY <1>2, <1>3, <1>4, <1>5 DEF ScoutInv

LEMMA ScoutInvStep ==
  ScoutInv /\ [MCNext]_<<which, vars, llmVars, capitalVars, expansionVars, scoutVars>> => ScoutInv'
<1> SUFFICES ASSUME ScoutInv, [MCNext]_<<which, vars, llmVars, capitalVars, expansionVars, scoutVars>>
             PROVE  ScoutInv'
  OBVIOUS
<1>1. CASE Scouts!Next
  BY <1>1, ScoutTypesStep, HealingStep, RememberingStep, AttemptedStep DEF ScoutInv
<1>2. CASE UNCHANGED scoutVars
  <2>1. UNCHANGED <<scoutTurn, scoutStage, frozen, unit, tracker, overlay, staged, cooling, override,
                    untouched, tried, late, moves, hurt, settled>>
    BY <1>2 DEF scoutVars
  <2>2. ScoutTypes' /\ Healing'
    BY <2>1 DEF ScoutInv, ScoutTypes, Healing, HeldRow, Scouts!HeldWhileHurt, Scouts!Orders
  <2>3. Remembering'
    BY <2>1 DEF ScoutInv, Remembering, LastPlayed, InVain, Kept, Scouts!NeverPushed
  <2>4. Attempted'
    BY <2>1 DEF ScoutInv, Attempted, Of, Fine
  <2> QED BY <2>2, <2>3, <2>4 DEF ScoutInv
<1> QED BY <1>1, <1>2 DEF MCNext

(* Whatever is observed, however an order ends and whatever the directives   *)
(* say: the routine spares a hurt unit, does not push one that stood still,  *)
(* and tries twice at most (run_scouting, RecoveryTracker,                   *)
(* ScoutingFeedback).                                                        *)
THEOREM ScoutsAreAlwaysSpared == MCSpec => []ScoutsAreSpared
<1>1. ScoutInv => ScoutsAreSpared
  BY AttemptsStayBounded DEF ScoutInv, Healing, Remembering, ScoutsAreSpared
<1> QED BY <1>1, ScoutInvStarts, ScoutInvStep, PTL DEF MCSpec

-----------------------------------------------------------------------------
(* The founding of the capital: the plan, the world, the orders sent. *)

PlanRow ==
  [mission : {None} \cup [site : Land, arrived : Nat],
   pending : {None} \cup [action : {"move", "found"}, status : {"due", "accepted", "rejected"},
                          turn : Nat, origin : Land, superseded : BOOLEAN],
   disabled : BOOLEAN, failed : BOOLEAN, started : Nat, relocations : Nat,
   failedEdges : SUBSET (Land \X Land), foundSites : SUBSET Land, resolution : BOOLEAN,
   holds : Nat, lastHold : Nat, completed : Nat]
WorldRow == [at : Land \cup {Gone}, healthy : BOOLEAN, fresh : BOOLEAN,
             cities : SUBSET (Land \cup {-1}), guarded : SUBSET Land]
OrderSent == [turn : Nat, action : {"move", "found"}, site : Land, origin : Land,
              status : {"accepted", "rejected"}, effect : {"now", "later", "never"}]

CapitalTypes ==
  /\ capitalTurn \in Nat \ {0}
  /\ stage \in {"begin", "observe", "scout", "revealed", "run", "founded", "close", "stopped"}
  /\ w \in WorldRow /\ plan \in PlanRow
  /\ order \in Capital!Orders
  /\ sent \in {None, "accepted", "rejected"}
  /\ due \in {None} \cup [action : {"move", "found"}, dest : Land]
  /\ acted \in SUBSET OrderSent

(* How the plan goes with the stage of the turn. *)
InTurn ==
  /\ stage # "stopped" => ~plan.failed
  /\ plan.pending # None => plan.mission # None /\ plan.pending.turn <= capitalTurn
  /\ stage \in {"observe", "scout", "revealed"} => due = None /\ sent = None
  /\ \A a \in acted : a.turn <= capitalTurn
  /\ stage \in {"begin", "observe", "scout", "revealed"} => \A a \in acted : a.turn < capitalTurn
  /\ stage \in {"scout", "revealed", "run"} /\ ~plan.disabled => plan.mission # None
  /\ stage \in {"scout", "revealed"} /\ ~plan.disabled /\ Capital!Explicit =>
       /\ plan.pending # None /\ plan.pending.status = "due"
       /\ plan.pending.action = order.action /\ plan.pending.turn = capitalTurn
  /\ stage \in {"scout", "revealed", "run"} /\ ~plan.disabled /\ plan.pending # None =>
       plan.pending.status = "due" \/ plan.resolution
  /\ stage \in {"founded", "close", "begin", "observe"} /\ plan.pending # None =>
       plan.pending.status # "due"
  /\ stage \in {"begin", "observe"} /\ plan.pending # None => plan.pending.turn < capitalTurn
  /\ stage = "run" /\ sent # None =>
       /\ plan.pending # None /\ plan.pending.status = "due"
       /\ \E a \in acted : a.turn = capitalTurn

(* An order is in the plan's books, or is the one it has yet to hear of. *)
Outstanding(a) ==
  /\ plan.pending # None /\ plan.pending.action = a.action /\ plan.pending.turn = a.turn
  /\ plan.pending.origin = a.origin /\ plan.mission.site = a.site
  /\ \/ stage \in {"run", "founded", "close", "begin", "observe"} /\ plan.pending.status = a.status
     \/ stage = "run" /\ plan.pending.status = "due" /\ sent = a.status
Entered(a) ==
  a.action = "found" =>
    \/ a.site \in plan.foundSites \/ stage = "stopped"
    \/ stage = "run" /\ sent # None /\ plan.pending.status = "due" /\ Outstanding(a)
Ends(a) ==
  a.action = "found" /\ a.status = "accepted" => plan.disabled \/ plan.failed \/ Outstanding(a)
Shunned(a) ==
  a.action = "move" /\ a.effect = "never" =>
    \/ plan.disabled \/ plan.failed \/ <<a.origin, a.site>> \in plan.failedEdges
    \/ Outstanding(a) /\ due = None /\ w.at \in {a.origin, Gone} /\ a.site # a.origin
Booked ==
  /\ \A a \in acted : Entered(a) /\ Ends(a) /\ Shunned(a)
  /\ Capital!NothingTwice

(* A city stands where an order to found was carried out. *)
RaisedBy(A, c) == \E a \in A : a.action = "found" /\ a.effect # "never" /\ a.site = c
Raised(c) == RaisedBy(acted, c)
Credited ==
  /\ \A c \in w.cities : c = -1 \/ Raised(c)
  /\ due # None /\ w.at # Gone => (due.action = "found" => Raised(w.at))
  /\ Capital!CreditIsEarned

CapitalInv == CapitalTypes /\ InTurn /\ Booked /\ Credited /\ Capital!NeverIdleUnasked
-----------------------------------------------------------------------------
(* What observe makes of the plan. *)
PlanOk(p) == p \in PlanRow /\ (p.pending # None => p.mission # None)

LEMMA PlanParts ==
  ASSUME NEW p \in PlanRow
  PROVE  /\ p.mission # None => /\ p.mission.site \in Land /\ p.mission.arrived \in Nat
                             /\ p.mission \in [site : Land, arrived : Nat]
         /\ p.pending # None =>
           /\ p.pending.action \in {"move", "found"}
           /\ p.pending.status \in {"due", "accepted", "rejected"}
           /\ p.pending.turn \in Nat /\ p.pending.origin \in Land
         /\ p.disabled \in BOOLEAN /\ p.failed \in BOOLEAN /\ p.resolution \in BOOLEAN
         /\ p.started \in Nat /\ p.relocations \in Nat /\ p.holds \in Nat /\ p.lastHold \in Nat
         /\ p.completed \in Nat /\ p.foundSites \in SUBSET Land
         /\ p.failedEdges \in SUBSET (Land \X Land)
BY DEF PlanRow

LEMMA MissionsAndOrders ==
  /\ \A s \in Land, t \in Nat : [site |-> s, arrived |-> t] # None
  /\ \A x \in [action : {"move", "found"}, status : {"due", "accepted", "rejected"},
               turn : Nat, origin : Land, superseded : BOOLEAN] : x # None
  /\ \A x \in [action : {"move", "found", "hold"}, dest : Land] : x # None
<1>1. Land \subseteq Int
  BY CapitalAssumption
<1>2. \A s \in Land, t \in Nat : [site |-> s, arrived |-> t] \in [site : Int, arrived : Int]
  BY <1>1
<1>3. ASSUME NEW x \in [action : {"move", "found"}, status : {"due", "accepted", "rejected"},
                        turn : Nat, origin : Land, superseded : BOOLEAN]
      PROVE  x \in [action : {"move", "found"}, status : {"due", "accepted", "rejected"},
                    turn : Int, origin : Int, superseded : BOOLEAN]
  <2>1. /\ x.action \in {"move", "found"} /\ x.status \in {"due", "accepted", "rejected"}
        /\ x.superseded \in BOOLEAN
        /\ x = [action |-> x.action, status |-> x.status, turn |-> x.turn, origin |-> x.origin,
                superseded |-> x.superseded]
    OBVIOUS
  <2>2. x.turn \in Nat /\ x.origin \in Land
    OBVIOUS
  <2>3. x.turn \in Int
    BY <2>2
  <2>4. x.origin \in Int
    BY <1>1, <2>2
  <2> QED BY <2>1, <2>3, <2>4
<1>4. ASSUME NEW x \in [action : {"move", "found", "hold"}, dest : Land]
      PROVE  x \in [action : {"move", "found", "hold"}, dest : Int]
  BY <1>1
<1>5. /\ None \notin [action : {"move", "found", "hold"}, dest : Int]
      /\ None \notin [site : Int, arrived : Int]
      /\ None \notin [action : {"move", "found"}, status : {"due", "accepted", "rejected"},
                      turn : Int, origin : Int, superseded : BOOLEAN]
  BY CapitalAssumption, Zenon
<1>6. \A s \in Land, t \in Nat : [site |-> s, arrived |-> t] # None
  BY <1>2, <1>5, Zenon
<1>7. \A x \in [action : {"move", "found"}, status : {"due", "accepted", "rejected"},
                turn : Nat, origin : Land, superseded : BOOLEAN] : x # None
  BY <1>3, <1>5, Zenon
<1>8. \A x \in [action : {"move", "found", "hold"}, dest : Land] : x # None
  BY <1>4, <1>5, Zenon
<1> QED BY <1>6, <1>7, <1>8, Zenon

(* One line of observe for each of its returns. *)
LEMMA ObserveReturns ==
  ASSUME NEW p, PlanOk(p), NEW t \in Nat \ {0}
  PROVE  LET r == Capital!Observe(p, t)
             q == [p EXCEPT !.started = IF p.started = 0 THEN t ELSE p.started]
             o == p.pending
         IN \/ p.disabled /\ r = p
            \/ /\ ~p.disabled /\ p.mission # None /\ Capital!Founded(p)
               /\ r = [p EXCEPT !.completed = t, !.pending = None, !.disabled = TRUE]
            \/ /\ ~p.disabled /\ w.cities # {}
               /\ r = [p EXCEPT !.disabled = TRUE,
                                !.pending = IF o = None THEN None ELSE [o EXCEPT !.superseded = TRUE]]
            \/ /\ ~p.disabled
               /\ \/ r = [q EXCEPT !.failed = TRUE]
                  \/ /\ w.at # Gone /\ ~(t - q.started >= MaxPlanTurns)
                     /\ \/ r = q /\ (o = None \/ o.status = "due")
                        \/ o # None /\ o.status # "due" /\ r = Capital!Settled(q, t)
<1> DEFINE q == [p EXCEPT !.started = IF p.started = 0 THEN t ELSE p.started]
<1>1. q.mission = p.mission /\ q.pending = p.pending
  BY DEF PlanOk, PlanRow
<1>2. p.disabled \in BOOLEAN
  BY PlanParts DEF PlanOk
<1>3. CASE p.disabled
  BY <1>3 DEF Capital!Observe
<1>4. CASE ~p.disabled /\ p.mission # None /\ Capital!Founded(p)
  BY <1>4 DEF Capital!Observe
<1>5. CASE ~p.disabled /\ ~(p.mission # None /\ Capital!Founded(p)) /\ w.cities # {}
  BY <1>5, Zenon DEF Capital!Observe
<1>6. CASE ~p.disabled /\ ~(p.mission # None /\ Capital!Founded(p)) /\ w.cities = {}
  <2>1. Capital!Observe(p, t)
        = IF w.at = Gone \/ t - q.started >= MaxPlanTurns THEN [q EXCEPT !.failed = TRUE]
          ELSE IF q.mission = None \/ q.pending = None THEN q
          ELSE IF q.pending.status = "due" THEN q
          ELSE Capital!Settled(q, t)
    BY <1>6, Zenon DEF Capital!Observe
  <2> HIDE DEF q
  <2> QED BY <1>1, <1>6, <2>1 DEF PlanOk, q
<1> QED BY <1>2, <1>3, <1>4, <1>5, <1>6

(* The changes a plan goes through, one lemma for each. *)
Base(p) == <<p.started, p.foundSites, p.lastHold>>
Orders == [action : {"move", "found"}, status : {"due", "accepted", "rejected"},
           turn : Nat, origin : Land, superseded : BOOLEAN]

LEMMA PlanStarts ==
  ASSUME NEW p \in PlanRow, NEW t \in Nat,
         NEW r, r = [p EXCEPT !.started = t]
  PROVE  /\ r \in PlanRow /\ r.mission = p.mission /\ r.pending = p.pending
         /\ r.disabled = p.disabled /\ r.failed = p.failed /\ r.failedEdges = p.failedEdges
         /\ r.resolution = p.resolution /\ r.completed = p.completed
         /\ r.started = t /\ r.foundSites = p.foundSites /\ r.lastHold = p.lastHold
BY DEF PlanRow

(* What _settle makes of the answer the last order had. *)
Stood(q, o) == o.status = "accepted" /\ w.at = q.mission.site
Settles(q, t, o, r) ==
  /\ r \in PlanRow /\ r.disabled = q.disabled /\ r.completed = q.completed
  /\ Base(r) = Base(q) /\ q.failedEdges \subseteq r.failedEdges
  /\ (q.failed => r.failed) /\ (q.resolution => r.resolution)
  /\ \/ r.mission = q.mission /\ r.pending = o
     \/ /\ o.action = "move" /\ Stood(q, o) /\ r.pending = None
        /\ r.mission = [site |-> q.mission.site, arrived |-> t]
  /\ o.action = "move" /\ ~Stood(q, o) /\ (o.status = "rejected" \/ t > o.turn) =>
       r.resolution /\ <<o.origin, q.mission.site>> \in r.failedEdges
  /\ o.action = "move" /\ Stood(q, o) => r.pending = None
  /\ o.action = "found" /\ o.status = "rejected" => r.resolution
  /\ o.action = "found" /\ o.status = "accepted" /\ t > o.turn => r.failed

LEMMA SettledBooks ==
  ASSUME NEW q \in PlanRow, NEW t \in Nat, q.mission # None, q.pending # None,
         NEW r, r = Capital!Settled(q, t)
  PROVE  Settles(q, t, q.pending, r)
<1> DEFINE o == q.pending
<1> DEFINE E == q.failedEdges \cup {<<o.origin, q.mission.site>>}
<1>1. /\ o.action \in {"move", "found"} /\ q.mission.site \in Land /\ o.origin \in Land
      /\ q.failedEdges \in SUBSET (Land \X Land) /\ o.status \in {"due", "accepted", "rejected"}
      /\ o.turn \in Nat /\ q.failed \in BOOLEAN /\ q.resolution \in BOOLEAN
  BY PlanParts
<1>2. E \in SUBSET (Land \X Land) /\ q.failedEdges \subseteq E /\ <<o.origin, q.mission.site>> \in E
  BY <1>1
<1> HIDE DEF E
<1>3. CASE o.action = "move" /\ Stood(q, o)
  <2>1. r = [q EXCEPT !.mission.arrived = t, !.pending = None]
    BY <1>3 DEF Capital!Settled, Stood
  <2> DEFINE m == [q.mission EXCEPT !.arrived = t]
  <2>3. q.mission \in [site : Land, arrived : Nat]
    BY DEF PlanRow
  <2>4. m \in [site : Land, arrived : Nat] /\ m = [site |-> q.mission.site, arrived |-> t]
    BY <2>3
  <2>5. r = [q EXCEPT !.mission = m, !.pending = None]
    BY <2>1
  <2> HIDE DEF m
  <2>6. r \in PlanRow
    BY <2>4, <2>5 DEF PlanRow
  <2>7. /\ r.mission = m /\ r.pending = None /\ r.disabled = q.disabled /\ r.failed = q.failed
        /\ r.failedEdges = q.failedEdges
        /\ r.resolution = q.resolution /\ r.completed = q.completed /\ Base(r) = Base(q)
    BY <2>5 DEF PlanRow, Base
  <2>2. /\ r \in PlanRow /\ r.mission = [site |-> q.mission.site, arrived |-> t]
        /\ r.pending = None /\ r.disabled = q.disabled /\ r.failed = q.failed
        /\ r.failedEdges = q.failedEdges
        /\ r.resolution = q.resolution /\ r.completed = q.completed /\ Base(r) = Base(q)
    BY <2>4, <2>6, <2>7
  <2> QED BY <1>1, <1>3, <2>2 DEF Settles
<1>4. CASE o.action = "move" /\ ~Stood(q, o) /\ (o.status = "rejected" \/ t > o.turn)
  <2>1. r = [q EXCEPT !.failedEdges = E, !.resolution = TRUE]
    BY <1>4 DEF Capital!Settled, Stood, E
  <2>2. /\ r \in PlanRow /\ r.mission = q.mission /\ r.pending = q.pending
        /\ r.disabled = q.disabled /\ r.failed = q.failed /\ r.failedEdges = E
        /\ r.resolution = TRUE /\ r.completed = q.completed /\ Base(r) = Base(q)
    BY <1>2, <2>1 DEF PlanRow, Base, Orders
  <2> QED BY <1>1, <1>2, <1>4, <2>2 DEF Settles
<1>5. CASE o.action = "found" /\ o.status = "rejected"
  <2>1. r = [q EXCEPT !.resolution = TRUE]
    BY <1>5 DEF Capital!Settled
  <2>2. /\ r \in PlanRow /\ r.mission = q.mission /\ r.pending = q.pending
        /\ r.disabled = q.disabled /\ r.failed = q.failed /\ r.failedEdges = q.failedEdges
        /\ r.resolution = TRUE /\ r.completed = q.completed /\ Base(r) = Base(q)
    BY <2>1 DEF PlanRow, Base, Orders
  <2> QED BY <1>1, <1>5, <2>2 DEF Settles
<1>6. CASE o.action = "found" /\ o.status = "accepted" /\ t > o.turn
  <2>1. r = [q EXCEPT !.failed = TRUE]
    BY <1>6 DEF Capital!Settled
  <2>2. /\ r \in PlanRow /\ r.mission = q.mission /\ r.pending = q.pending
        /\ r.disabled = q.disabled /\ r.failed = TRUE /\ r.failedEdges = q.failedEdges
        /\ r.resolution = q.resolution /\ r.completed = q.completed /\ Base(r) = Base(q)
    BY <2>1 DEF PlanRow, Base, Orders
  <2> QED BY <1>1, <1>6, <2>2 DEF Settles
<1>7. CASE ~ \/ o.action = "move" /\ Stood(q, o)
             \/ o.action = "move" /\ ~Stood(q, o) /\ (o.status = "rejected" \/ t > o.turn)
             \/ o.action = "found" /\ o.status = "rejected"
             \/ o.action = "found" /\ o.status = "accepted" /\ t > o.turn
  <2>1. r = q
    BY <1>7 DEF Capital!Settled, Stood
  <2> QED BY <1>1, <1>7, <2>1 DEF Settles
<1> QED BY <1>3, <1>4, <1>5, <1>6, <1>7

(* What of the plan observe never changes, and what it may set. *)
Follows(p, r) ==
  /\ PlanOk(r)
  /\ p.disabled => r = p
  /\ p.failed => r.failed
  /\ p.resolution => r.resolution
  /\ r.foundSites = p.foundSites /\ r.lastHold = p.lastHold
  /\ p.failedEdges \subseteq r.failedEdges
  /\ p.mission # None => r.mission # None /\ r.mission.site = p.mission.site
  /\ p.mission = None => r.mission = None
  /\ r.pending # None =>
       /\ p.pending # None /\ r.pending.action = p.pending.action
       /\ r.pending.status = p.pending.status /\ r.pending.turn = p.pending.turn
       /\ r.pending.origin = p.pending.origin
  /\ r.completed # p.completed =>
       p.mission # None /\ p.pending # None /\ p.mission.site \in w.cities

LEMMA ObserveKeeps ==
  ASSUME NEW p, PlanOk(p), NEW t \in Nat \ {0}, NEW r, r = Capital!Observe(p, t)
  PROVE  Follows(p, r)
<1> DEFINE q == [p EXCEPT !.started = IF p.started = 0 THEN t ELSE p.started]
           s == IF p.started = 0 THEN t ELSE p.started
           o == p.pending
           x == IF o = None THEN None ELSE [o EXCEPT !.superseded = TRUE]
<1>p. /\ p \in PlanRow /\ p.disabled \in BOOLEAN /\ p.failed \in BOOLEAN /\ p.resolution \in BOOLEAN
      /\ (o # None => p.mission # None) /\ s \in Nat
  BY PlanParts DEF PlanOk
<1>1. /\ q \in PlanRow /\ q.mission = p.mission /\ q.pending = p.pending
      /\ q.disabled = p.disabled /\ q.failed = p.failed /\ q.foundSites = p.foundSites
      /\ q.failedEdges = p.failedEdges /\ q.resolution = p.resolution /\ q.lastHold = p.lastHold
      /\ q.completed = p.completed
  <2> HIDE DEF s
  <2>1. q = [p EXCEPT !.started = s]
    BY DEF s
  <2> HIDE DEF q
  <2> QED BY <1>p, <2>1, PlanStarts
<1>2. CASE p.disabled /\ r = p
  BY <1>p, <1>2 DEF PlanOk, Follows
<1>3. CASE /\ ~p.disabled /\ p.mission # None /\ Capital!Founded(p)
           /\ r = [p EXCEPT !.completed = t, !.pending = None, !.disabled = TRUE]
  <2>1. /\ r \in PlanRow /\ r.mission = p.mission /\ r.pending = None /\ r.disabled = TRUE
        /\ r.failed = p.failed /\ r.failedEdges = p.failedEdges
        /\ r.resolution = p.resolution /\ Base(r) = Base(p)
    <3>1. t \in Nat
      OBVIOUS
    <3> QED BY <1>p, <1>3, <3>1 DEF PlanRow, Base, Orders
  <2>2. p.pending # None /\ p.mission.site \in w.cities
    BY <1>3 DEF Capital!Founded
  <2>3. ~p.disabled /\ p.mission # None
    BY <1>3
  <2> QED BY <2>1, <2>2, <2>3 DEF PlanOk, Follows, Base
<1>4. CASE ~p.disabled /\ r = [p EXCEPT !.disabled = TRUE, !.pending = x]
  <2>1. /\ x \in {None} \cup Orders /\ (x = None <=> o = None)
        /\ o # None => /\ x.action = o.action /\ x.status = o.status /\ x.turn = o.turn
                       /\ x.origin = o.origin
    <3>1. CASE o = None
      BY <3>1
    <3>2. CASE o # None
      <4>1. o \in Orders
        BY <1>p, <3>2 DEF PlanRow, Orders
      <4>2. [o EXCEPT !.superseded = TRUE] \in Orders
        BY <4>1 DEF Orders
      <4>3. /\ [o EXCEPT !.superseded = TRUE].action = o.action
            /\ [o EXCEPT !.superseded = TRUE].status = o.status
            /\ [o EXCEPT !.superseded = TRUE].turn = o.turn
            /\ [o EXCEPT !.superseded = TRUE].origin = o.origin
        BY <4>1 DEF Orders
      <4> QED BY <3>2, <4>2, <4>3, MissionsAndOrders DEF Orders
    <3> QED BY <3>1, <3>2
  <2> HIDE DEF x
  <2>2. /\ r \in PlanRow /\ r.mission = p.mission /\ r.pending = x /\ r.disabled = TRUE
        /\ r.failed = p.failed /\ r.failedEdges = p.failedEdges
        /\ r.resolution = p.resolution /\ r.completed = p.completed /\ Base(r) = Base(p)
    BY <1>p, <1>4, <2>1 DEF PlanRow, Base, Orders
  <2>3. ~p.disabled
    BY <1>4
  <2> QED BY <1>p, <2>1, <2>2, <2>3 DEF PlanOk, Follows, Base
<1> HIDE DEF q
<1>5. CASE ~p.disabled /\ r = [q EXCEPT !.failed = TRUE]
  <2>1. /\ r \in PlanRow /\ r.mission = q.mission /\ r.pending = q.pending
        /\ r.disabled = q.disabled /\ r.failed = TRUE /\ r.failedEdges = q.failedEdges
        /\ r.resolution = q.resolution /\ r.completed = q.completed /\ Base(r) = Base(q)
    <3>1. TRUE \in BOOLEAN
      OBVIOUS
    <3> QED BY <1>1, <1>5, <3>1 DEF PlanRow, Base, Orders
  <2>2. ~p.disabled
    BY <1>5
  <2> QED BY <1>p, <1>1, <2>1, <2>2 DEF PlanOk, Follows, Base
<1>6. CASE ~p.disabled /\ r = q
  BY <1>p, <1>1, <1>6 DEF PlanOk, Follows
<1>7. CASE ~p.disabled /\ o # None /\ r = Capital!Settled(q, t)
  <2>0. p.mission # None /\ ~p.disabled /\ o # None /\ t \in Nat /\ p.mission.site \in Land
    BY <1>p, <1>7, PlanParts
  <2>1. q.mission # None /\ o = q.pending /\ o # None /\ r = Capital!Settled(q, t)
    BY <1>1, <1>7, <2>0
  <2>4. /\ r \in PlanRow /\ r.disabled = q.disabled /\ r.completed = q.completed
        /\ Base(r) = Base(q) /\ q.failedEdges \subseteq r.failedEdges
        /\ (q.failed => r.failed) /\ (q.resolution => r.resolution)
        /\ \/ r.mission = q.mission /\ r.pending = o
           \/ r.pending = None /\ r.mission = [site |-> q.mission.site, arrived |-> t]
    <3>1. Settles(q, t, q.pending, r)
      BY <1>1, <2>0, <2>1, SettledBooks, Zenon
    <3> QED BY <2>1, <3>1 DEF Settles
  <2>3. r.mission # None /\ r.mission.site = p.mission.site
    <3>1. [site |-> p.mission.site, arrived |-> t] # None
      BY <2>0, MissionsAndOrders, Zenon
    <3> QED BY <1>1, <2>0, <2>4, <3>1
  <2>5. r.pending = None \/ r.pending = o
    BY <2>4
  <2>6. Base(r) = Base(q) => r.foundSites = q.foundSites /\ r.lastHold = q.lastHold
    BY DEF Base
  <2> QED BY <1>p, <1>1, <2>0, <2>3, <2>4, <2>5, <2>6 DEF PlanOk, Follows
<1> QED BY <1>2, <1>3, <1>4, <1>5, <1>6, <1>7, ObserveReturns DEF q, x

(* Where the plan goes on, the turn is within its time, and an answer the    *)
(* last order had is either what the founder shows or asked about.           *)
Heard(o, t) == o.status = "rejected" \/ (o.status = "accepted" /\ t > o.turn)
GoesOn(p, t, r) ==
  /\ w.at # Gone /\ t - r.started < MaxPlanTurns
  /\ p.pending # None =>
       /\ r.pending = None =>
            w.at = p.mission.site /\ r.mission.arrived = t /\ p.pending.action = "move"
       /\ r.pending # None /\ Heard(p.pending, t) => r.resolution
       /\ ~(p.pending.action = "found" /\ p.pending.status = "accepted" /\ t > p.pending.turn)
       /\ p.pending.action = "move" /\ Heard(p.pending, t) /\ w.at # p.mission.site =>
            <<p.pending.origin, p.mission.site>> \in r.failedEdges

LEMMA ObserveGoesOn ==
  ASSUME NEW p, PlanOk(p), NEW t \in Nat \ {0}, NEW r, r = Capital!Observe(p, t),
         ~r.disabled, ~r.failed
  PROVE  GoesOn(p, t, r)
<1> DEFINE o == p.pending
           s == IF p.started = 0 THEN t ELSE p.started
           q == [p EXCEPT !.started = IF p.started = 0 THEN t ELSE p.started]
<1>p. /\ p \in PlanRow /\ p.disabled \in BOOLEAN /\ p.failed \in BOOLEAN /\ p.resolution \in BOOLEAN
      /\ (o # None => p.mission # None) /\ s \in Nat
  BY PlanParts DEF PlanOk
<1>1. /\ q \in PlanRow /\ q.mission = p.mission /\ q.pending = p.pending /\ q.started \in Nat
      /\ q.disabled = p.disabled /\ q.failed = p.failed
  <2> HIDE DEF s
  <2>1. q = [p EXCEPT !.started = s]
    BY DEF s
  <2> HIDE DEF q
  <2> QED BY <1>p, <2>1, PlanStarts
<1>3. /\ w.at # Gone /\ ~(t - q.started >= MaxPlanTurns)
      /\ \/ r = q /\ (o = None \/ o.status = "due")
         \/ o # None /\ o.status # "due" /\ r = Capital!Settled(q, t)
  <2>2. r # [p EXCEPT !.completed = t, !.pending = None, !.disabled = TRUE]
    <3>1. [p EXCEPT !.completed = t, !.pending = None, !.disabled = TRUE].disabled = TRUE
      BY <1>p DEF PlanRow
    <3> QED BY <3>1
  <2>3. \A x : r # [p EXCEPT !.disabled = TRUE, !.pending = x]
    <3>1. \A x : [p EXCEPT !.disabled = TRUE, !.pending = x].disabled = TRUE
      BY <1>p DEF PlanRow
    <3> QED BY <3>1
  <2>4. r # [q EXCEPT !.failed = TRUE]
    <3>1. [q EXCEPT !.failed = TRUE].failed = TRUE
      BY <1>1 DEF PlanRow
    <3> QED BY <3>1
  <2>5. ~(p.disabled /\ r = p)
    OBVIOUS
  <2> HIDE DEF q
  <2> QED BY <2>2, <2>3, <2>4, <2>5, ObserveReturns, Zenon DEF q
<1> HIDE DEF q
<1>6. CASE r = q /\ (o = None \/ o.status = "due")
  <2>1. t - r.started < MaxPlanTurns
    BY <1>1, <1>3, <1>6, CapitalAssumption
  <2>2. o # None => ~Heard(o, t) /\ r.pending = o /\ o.status # "accepted"
    BY <1>1, <1>6 DEF Heard
  <2> QED BY <1>3, <1>6, <2>1, <2>2 DEF GoesOn
<1>7. CASE o # None /\ o.status # "due" /\ r = Capital!Settled(q, t)
  <2>0. /\ q.mission # None /\ o = q.pending /\ o # None /\ r = Capital!Settled(q, t)
        /\ t \in Nat /\ p.mission.site \in Land
    BY <1>p, <1>1, <1>7, PlanParts
  <2>2. /\ o.status \in {"accepted", "rejected"} /\ o.turn \in Nat
        /\ o.action \in {"move", "found"}
    BY <1>p, <1>7, PlanParts
  <2>4. /\ Base(r) = Base(q)
        /\ \/ r.mission = q.mission /\ r.pending = o
           \/ /\ o.action = "move" /\ Stood(q, o) /\ r.pending = None
              /\ r.mission = [site |-> q.mission.site, arrived |-> t]
        /\ o.action = "move" /\ ~Stood(q, o) /\ (o.status = "rejected" \/ t > o.turn) =>
              r.resolution /\ <<o.origin, q.mission.site>> \in r.failedEdges
        /\ o.action = "move" /\ Stood(q, o) => r.pending = None
        /\ o.action = "found" /\ o.status = "rejected" => r.resolution
        /\ o.action = "found" /\ o.status = "accepted" /\ t > o.turn => r.failed
    <3>1. Settles(q, t, q.pending, r)
      BY <1>1, <2>0, SettledBooks, Zenon
    <3> QED BY <2>0, <3>1 DEF Settles
  <2>1. t - r.started < MaxPlanTurns
    <3>1. r.started = q.started
      BY <2>4 DEF Base
    <3> QED BY <1>1, <1>3, <3>1, CapitalAssumption
  <2>5. r.pending = None =>
           w.at = p.mission.site /\ r.mission.arrived = t /\ o.action = "move"
    BY <1>1, <2>0, <2>4 DEF Stood
  <2>6. Heard(o, t) => o.status = "rejected" \/ t > o.turn
    BY DEF Heard
  <2>7. o.action = "move" /\ Heard(o, t) /\ w.at # p.mission.site =>
           r.resolution /\ <<o.origin, p.mission.site>> \in r.failedEdges
    BY <1>1, <2>4, <2>6 DEF Stood
  <2>8. r.pending # None /\ Heard(o, t) => r.resolution
    <3>1. CASE o.action = "move"
      BY <2>4, <2>6, <3>1
    <3>2. CASE o.action = "found"
      BY <2>2, <2>4, <2>6, <3>2
    <3> QED BY <2>2, <3>1, <3>2
  <2>9. ~(o.action = "found" /\ o.status = "accepted" /\ t > o.turn)
    BY <2>4
  <2> QED BY <1>3, <1>7, <2>1, <2>5, <2>7, <2>8, <2>9 DEF GoesOn
<1> QED BY <1>3, <1>6, <1>7

(* What of an order sent remains in the books while the plan goes on. *)
InBooks(p, a) ==
  /\ p.pending # None /\ p.pending.action = a.action /\ p.pending.turn = a.turn
  /\ p.pending.origin = a.origin /\ p.pending.status = a.status /\ p.mission.site = a.site
LEMMA BooksStay ==
  ASSUME NEW p, PlanOk(p), NEW t \in Nat \ {0}, NEW r, r = Capital!Observe(p, t),
         ~r.disabled, ~r.failed, NEW a, InBooks(p, a),
         a.action = "found" \/ (w.at \in {a.origin, Gone} /\ a.site # a.origin)
  PROVE  InBooks(r, a)
<1>1. p.pending # None /\ p.mission # None
  BY DEF InBooks, PlanOk
<1>2. GoesOn(p, t, r)
  BY ObserveGoesOn
<1>3. r.pending # None
  BY <1>1, <1>2 DEF InBooks, GoesOn
<1>4. Follows(p, r)
  BY ObserveKeeps
<1> QED BY <1>1, <1>3, <1>4 DEF Follows, InBooks

(* run's receipt of the order the model gave. *)
Receipt(p, r) ==
  /\ PlanOk(r) /\ r.mission = p.mission /\ r.disabled = p.disabled
  /\ r.failedEdges = p.failedEdges /\ r.resolution = p.resolution /\ r.completed = p.completed
  /\ (p.failed => r.failed) /\ p.foundSites \subseteq r.foundSites
  /\ p.pending = None => r.pending = None
  /\ p.pending # None =>
       /\ r.pending # None /\ r.pending.action = p.pending.action
       /\ r.pending.turn = p.pending.turn /\ r.pending.origin = p.pending.origin
       /\ p.pending.status # "due" => r.pending.status = p.pending.status
       /\ p.pending.status = "due" /\ sent = None => r.failed
       /\ p.pending.status = "due" /\ sent # None =>
            /\ r.pending.status = sent
            /\ p.pending.action = "found" => p.mission.site \in r.foundSites

LEMMA ReceivedBooks ==
  ASSUME NEW p, PlanOk(p), sent \in {None, "accepted", "rejected"},
         NEW r, r = Capital!Received(p)
  PROVE  Receipt(p, r)
<1>p. /\ p \in PlanRow /\ p.failed \in BOOLEAN /\ (p.pending # None => p.mission # None)
      /\ p.relocations \in Nat /\ p.foundSites \in SUBSET Land
      /\ (p.pending # None => p.pending.action \in {"move", "found"})
      /\ (p.mission # None => p.mission.site \in Land)
  BY PlanParts DEF PlanOk
<1>1. CASE p.pending = None \/ p.pending.status # "due"
  <2>1. r = p
    BY <1>1 DEF Capital!Received
  <2> QED BY <1>p, <1>1, <2>1 DEF Receipt, PlanOk
<1>2. CASE p.pending # None /\ p.pending.status = "due" /\ sent = None
  <2>1. r = [p EXCEPT !.failed = TRUE]
    BY <1>2 DEF Capital!Received
  <2>2. /\ r \in PlanRow /\ r.mission = p.mission /\ r.pending = p.pending
        /\ r.disabled = p.disabled /\ r.failed = TRUE /\ r.failedEdges = p.failedEdges
        /\ r.resolution = p.resolution /\ r.completed = p.completed /\ Base(r) = Base(p)
    <3>1. TRUE \in BOOLEAN
      OBVIOUS
    <3> QED BY <1>p, <2>1, <3>1 DEF PlanRow, Base, Orders
  <2> QED BY <1>p, <1>2, <2>2 DEF Receipt, PlanOk, Base
<1>3. CASE p.pending # None /\ p.pending.status = "due" /\ sent # None
  <2> DEFINE q == [p EXCEPT !.pending.status = sent]
  <2>1. sent \in {"due", "accepted", "rejected"}
    BY <1>3
  <2>2. /\ q \in PlanRow /\ q.mission = p.mission /\ q.disabled = p.disabled /\ q.failed = p.failed
        /\ q.failedEdges = p.failedEdges /\ q.foundSites = p.foundSites
        /\ q.relocations = p.relocations
        /\ q.resolution = p.resolution /\ q.completed = p.completed
        /\ q.pending \in Orders /\ q.pending.action = p.pending.action
        /\ q.pending.turn = p.pending.turn /\ q.pending.origin = p.pending.origin
        /\ q.pending.status = sent
    <3> DEFINE x == [p.pending EXCEPT !.status = sent]
    <3>1. p.pending \in Orders
      BY <1>p, <1>3 DEF PlanRow, Orders
    <3>2. /\ x \in Orders /\ x.action = p.pending.action /\ x.turn = p.pending.turn
          /\ x.origin = p.pending.origin /\ x.status = sent
      BY <2>1, <3>1 DEF Orders
    <3>3. q = [p EXCEPT !.pending = x]
      OBVIOUS
    <3> HIDE DEF x, q
    <3>4. /\ q \in PlanRow /\ q.mission = p.mission /\ q.disabled = p.disabled /\ q.failed = p.failed
          /\ q.failedEdges = p.failedEdges /\ q.foundSites = p.foundSites
          /\ q.relocations = p.relocations
          /\ q.resolution = p.resolution /\ q.completed = p.completed /\ q.pending = x
      BY <1>p, <3>2, <3>3 DEF PlanRow, Orders
    <3> QED BY <3>2, <3>4
  <2>3. q.pending # None
    BY <2>2, MissionsAndOrders DEF Orders
  <2>4. r = IF p.pending.action = "move" THEN [q EXCEPT !.relocations = q.relocations + 1]
            ELSE [q EXCEPT !.foundSites = q.foundSites \cup {p.mission.site}]
    BY <1>3 DEF Capital!Received, Capital!Attempted
  <2> HIDE DEF q
  <2>5. CASE p.pending.action = "move"
    <3> DEFINE n == q.relocations + 1
    <3>1. n \in Nat /\ r = [q EXCEPT !.relocations = n]
      BY <1>p, <2>2, <2>4, <2>5
    <3> HIDE DEF n
    <3>2. /\ r \in PlanRow /\ r.mission = q.mission /\ r.disabled = q.disabled /\ r.failed = q.failed
          /\ r.failedEdges = q.failedEdges /\ r.pending = q.pending
          /\ r.resolution = q.resolution /\ r.completed = q.completed /\ Base(r) = Base(q)
      BY <2>2, <3>1 DEF PlanRow, Base, Orders
    <3>3. r.foundSites = q.foundSites
      BY <3>2 DEF Base
    <3> QED BY <1>p, <1>3, <2>2, <2>3, <2>5, <3>2, <3>3 DEF Receipt, PlanOk
  <2>6. CASE p.pending.action = "found"
    <3> DEFINE S == q.foundSites \cup {p.mission.site}
    <3>1. S \in SUBSET Land /\ r = [q EXCEPT !.foundSites = S]
      BY <1>p, <1>3, <2>2, <2>4, <2>6
    <3>0. p.mission.site \in S /\ q.foundSites \subseteq S
      OBVIOUS
    <3> HIDE DEF S
    <3>2. /\ r \in PlanRow /\ r.mission = q.mission /\ r.disabled = q.disabled /\ r.failed = q.failed
          /\ r.failedEdges = q.failedEdges /\ r.pending = q.pending
          /\ r.resolution = q.resolution /\ r.completed = q.completed /\ r.foundSites = S
      BY <2>2, <3>1 DEF PlanRow, Base, Orders
    <3> QED BY <1>p, <1>3, <2>2, <2>3, <2>6, <3>0, <3>2 DEF Receipt, PlanOk
  <2> QED BY <1>p, <1>3, <2>5, <2>6
<1> QED BY <1>1, <1>2, <1>3

(* A plan that waits shows why in this turn, or it is over. *)
Waiting(p, r) ==
  /\ PlanOk(r) /\ r.mission = p.mission /\ r.pending = p.pending /\ r.disabled = p.disabled
  /\ r.failedEdges = p.failedEdges /\ r.foundSites = p.foundSites
  /\ r.resolution = p.resolution /\ r.completed = p.completed /\ r.started = p.started
  /\ r.failed \/ r.lastHold = capitalTurn \/ p.mission.arrived = capitalTurn

LEMMA HeldBooks ==
  ASSUME NEW p, PlanOk(p), capitalTurn \in Nat, NEW r, r = Capital!Held(p)
  PROVE  Waiting(p, r)
<1>p. p \in PlanRow /\ p.holds \in Nat /\ p.lastHold \in Nat
  BY PlanParts DEF PlanOk
<1> DEFINE n == IF p.lastHold = capitalTurn THEN p.holds ELSE p.holds + 1
           b == n > MaxGuardHolds
           z == [p EXCEPT !.holds = n, !.lastHold = capitalTurn, !.failed = b]
<1>1. n \in Nat
  BY <1>p
<1>2. b \in BOOLEAN
  OBVIOUS
<1>3. r = z
  <2>1. CASE p.lastHold = capitalTurn
    <3>1. p.holds > MaxGuardHolds <=> b
      BY <2>1
    <3>2. r = [p EXCEPT !.failed = p.holds > MaxGuardHolds]
      BY <2>1 DEF Capital!Held
    <3>3. n = p.holds /\ capitalTurn = p.lastHold
      BY <2>1
    <3> HIDE DEF n
    <3>4. [p EXCEPT !.holds = n, !.lastHold = capitalTurn, !.failed = b]
          = [p EXCEPT !.failed = b]
      BY <1>p, <3>3 DEF PlanRow
    <3> QED BY <3>1, <3>2, <3>3, <3>4
  <2>2. CASE p.lastHold # capitalTurn
    <3> DEFINE q == [p EXCEPT !.holds = p.holds + 1, !.lastHold = capitalTurn]
    <3>1. r = [q EXCEPT !.failed = q.holds > MaxGuardHolds]
      BY <2>2 DEF Capital!Held
    <3>2. q.holds = p.holds + 1
      BY <1>p DEF PlanRow
    <3>3. n = p.holds + 1
      BY <2>2
    <3>4. r = [q EXCEPT !.failed = b]
      BY <3>1, <3>2, <3>3
    <3> QED BY <1>p, <3>3, <3>4 DEF PlanRow
  <2> QED BY <2>1, <2>2
<1> HIDE DEF n, b
<1>4. r = [p EXCEPT !.holds = n, !.lastHold = capitalTurn, !.failed = b]
  BY <1>3
<1> HIDE DEF z
<1>5. r \in PlanRow
  BY <1>p, <1>1, <1>2, <1>4 DEF PlanRow
<1>6. /\ r.mission = p.mission /\ r.pending = p.pending
      /\ r.disabled = p.disabled /\ r.lastHold = capitalTurn
      /\ r.failedEdges = p.failedEdges /\ r.foundSites = p.foundSites
      /\ r.resolution = p.resolution /\ r.completed = p.completed /\ r.started = p.started
  BY <1>p, <1>4 DEF PlanRow
<1> QED BY <1>p, <1>5, <1>6 DEF Waiting, PlanOk

LEMMA WaitsBooks ==
  ASSUME NEW p, PlanOk(p), capitalTurn \in Nat, NEW r, r = Capital!Waits(p)
  PROVE  Waiting(p, r)
<1>p. p \in PlanRow /\ p.failed \in BOOLEAN
  BY PlanParts DEF PlanOk
<1>1. CASE r = Capital!Held(p)
  BY <1>1, HeldBooks
<1>2. CASE r = [p EXCEPT !.failed = TRUE]
  <2>1. /\ r \in PlanRow /\ r.mission = p.mission /\ r.pending = p.pending
        /\ r.disabled = p.disabled /\ r.failed = TRUE /\ r.failedEdges = p.failedEdges
        /\ r.resolution = p.resolution /\ r.completed = p.completed /\ Base(r) = Base(p)
    <3>1. TRUE \in BOOLEAN
      OBVIOUS
    <3> QED BY <1>p, <1>2, <3>1 DEF PlanRow, Base, Orders
  <2> QED BY <2>1 DEF Waiting, PlanOk, Base
<1>3. CASE r = p /\ p.mission.arrived = capitalTurn
  BY <1>p, <1>3 DEF Waiting, PlanOk
<1>4. \/ r = Capital!Held(p) \/ r = [p EXCEPT !.failed = TRUE]
      \/ r = p /\ p.mission.arrived = capitalTurn
  BY Zenon DEF Capital!Waits
<1> QED BY <1>1, <1>2, <1>3, <1>4

(* The order the plan takes from the model. *)
LEMMA OrdersAre ==
  \A o \in Capital!Orders :
    /\ o # None => /\ o.action \in {"move", "found", "hold"} /\ o.dest \in Land
                   /\ (w \in WorldRow /\ w.at # Gone => Capital!Target(o) \in Land)
    /\ o # None /\ o # Capital!Hold => o.action \in {"move", "found"}
    /\ Capital!Kept(o) \in {None, o}
<1>1. Start \in Land
  BY CapitalAssumption
<1> TAKE o \in Capital!Orders
<1>2. o # None => \/ o = [action |-> "hold", dest |-> Start]
                  \/ o \in [action : {"move", "found"}, dest : Land]
  BY DEF Capital!Orders, Capital!Hold, Capital!Action
<1>3. o # None => o.action \in {"move", "found", "hold"} /\ o.dest \in Land
  BY <1>1, <1>2
<1>4. o # None /\ o # Capital!Hold => o.action \in {"move", "found"}
  BY <1>2 DEF Capital!Hold
<1>5. o # None /\ w \in WorldRow /\ w.at # Gone => Capital!Target(o) \in Land
  BY <1>3 DEF Capital!Target, WorldRow
<1>6. Capital!Kept(o) \in {None, o}
  BY DEF Capital!Kept
<1> QED BY <1>3, <1>4, <1>5, <1>6

(* What prepare makes of the plan with the order k it keeps. *)
Plans(p, k, t, r) ==
  /\ PlanOk(r) /\ r.disabled = p.disabled /\ r.failed = p.failed
  /\ r.failedEdges = p.failedEdges /\ r.completed = p.completed /\ Base(r) = Base(p)
  /\ (p.disabled \/ p.failed) => r = p
  /\ ~p.disabled /\ ~p.failed =>
       /\ w.at # Gone /\ r.mission # None
       /\ \/ r = p /\ k = None
          \/ r.pending = None /\ (k = None \/ k = Capital!Hold)
          \/ /\ k # None /\ k # Capital!Hold /\ r.pending # None /\ r.pending.status = "due"
             /\ r.pending.action = k.action /\ r.pending.turn = t

LEMMA PreparedBooks ==
  ASSUME NEW p, PlanOk(p), w \in WorldRow, NEW o \in Capital!Orders, ~Capital!Refused(p, o),
         NEW t \in Nat, NEW r, r = Capital!Prepared(p, o, t)
  PROVE  Plans(p, Capital!Kept(o), t, r)
<1>p. p \in PlanRow /\ p.failed \in BOOLEAN /\ p.disabled \in BOOLEAN
  BY PlanParts DEF PlanOk
<1> DEFINE k == Capital!Kept(o)
           x == Capital!Pending(p, k, t)
           s == IF k = None THEN w.at ELSE Capital!Target(k)
<1>0. k \in Capital!Orders
  BY OrdersAre DEF Capital!Orders
<1>1. CASE p.disabled \/ p.failed
  <2>1. r = p
    BY <1>1 DEF Capital!Prepared
  <2> QED BY <1>p, <1>1, <2>1 DEF Plans, PlanOk
<1>2. CASE ~p.disabled /\ ~p.failed
  <2>1. w.at # Gone
    BY <1>2 DEF Capital!Refused
  <2>2. r = IF k = None /\ p.mission # None THEN p
            ELSE [p EXCEPT !.resolution = FALSE, !.pending = x, !.mission = [site |-> s, arrived |-> 0]]
    BY <1>2, Zenon DEF Capital!Prepared
  <2>3. CASE k = None /\ p.mission # None
    BY <1>p, <1>2, <2>1, <2>2, <2>3 DEF Plans, PlanOk
  <2>4. CASE ~(k = None /\ p.mission # None)
    <3>1. s \in Land
      <4> HIDE DEF k
      <4> QED BY <1>0, <2>1, OrdersAre DEF WorldRow
    <3>2. /\ x \in {None} \cup Orders
          /\ k = None \/ k = Capital!Hold => x = None
          /\ k # None /\ k # Capital!Hold =>
               /\ x # None /\ x.status = "due" /\ x.action = k.action /\ x.turn = t
      <4>1. CASE k = None \/ k = Capital!Hold
        BY <4>1 DEF Capital!Pending
      <4>2. CASE k # None /\ k # Capital!Hold
        <5>1. x = [action |-> k.action, status |-> "due", turn |-> t, origin |-> w.at,
                   superseded |-> FALSE]
          BY <4>2 DEF Capital!Pending
        <5>2. k.action \in {"move", "found"} /\ w.at \in Land
          <6> HIDE DEF k
          <6> QED BY <1>0, <2>1, <4>2, OrdersAre DEF WorldRow
        <5> HIDE DEF k, x
        <5>3. x \in Orders /\ x.status = "due" /\ x.action = k.action /\ x.turn = t
          BY <5>1, <5>2 DEF Orders
        <5> QED BY <4>2, <5>3, MissionsAndOrders DEF Orders
      <4> QED BY <4>1, <4>2
    <3>3. r = [p EXCEPT !.resolution = FALSE, !.pending = x, !.mission = [site |-> s, arrived |-> 0]]
      BY <2>2, <2>4
    <3> HIDE DEF k, x, s
    <3>4. /\ r \in PlanRow /\ r.mission # None /\ r.pending = x
          /\ r.disabled = p.disabled /\ r.failed = p.failed
          /\ r.failedEdges = p.failedEdges /\ r.completed = p.completed /\ Base(r) = Base(p)
      <4> DEFINE m == [site |-> s, arrived |-> 0]
      <4>1. m \in [site : Land, arrived : Nat] /\ m # None
        BY <3>1, MissionsAndOrders
      <4>2. r = [p EXCEPT !.resolution = FALSE, !.pending = x, !.mission = m]
        BY <3>3
      <4> HIDE DEF m
      <4>3. r \in PlanRow
        BY <1>p, <3>2, <4>1, <4>2 DEF PlanRow, Orders
      <4>4. /\ r.mission = m /\ r.pending = x /\ r.disabled = p.disabled /\ r.failed = p.failed
            /\ r.failedEdges = p.failedEdges /\ r.completed = p.completed /\ Base(r) = Base(p)
        BY <1>p, <4>2 DEF PlanRow, Base
      <4> QED BY <4>1, <4>3, <4>4
    <3>5. Plans(p, k, t, r)
      BY <1>2, <2>1, <3>2, <3>4 DEF Plans, PlanOk
    <3> QED BY <3>5 DEF k
  <2> QED BY <2>3, <2>4
<1> QED BY <1>p, <1>1, <1>2

(* What an order to the game adds to the history and does to the world. *)
Given(o, status, effect) ==
  [turn |-> capitalTurn, action |-> o.action, site |-> Capital!Target(o), origin |-> w.at,
   status |-> status, effect |-> effect]
LEMMA SendsAnOrder ==
  ASSUME CapitalTypes, w.at # Gone, NEW o \in [action : {"move", "found"}, dest : Land],
         NEW status \in {"accepted", "rejected"}, NEW effect \in Capital!Effects(status),
         Capital!Sends(o, status, effect), NEW a, a = Given(o, status, effect)
  PROVE  /\ acted' = acted \cup {a} /\ a \in OrderSent
         /\ a.turn = capitalTurn /\ a.action = o.action /\ a.status = status /\ a.effect = effect
         /\ a.origin = w.at /\ a.site = Capital!Target(o)
         /\ w' \in WorldRow /\ due' \in {None} \cup [action : {"move", "found"}, dest : Land]
         /\ effect # "now" => w' = w
         /\ effect # "later" => due' = None
         /\ effect = "later" => due' = o
         /\ effect = "now" => IF o.action = "found" THEN w'.cities = w.cities \cup {w.at}
                                                    ELSE w'.cities = w.cities
<1>1. w \in WorldRow /\ w.at \in Land
  BY DEF CapitalTypes, WorldRow
<1>2. effect \in {"now", "later", "never"}
  BY DEF Capital!Effects
<1>3. Capital!Target(o) \in Land /\ o.action \in {"move", "found"} /\ o.dest \in Land
  BY <1>1 DEF Capital!Target
<1>4. capitalTurn \in Nat
  BY DEF CapitalTypes
<1>5. /\ a \in OrderSent
      /\ a.turn = capitalTurn /\ a.action = o.action /\ a.status = status /\ a.effect = effect
      /\ a.origin = w.at /\ a.site = Capital!Target(o)
  BY <1>1, <1>2, <1>3, <1>4 DEF Given, OrderSent
<1>6. acted' = acted \cup {a} /\ w' = (IF effect = "now" THEN Capital!CarriedOut(w, o) ELSE w)
      /\ due' = IF effect = "later" THEN o ELSE None
  BY DEF Capital!Sends, Given
<1>7. Capital!CarriedOut(w, o) \in WorldRow
      /\ Capital!CarriedOut(w, o).cities = IF o.action = "found" THEN w.cities \cup {w.at} ELSE w.cities
  <2>1. CASE o.action = "move"
    <3>1. Capital!CarriedOut(w, o) = [w EXCEPT !.at = o.dest, !.fresh = FALSE]
      BY <2>1 DEF Capital!CarriedOut
    <3> QED BY <1>1, <1>3, <2>1, <3>1 DEF WorldRow
  <2>2. CASE o.action = "found"
    <3>1. Capital!CarriedOut(w, o) = [w EXCEPT !.cities = w.cities \cup {w.at}, !.at = Gone]
      BY <2>2 DEF Capital!CarriedOut
    <3>2. w.cities \cup {w.at} \in SUBSET (Land \cup {-1})
      BY <1>1 DEF WorldRow
    <3>3. Capital!CarriedOut(w, o) \in WorldRow
      BY <1>1, <3>1, <3>2 DEF WorldRow
    <3>4. Capital!CarriedOut(w, o).cities = w.cities \cup {w.at}
      BY <1>1, <3>1 DEF WorldRow
    <3> QED BY <2>2, <3>3, <3>4
  <2> QED BY <1>3, <2>1, <2>2
<1> QED BY <1>1, <1>5, <1>6, <1>7

LEMMA CreditStands ==
  ASSUME CapitalTypes, Credited, w.at # Gone, NEW o \in [action : {"move", "found"}, dest : Land],
         NEW status \in {"accepted", "rejected"}, NEW effect \in Capital!Effects(status),
         Capital!Sends(o, status, effect),
         plan'.completed # 0 => \E a \in acted : a.action = "found" /\ a.effect # "never" /\ a.site \in w.cities
  PROVE  Credited'
<1> DEFINE a == Given(o, status, effect)
<1>1. /\ acted' = acted \cup {a}
      /\ a.action = o.action /\ a.effect = effect /\ a.site = Capital!Target(o)
      /\ effect # "now" => w' = w
      /\ effect # "later" => due' = None
      /\ effect = "later" => due' = o
      /\ effect = "now" => IF o.action = "found" THEN w'.cities = w.cities \cup {w.at}
                                                 ELSE w'.cities = w.cities
  BY SendsAnOrder
<1> HIDE DEF a
<1>2. w.cities \subseteq w'.cities
  BY <1>1
<1>3. \A c : Raised(c) => RaisedBy(acted', c)
  BY <1>1 DEF Raised, RaisedBy
<1>4. o.action = "found" /\ effect # "never" => RaisedBy(acted', w.at)
  BY <1>1 DEF RaisedBy, Capital!Target
<1>5. \A c \in w'.cities : c = -1 \/ RaisedBy(acted', c)
  <2> TAKE c \in w'.cities
  <2>1. CASE c \in w.cities
    BY <1>3, <2>1 DEF Credited
  <2>2. CASE c \notin w.cities
    <3>1. effect = "now" /\ o.action = "found" /\ c = w.at
      BY <1>1, <2>2
    <3> QED BY <1>4, <3>1
  <2> QED BY <2>1, <2>2
<1>6. due' # None /\ w'.at # Gone => (due'.action = "found" => RaisedBy(acted', w'.at))
  <2> SUFFICES ASSUME due' # None, due'.action = "found" PROVE RaisedBy(acted', w'.at)
    OBVIOUS
  <2>1. effect = "later" /\ w' = w /\ o.action = "found"
    BY <1>1
  <2> QED BY <1>4, <2>1
<1>7. Capital!CreditIsEarned'
  BY <1>1, <1>2 DEF Capital!CreditIsEarned
<1> QED BY <1>5, <1>6, <1>7 DEF Credited, Raised

-----------------------------------------------------------------------------
(* What becomes of the orders of earlier passes when the plan observes. *)
LEMMA OldOrders ==
  ASSUME NEW a, Ends(a), Shunned(a), ~plan.failed, capitalTurn \in Nat \ {0},
         NEW p, PlanOk(p), p.disabled = plan.disabled, p.failedEdges = plan.failedEdges,
         Outstanding(a) => InBooks(p, a), NEW r, r = Capital!Observe(p, capitalTurn), ~r.failed
  PROVE  /\ a.action = "found" /\ a.status = "accepted" => r.disabled \/ InBooks(r, a)
         /\ a.action = "move" /\ a.effect = "never" =>
              \/ r.disabled \/ <<a.origin, a.site>> \in r.failedEdges
              \/ InBooks(r, a) /\ due = None /\ w.at \in {a.origin, Gone} /\ a.site # a.origin
<1>1. Follows(p, r)
  BY ObserveKeeps
<1>2. CASE r.disabled
  BY <1>2
<1>3. CASE ~r.disabled
  <2>1. ~p.disabled
    BY <1>1, <1>3 DEF Follows
  <2>2. ASSUME a.action = "found", a.status = "accepted"
        PROVE  InBooks(r, a)
    <3>1. InBooks(p, a)
      BY <2>1, <2>2 DEF Ends
    <3> QED BY <1>3, <2>2, <3>1, BooksStay
  <2>3. ASSUME a.action = "move", a.effect = "never", <<a.origin, a.site>> \notin plan.failedEdges
        PROVE  InBooks(r, a) /\ due = None /\ w.at \in {a.origin, Gone} /\ a.site # a.origin
    <3>1. InBooks(p, a) /\ due = None /\ w.at \in {a.origin, Gone} /\ a.site # a.origin
      BY <2>1, <2>3 DEF Shunned
    <3> QED BY <1>3, <3>1, BooksStay
  <2>4. p.failedEdges \subseteq r.failedEdges
    BY <1>1 DEF Follows
  <2> QED BY <2>2, <2>3, <2>4
<1> QED BY <1>2, <1>3

LEMMA CreditEarned ==
  ASSUME CapitalTypes, Credited, NEW p, PlanOk(p), p.completed = plan.completed,
         NEW r, Follows(p, r)
  PROVE  r.completed # 0 =>
           \E a \in acted : a.action = "found" /\ a.effect # "never" /\ a.site \in w.cities
<1>1. CASE r.completed = p.completed
  BY <1>1 DEF Credited, Capital!CreditIsEarned
<1>2. CASE r.completed # p.completed
  <2>1. p.mission # None /\ p.mission.site \in w.cities
    BY <1>2 DEF Follows
  <2>2. p.mission.site \in Land
    BY <2>1, PlanParts DEF PlanOk
  <2>3. p.mission.site # -1
    BY <2>2, CapitalAssumption
  <2>4. Raised(p.mission.site)
    BY <2>1, <2>3 DEF Credited
  <2> QED BY <2>1, <2>4 DEF Raised, RaisedBy
<1> QED BY <1>1, <1>2

(* A match that stops leaves nothing more to be done. *)
LEMMA StoppedKeeps ==
  ASSUME CapitalInv, stage' = "stopped", PlanOk(plan'), plan'.failed,
         plan'.pending # None => plan'.pending.turn <= capitalTurn,
         plan'.completed # 0 =>
           \E a \in acted : a.action = "found" /\ a.effect # "never" /\ a.site \in w.cities,
         order' \in Capital!Orders, sent' \in {None, "accepted", "rejected"},
         UNCHANGED <<capitalTurn, w, due, acted, idle>>
  PROVE  CapitalInv'
<1>1. CapitalTypes'
  BY DEF CapitalInv, CapitalTypes, PlanOk
<1>2. InTurn'
  BY DEF CapitalInv, InTurn, PlanOk
<1>3. Booked'
  BY DEF CapitalInv, Booked, Entered, Ends, Shunned, Capital!NothingTwice
<1>4. Credited'
  BY DEF CapitalInv, Credited, Raised, RaisedBy, Capital!CreditIsEarned
<1>5. Capital!NeverIdleUnasked'
  BY DEF CapitalInv, Capital!NeverIdleUnasked
<1> QED BY <1>1, <1>2, <1>3, <1>4, <1>5 DEF CapitalInv

(* The game goes on between two turns. *)
LEMMA WorldGoesOn ==
  ASSUME CapitalTypes, Credited, Capital!Begin
  PROVE  /\ w' \in WorldRow /\ w.cities \subseteq w'.cities
         /\ due = None => w'.at \in {w.at, Gone}
         /\ \A c \in w'.cities : c = -1 \/ Raised(c)
<1>1. PICK v \in {w} \cup (IF due = None \/ w.at = Gone THEN {} ELSE {Capital!CarriedOut(w, due)}),
           ill \in BOOLEAN, spent \in BOOLEAN, guarded \in Guards :
        \/ w' = [v EXCEPT !.healthy = ~ill, !.fresh = ~spent, !.guarded = guarded]
        \/ w' \in {[v EXCEPT !.at = Gone], [v EXCEPT !.cities = @ \cup {-1}]}
  BY Zenon DEF Capital!Begin
<1>2. w \in WorldRow /\ \A c \in w.cities : c = -1 \/ Raised(c)
  BY DEF CapitalTypes, Credited
<1>3. /\ v \in WorldRow /\ w.cities \subseteq v.cities
      /\ due = None => v.at = w.at
      /\ \A c \in v.cities : c = -1 \/ Raised(c)
  <2>1. CASE v = w
    BY <1>2, <2>1
  <2>2. CASE due # None /\ w.at # Gone /\ v = Capital!CarriedOut(w, due)
    <3>1. due.action \in {"move", "found"} /\ due.dest \in Land
      BY <2>2 DEF CapitalTypes
    <3>2. CASE due.action = "move"
      <4>1. v = [w EXCEPT !.at = due.dest, !.fresh = FALSE]
        BY <2>2, <3>2 DEF Capital!CarriedOut
      <4>2. v \in WorldRow /\ v.cities = w.cities
        BY <1>2, <3>1, <4>1 DEF WorldRow
      <4> QED BY <1>2, <2>2, <4>2
    <3>3. CASE due.action = "found"
      <4>1. v = [w EXCEPT !.cities = w.cities \cup {w.at}, !.at = Gone]
        BY <2>2, <3>3 DEF Capital!CarriedOut
      <4>2. v \in WorldRow /\ v.cities = w.cities \cup {w.at}
        BY <1>2, <2>2, <4>1 DEF WorldRow
      <4>3. Raised(w.at)
        BY <2>2, <3>3 DEF Credited
      <4> QED BY <1>2, <2>2, <4>2, <4>3
    <3> QED BY <3>1, <3>2, <3>3
  <2> QED BY <1>1, <2>1, <2>2
<1>4. CASE w' = [v EXCEPT !.healthy = ~ill, !.fresh = ~spent, !.guarded = guarded]
  <2>1. guarded \in SUBSET Land /\ (~ill) \in BOOLEAN /\ (~spent) \in BOOLEAN
    BY CapitalAssumption
  <2>2. w' \in WorldRow /\ w'.at = v.at /\ w'.cities = v.cities
    BY <1>3, <1>4, <2>1 DEF WorldRow
  <2> QED BY <1>3, <2>2
<1>5. CASE w' = [v EXCEPT !.at = Gone]
  <2>1. w' \in WorldRow /\ w'.at = Gone /\ w'.cities = v.cities
    BY <1>3, <1>5 DEF WorldRow
  <2> QED BY <1>3, <2>1
<1>6. CASE w' = [v EXCEPT !.cities = @ \cup {-1}]
  <2>1. w' \in WorldRow /\ w'.at = v.at /\ w'.cities = v.cities \cup {-1}
    BY <1>3, <1>6 DEF WorldRow
  <2> QED BY <1>3, <2>1
<1> QED BY <1>1, <1>4, <1>5, <1>6

LEMMA BeginKeeps ==
  ASSUME CapitalInv, Capital!Begin
  PROVE  CapitalInv'
<1>1. /\ stage = "begin" /\ stage' = "observe" /\ due' = None /\ sent' = None /\ order' = None
      /\ UNCHANGED <<capitalTurn, plan, acted, idle>>
  BY DEF Capital!Begin
<1>2. /\ w' \in WorldRow /\ w.cities \subseteq w'.cities
      /\ due = None => w'.at \in {w.at, Gone}
      /\ \A c \in w'.cities : c = -1 \/ Raised(c)
  BY WorldGoesOn DEF CapitalInv
<1>3. CapitalTypes'
  BY <1>1, <1>2 DEF CapitalInv, CapitalTypes, Capital!Orders
<1>4. InTurn'
  BY <1>1 DEF CapitalInv, InTurn
<1>5. Booked'
  <2>1. ASSUME NEW a \in acted PROVE Entered(a)' /\ Ends(a)' /\ Shunned(a)'
    <3>1. Entered(a) /\ Ends(a) /\ Shunned(a)
      BY DEF CapitalInv, Booked
    <3>2. Outstanding(a) => Outstanding(a)'
      BY <1>1 DEF Outstanding
    <3>3. Entered(a)' /\ Ends(a)'
      BY <1>1, <3>1, <3>2 DEF Entered, Ends
    <3>4. Shunned(a)'
      BY <1>1, <1>2, <3>1, <3>2 DEF Shunned
    <3> QED BY <3>3, <3>4
  <2>2. Capital!NothingTwice'
    BY <1>1 DEF CapitalInv, Booked, Capital!NothingTwice
  <2> QED BY <1>1, <2>1, <2>2 DEF Booked
<1>6. Credited'
  BY <1>1, <1>2 DEF CapitalInv, Credited, Raised, RaisedBy, Capital!CreditIsEarned
<1>7. Capital!NeverIdleUnasked'
  BY <1>1 DEF CapitalInv, Capital!NeverIdleUnasked
<1> QED BY <1>3, <1>4, <1>5, <1>6, <1>7 DEF CapitalInv

(* A look while the founder waits, a pass without it, the end of a turn. *)
LEMMA QuietSteps ==
  ASSUME CapitalInv, Capital!Reveal \/ Capital!NoDispatch \/ Capital!Close
  PROVE  CapitalInv'
<1>1. CASE Capital!Reveal \/ Capital!NoDispatch
  <2>1. /\ stage \in {"scout", "revealed"} /\ stage' \in {"revealed", "run"} /\ sent' = sent
        /\ UNCHANGED <<capitalTurn, plan, order, due, acted, idle>>
        /\ w' \in WorldRow /\ w'.cities = w.cities /\ w'.at = w.at
    <3>1. CASE Capital!Reveal
      <4>1. PICK sites \in Guards : w' = [w EXCEPT !.guarded = sites]
        BY <3>1 DEF Capital!Reveal
      <4>2. sites \in SUBSET Land /\ w \in WorldRow
        BY CapitalAssumption DEF CapitalInv, CapitalTypes
      <4>3. w' \in WorldRow /\ w'.cities = w.cities /\ w'.at = w.at
        BY <4>1, <4>2 DEF WorldRow
      <4> QED BY <3>1, <4>3 DEF Capital!Reveal
    <3>2. CASE Capital!NoDispatch
      BY <3>2 DEF Capital!NoDispatch, CapitalInv, CapitalTypes
    <3> QED BY <1>1, <3>1, <3>2
  <2>2. CapitalTypes'
    BY <2>1 DEF CapitalInv, CapitalTypes
  <2>3. InTurn'
    BY <2>1 DEF CapitalInv, InTurn, Capital!Explicit
  <2>4. Booked'
    BY <2>1 DEF CapitalInv, Booked, Entered, Ends, Shunned, Outstanding, Capital!NothingTwice
  <2>5. Credited'
    BY <2>1 DEF CapitalInv, Credited, Raised, RaisedBy, Capital!CreditIsEarned
  <2>6. Capital!NeverIdleUnasked'
    BY <2>1 DEF CapitalInv, Capital!NeverIdleUnasked
  <2> QED BY <2>2, <2>3, <2>4, <2>5, <2>6 DEF CapitalInv
<1>2. CASE Capital!Close
  <2>1. /\ stage = "close" /\ stage' = "begin" /\ capitalTurn' = capitalTurn + 1
        /\ UNCHANGED <<w, plan, order, sent, due, acted, idle>>
    BY <1>2 DEF Capital!Close
  <2>2. CapitalTypes'
    BY <2>1 DEF CapitalInv, CapitalTypes
  <2>3. InTurn'
    <3>1. capitalTurn \in Nat /\ \A a \in acted : a.turn \in Nat
      BY DEF CapitalInv, CapitalTypes, OrderSent
    <3>2. plan.pending # None => plan.pending.turn \in Nat
      BY PlanParts DEF CapitalInv, CapitalTypes
    <3> QED BY <2>1, <3>1, <3>2 DEF CapitalInv, InTurn
  <2>4. Booked'
    <3>1. ASSUME NEW a \in acted PROVE Entered(a)' /\ Ends(a)' /\ Shunned(a)'
      <4>1. Entered(a) /\ Ends(a) /\ Shunned(a)
        BY DEF CapitalInv, Booked
      <4>2. Outstanding(a) => Outstanding(a)'
        BY <2>1 DEF Outstanding
      <4> QED BY <2>1, <4>1, <4>2 DEF Entered, Ends, Shunned
    <3>2. Capital!NothingTwice'
      BY <2>1 DEF CapitalInv, Booked, Capital!NothingTwice
    <3> QED BY <2>1, <3>1, <3>2 DEF Booked
  <2>5. Credited'
    BY <2>1 DEF CapitalInv, Credited, Raised, RaisedBy, Capital!CreditIsEarned
  <2>6. Capital!NeverIdleUnasked'
    BY <2>1 DEF CapitalInv, Capital!NeverIdleUnasked
  <2> QED BY <2>2, <2>3, <2>4, <2>5, <2>6 DEF CapitalInv
<1> QED BY <1>1, <1>2

(* The model decides, after the plan has observed. *)
LEMMA DecideKeeps ==
  ASSUME CapitalInv, NEW o \in Capital!Orders, Capital!Decide(o)
  PROVE  CapitalInv'
<1> DEFINE p == Capital!Observe(plan, capitalTurn)
           k == Capital!Kept(o)
<1>1. /\ stage = "observe" /\ due = None /\ sent = None /\ ~plan.failed
      /\ stage' = (IF plan'.failed THEN "stopped" ELSE "scout")
      /\ UNCHANGED <<capitalTurn, w, sent, due, acted, idle>>
      /\ capitalTurn \in Nat \ {0} /\ w \in WorldRow /\ PlanOk(plan)
  BY DEF Capital!Decide, Capital!Goes, Capital!Stops, CapitalInv, CapitalTypes, InTurn, PlanOk
<1>2. /\ o = None => ~p.resolution \/ p.disabled \/ p.failed
      /\ IF p.failed THEN plan' = p
         ELSE ~Capital!Refused(p, o) /\ plan' = Capital!Prepared(p, o, capitalTurn)
      /\ order' = IF p.disabled THEN None ELSE k
  BY DEF Capital!Decide
<1>3. Follows(plan, p)
  BY <1>1, ObserveKeeps
<1>4. order' \in Capital!Orders
  <2>1. k \in Capital!Orders
    BY OrdersAre DEF Capital!Orders
  <2> QED BY <1>2, <2>1 DEF Capital!Orders
<1>5. p.completed # 0 =>
        \E a \in acted : a.action = "found" /\ a.effect # "never" /\ a.site \in w.cities
  BY <1>1, <1>3, CreditEarned DEF CapitalInv
<1>6. plan.pending # None => plan.pending.turn < capitalTurn /\ plan.pending.status # "due"
                             /\ plan.pending.turn \in Nat
  BY <1>1, PlanParts DEF CapitalInv, InTurn, PlanOk
<1>7. p.pending # None => p.pending.turn < capitalTurn /\ p.pending.turn \in Nat
                          /\ p.pending.status # "due"
  BY <1>3, <1>6 DEF Follows
<1>8. PlanOk(p) /\ p \in PlanRow /\ p.failed \in BOOLEAN /\ p.disabled \in BOOLEAN
  BY <1>3, PlanParts DEF Follows, PlanOk
<1> HIDE DEF p, k
<1>9. CASE p.failed
  <2>1. stage' = "stopped" /\ plan' = p
    BY <1>1, <1>2, <1>9
  <2>2. p.pending # None => p.pending.turn <= capitalTurn
    BY <1>1, <1>7
  <2>3. sent' \in {None, "accepted", "rejected"}
    BY <1>1
  <2> QED BY <1>1, <1>4, <1>5, <1>8, <1>9, <2>1, <2>2, <2>3, StoppedKeeps
<1>10. CASE ~p.failed
  <2>1. Plans(p, k, capitalTurn, plan')
    BY <1>1, <1>2, <1>8, <1>10, PreparedBooks DEF k
  <2>2. /\ stage' = "scout" /\ PlanOk(plan') /\ ~plan'.failed /\ plan'.disabled = p.disabled
        /\ plan'.failedEdges = p.failedEdges /\ plan'.foundSites = plan.foundSites
        /\ plan'.completed = p.completed
    BY <1>1, <1>3, <1>10, <2>1 DEF Plans, Base, Follows
  <2>3. CapitalTypes'
    BY <1>1, <1>4, <2>2 DEF CapitalInv, CapitalTypes, PlanOk
  <2>4. p.disabled => plan' = p /\ order' = None
    BY <1>2, <2>1 DEF Plans
  <2>5. ~p.disabled =>
          /\ w.at # Gone /\ plan'.mission # None /\ order' = k
          /\ \/ plan' = p /\ k = None
             \/ plan'.pending = None /\ (k = None \/ k = Capital!Hold)
             \/ /\ k # None /\ k # Capital!Hold /\ plan'.pending # None /\ plan'.pending.status = "due"
                /\ plan'.pending.action = k.action /\ plan'.pending.turn = capitalTurn
    BY <1>2, <1>10, <2>1 DEF Plans
  <2>6. plan'.pending # None => plan'.pending.turn <= capitalTurn
    BY <1>1, <1>7, <2>4, <2>5, <1>8
  <2>7. ~p.disabled /\ p.pending # None => p.resolution
    <3> SUFFICES ASSUME ~p.disabled, p.pending # None PROVE p.resolution
      OBVIOUS
    <3>1. plan.pending # None
      BY <1>3 DEF Follows
    <3>2. plan.pending.status \in {"due", "accepted", "rejected"}
      BY <1>1, <3>1, PlanParts DEF PlanOk
    <3>3. Heard(plan.pending, capitalTurn)
      BY <1>1, <1>6, <3>1, <3>2 DEF Heard
    <3> QED BY <1>1, <1>10, <3>1, <3>3, ObserveGoesOn DEF p, GoesOn
  <2>8. ~p.disabled /\ plan'.pending # None => plan'.pending.status = "due" \/ plan'.resolution
    BY <2>5, <2>7
  <2>9. InTurn'
    <3>1. \A a \in acted : a.turn < capitalTurn
      BY <1>1 DEF CapitalInv, InTurn
    <3>2. \A a \in acted : a.turn <= capitalTurn
      BY DEF CapitalInv, InTurn
    <3>3. Capital!Explicit' => order' # None /\ order' # Capital!Hold
      BY DEF Capital!Explicit, Capital!Hold
    <3>4. ~plan'.disabled /\ Capital!Explicit' =>
            /\ plan'.pending # None /\ plan'.pending.status = "due"
            /\ plan'.pending.action = order'.action /\ plan'.pending.turn = capitalTurn
      BY <2>2, <2>5, <3>3
    <3>5. plan'.pending # None => plan'.mission # None
      BY <2>2 DEF PlanOk
    <3>6. ~plan'.disabled => plan'.mission # None
      BY <2>2, <2>5
    <3> QED BY <1>1, <2>2, <2>6, <2>8, <3>1, <3>2, <3>4, <3>5, <3>6 DEF InTurn
  <2>10. Booked'
    <3>1. ASSUME NEW a \in acted PROVE Entered(a)' /\ Ends(a)' /\ Shunned(a)'
      <4>1. Entered(a) /\ Ends(a) /\ Shunned(a)
        BY DEF CapitalInv, Booked
      <4>2. Outstanding(a) => InBooks(plan, a)
        BY <1>1 DEF Outstanding, InBooks
      <4>3. /\ a.action = "found" /\ a.status = "accepted" => p.disabled \/ InBooks(p, a)
            /\ a.action = "move" /\ a.effect = "never" =>
                 \/ p.disabled \/ <<a.origin, a.site>> \in p.failedEdges
                 \/ InBooks(p, a) /\ due = None /\ w.at \in {a.origin, Gone} /\ a.site # a.origin
        BY <1>1, <1>10, <4>1, <4>2, OldOrders DEF p
      <4>4. Entered(a)'
        BY <1>1, <2>2, <4>1 DEF Entered
      <4>5. InBooks(p, a) /\ ~p.disabled /\ a.action = "found" => a.status # "accepted"
        <5> SUFFICES ASSUME InBooks(p, a), ~p.disabled, a.action = "found", a.status = "accepted"
                     PROVE  FALSE
          OBVIOUS
        <5>1. /\ plan.pending # None /\ plan.pending.action = "found"
              /\ plan.pending.status = "accepted" /\ capitalTurn > plan.pending.turn
          <6>1. plan.pending # None /\ plan.pending.action = "found" /\ plan.pending.status = "accepted"
            BY <1>3 DEF InBooks, Follows
          <6> QED BY <1>1, <1>6, <6>1
        <5> QED BY <1>1, <1>10, <5>1, ObserveGoesOn DEF p, GoesOn
      <4>6. Ends(a)'
        BY <2>2, <4>3, <4>5 DEF Ends
      <4>7. InBooks(p, a) /\ ~p.disabled /\ a.action = "move" /\ w.at \in {a.origin, Gone}
              /\ a.site # a.origin => <<a.origin, a.site>> \in p.failedEdges
        <5> SUFFICES ASSUME InBooks(p, a), ~p.disabled, a.action = "move",
                            w.at \in {a.origin, Gone}, a.site # a.origin
                     PROVE  <<a.origin, a.site>> \in p.failedEdges
          OBVIOUS
        <5>1. /\ plan.pending # None /\ plan.pending.action = "move" /\ plan.mission # None
              /\ plan.pending.origin = a.origin /\ plan.mission.site = a.site
          BY <1>1, <1>3 DEF InBooks, Follows, PlanOk
        <5>2. Heard(plan.pending, capitalTurn)
          <6>1. plan.pending.status \in {"due", "accepted", "rejected"}
            BY <1>1, <5>1, PlanParts DEF PlanOk
          <6> QED BY <1>1, <1>6, <5>1, <6>1 DEF Heard
        <5>3. w.at # Gone
          BY <1>1, <1>10, ObserveGoesOn DEF p, GoesOn
        <5>4. w.at # plan.mission.site
          BY <5>1, <5>3
        <5> QED BY <1>1, <1>10, <5>1, <5>2, <5>4, ObserveGoesOn DEF p, GoesOn
      <4>8. Shunned(a)'
        BY <2>2, <4>3, <4>7 DEF Shunned
      <4> QED BY <4>4, <4>6, <4>8
    <3>2. Capital!NothingTwice'
      BY <1>1 DEF CapitalInv, Booked, Capital!NothingTwice
    <3> QED BY <1>1, <3>1, <3>2 DEF Booked
  <2>11. Credited'
    BY <1>1, <1>5, <2>2 DEF CapitalInv, Credited, Raised, RaisedBy, Capital!CreditIsEarned
  <2>12. Capital!NeverIdleUnasked'
    BY <1>1, <2>2 DEF CapitalInv, Capital!NeverIdleUnasked
  <2> QED BY <2>3, <2>9, <2>10, <2>11, <2>12 DEF CapitalInv
<1> QED BY <1>8, <1>9, <1>10

(* The order goes to the game, if it still may. *)
LEMMA NewOrder ==
  ASSUME Capital!NothingTwice, NEW a, acted' = acted \cup {a},
         \A b \in acted : b.turn <= a.turn,
         a.turn \in Nat, \A b \in acted : b.turn \in Nat,
         \A b \in acted : b.action = "found" /\ a.action = "found" => a.site # b.site,
         \A b \in acted : ~(b.action = "found" /\ b.status = "accepted"),
         \A b \in acted : b.action = "move" /\ b.effect = "never" /\ a.action = "move" =>
                            <<b.origin, b.site>> # <<a.origin, a.site>>
  PROVE  Capital!NothingTwice'
<1> SUFFICES ASSUME NEW x \in acted', NEW y \in acted', x # y
             PROVE  /\ x.action = "found" /\ y.action = "found" => x.site # y.site
                    /\ x.action = "found" /\ x.status = "accepted" => y.turn <= x.turn
                    /\ x.action = "move" /\ y.action = "move" /\ x.effect = "never" /\ x.turn < y.turn
                         => <<x.origin, x.site>> # <<y.origin, y.site>>
  BY DEF Capital!NothingTwice
<1>1. CASE x \in acted /\ y \in acted
  BY <1>1 DEF Capital!NothingTwice
<1>2. CASE x = a /\ y \in acted
  BY <1>2
<1>3. CASE x \in acted /\ y = a
  BY <1>3
<1> QED BY <1>1, <1>2, <1>3

LEMMA DispatchKeeps ==
  ASSUME CapitalInv, NEW status \in {"accepted", "rejected"}, NEW effect \in {"now", "later", "never"},
         Capital!Dispatch(status, effect)
  PROVE  CapitalInv'
<1>1. /\ stage \in {"scout", "revealed"} /\ Capital!Explicit /\ ~plan.disabled /\ ~plan.failed
      /\ effect \in Capital!Effects(status)
      /\ UNCHANGED <<capitalTurn, order, idle>>
      /\ capitalTurn \in Nat \ {0} /\ w \in WorldRow /\ PlanOk(plan) /\ order \in Capital!Orders
      /\ sent = None
  BY DEF Capital!Dispatch, CapitalInv, CapitalTypes, InTurn, PlanOk
<1>2. /\ order # None /\ order # Capital!Hold
      /\ order \in [action : {"move", "found"}, dest : Land]
  BY <1>1 DEF Capital!Explicit, Capital!Orders, Capital!Action
<1>3. /\ plan.pending # None /\ plan.pending.status = "due"
      /\ plan.pending.action = order.action /\ plan.pending.turn = capitalTurn
  BY <1>1 DEF CapitalInv, InTurn
<1>4. CASE Capital!DispatchError(plan, order)
  <2>1. /\ plan' = [plan EXCEPT !.failed = TRUE] /\ stage' = "stopped"
        /\ UNCHANGED <<w, due, acted, sent>>
    BY <1>4 DEF Capital!Dispatch
  <2>2. /\ plan' \in PlanRow /\ plan'.mission = plan.mission /\ plan'.pending = plan.pending
        /\ plan'.failed = TRUE /\ plan'.completed = plan.completed
    <3>1. plan \in PlanRow
      BY <1>1 DEF PlanOk
    <3> QED BY <2>1, <3>1 DEF PlanRow
  <2>3. PlanOk(plan') /\ (plan'.pending # None => plan'.pending.turn <= capitalTurn)
    BY <1>1, <1>3, <2>2 DEF PlanOk
  <2>4. plan'.completed # 0 =>
          \E a \in acted : a.action = "found" /\ a.effect # "never" /\ a.site \in w.cities
    BY <2>2 DEF CapitalInv, Credited, Capital!CreditIsEarned
  <2>5. order' \in Capital!Orders /\ sent' \in {None, "accepted", "rejected"}
    BY <1>1, <2>1
  <2> QED BY <1>1, <2>1, <2>2, <2>3, <2>4, <2>5, StoppedKeeps
<1>5. CASE ~Capital!DispatchError(plan, order)
  <2>0. PICK new : new = Given(order, status, effect)
    OBVIOUS
  <2>1. /\ Capital!Sends(order, status, effect) /\ sent' = status /\ stage' = "run"
        /\ plan' = plan
    BY <1>5 DEF Capital!Dispatch
  <2>2. /\ w.at = plan.pending.origin /\ Capital!Target(order) = plan.mission.site
        /\ ~Capital!Refused(plan, order)
    BY <1>5 DEF Capital!DispatchError
  <2>3. /\ w.at # Gone
        /\ order.action = "move" =>
             Capital!Beside(w.at, order.dest) /\ <<w.at, order.dest>> \notin plan.failedEdges
        /\ order.action = "found" => w.at \notin plan.foundSites
    BY <1>1, <1>2, <2>2 DEF Capital!Refused
  <2>4. /\ acted' = acted \cup {new} /\ new \in OrderSent
        /\ new.turn = capitalTurn /\ new.action = order.action /\ new.status = status
        /\ new.effect = effect /\ new.origin = w.at /\ new.site = Capital!Target(order)
        /\ w' \in WorldRow /\ due' \in {None} \cup [action : {"move", "found"}, dest : Land]
        /\ effect # "now" => w' = w
        /\ effect # "later" => due' = None
    BY <1>1, <1>2, <2>0, <2>1, <2>3, SendsAnOrder DEF CapitalInv
  <2>5. CapitalTypes'
    BY <1>1, <2>1, <2>4 DEF CapitalInv, CapitalTypes
  <2>6. InTurn'
    <3>1. \A a \in acted' : a.turn <= capitalTurn
      BY <1>1, <2>4 DEF CapitalInv, InTurn
    <3>2. \E a \in acted' : a.turn = capitalTurn
      BY <2>4
    <3> QED BY <1>1, <1>3, <2>1, <3>1, <3>2 DEF CapitalInv, InTurn
  <2>7. \A a \in acted : Entered(a) /\ Ends(a) /\ Shunned(a) /\ ~Outstanding(a)
    <3>1. \A a \in acted : ~Outstanding(a)
      BY <1>1, <1>3 DEF Outstanding
    <3> QED BY <3>1 DEF CapitalInv, Booked
  <2>8. \A a \in acted : /\ a.action = "found" => a.site \in plan.foundSites
                         /\ ~(a.action = "found" /\ a.status = "accepted")
                         /\ a.action = "move" /\ a.effect = "never" =>
                              <<a.origin, a.site>> \in plan.failedEdges
    BY <1>1, <2>7 DEF Entered, Ends, Shunned
  <2>9. new.action = "move" => new.site # new.origin
    <3>1. order.action = "move" => order.dest # w.at
      <4> SUFFICES ASSUME order.action = "move", order.dest = w.at PROVE FALSE
        OBVIOUS
      <4>1. w.at \in Int
        BY <1>2, CapitalAssumption
      <4> QED BY <2>3, <4>1 DEF Capital!Beside
    <3> QED BY <2>4, <3>1 DEF Capital!Target
  <2>10. Outstanding(new)'
    BY <1>1, <1>3, <2>1, <2>2, <2>4 DEF Outstanding
  <2>11. ASSUME NEW a \in acted' PROVE Entered(a)' /\ Ends(a)' /\ Shunned(a)'
    <3>1. CASE a \in acted
      BY <2>1, <2>8, <3>1 DEF Entered, Ends, Shunned
    <3>2. CASE a = new
      <4>1. status # None
        BY CapitalAssumption
      <4>2. Entered(a)'
        BY <1>3, <2>1, <2>10, <3>2, <4>1 DEF Entered
      <4>3. Ends(a)'
        BY <2>10, <3>2 DEF Ends
      <4>4. ASSUME new.action = "move", new.effect = "never"
            PROVE  due' = None /\ w'.at \in {new.origin, Gone} /\ new.site # new.origin
        BY <2>4, <2>9, <4>4
      <4>5. Shunned(a)'
        BY <2>10, <3>2, <4>4 DEF Shunned
      <4> QED BY <4>2, <4>3, <4>5
    <3> QED BY <2>4, <3>1, <3>2
  <2>12. Capital!NothingTwice'
    <3>1. \A b \in acted : b.turn <= new.turn /\ b.turn \in Nat
      BY <2>4 DEF CapitalInv, InTurn, CapitalTypes, OrderSent
    <3>2. \A b \in acted : b.action = "found" /\ new.action = "found" => new.site # b.site
      BY <2>3, <2>4, <2>8 DEF Capital!Target
    <3>3. \A b \in acted : b.action = "move" /\ b.effect = "never" /\ new.action = "move" =>
                             <<b.origin, b.site>> # <<new.origin, new.site>>
      BY <2>3, <2>4, <2>8 DEF Capital!Target
    <3>4. new.turn \in Nat
      BY <1>1, <2>4
    <3>5. Capital!NothingTwice
      BY DEF CapitalInv, Booked
    <3>6. acted' = acted \cup {new} /\ \A b \in acted : ~(b.action = "found" /\ b.status = "accepted")
      BY <2>4, <2>8
    <3> QED BY <3>1, <3>2, <3>3, <3>4, <3>5, <3>6, NewOrder
  <2>13. Booked'
    BY <2>11, <2>12 DEF Booked
  <2>14. Credited'
    <3>1. plan'.completed # 0 =>
            \E a \in acted : a.action = "found" /\ a.effect # "never" /\ a.site \in w.cities
      BY <2>1 DEF CapitalInv, Credited, Capital!CreditIsEarned
    <3> QED BY <1>1, <1>2, <2>1, <2>3, <3>1, CreditStands DEF CapitalInv
  <2>15. Capital!NeverIdleUnasked'
    BY <1>1, <2>1 DEF CapitalInv, Capital!NeverIdleUnasked
  <2> QED BY <2>5, <2>6, <2>13, <2>14, <2>15 DEF CapitalInv
<1> QED BY <1>4, <1>5

(* The plan runs, without an order of its own: it waits, or it has come to   *)
(* the end of what it may do.                                                *)
LEMMA CouldFound ==
  ASSUME NEW p, Capital!MustFound(p)
  PROVE  ~p.disabled /\ ~p.failed /\ p.mission # None /\ p.pending = None
BY DEF Capital!MustFound

LEMMA ReceivedOrders ==
  ASSUME CapitalInv, stage = "run", NEW p, Receipt(plan, p), ~p.failed, NEW a \in acted
  PROVE  /\ a.action = "found" => a.site \in p.foundSites
         /\ Outstanding(a) => InBooks(p, a)
<1>1. Entered(a)
  BY DEF CapitalInv, Booked
<1>2. Outstanding(a) => InBooks(p, a)
  <2> SUFFICES ASSUME Outstanding(a) PROVE InBooks(p, a)
    OBVIOUS
  <2>1. /\ plan.pending # None /\ plan.pending.action = a.action /\ plan.pending.turn = a.turn
        /\ plan.pending.origin = a.origin /\ plan.mission.site = a.site
        /\ \/ plan.pending.status = a.status
           \/ plan.pending.status = "due" /\ sent = a.status
    BY DEF Outstanding
  <2>2. a.status \in {"accepted", "rejected"} /\ a.status # None
    BY CapitalAssumption DEF CapitalInv, CapitalTypes, OrderSent
  <2> QED BY <2>1, <2>2 DEF Receipt, InBooks
<1>3. ASSUME a.action = "found" PROVE a.site \in p.foundSites
  <2>1. CASE a.site \in plan.foundSites
    BY <2>1 DEF Receipt
  <2>2. CASE sent # None /\ plan.pending.status = "due" /\ Outstanding(a)
    BY <1>3, <2>2 DEF Receipt, Outstanding
  <2> QED BY <1>1, <1>3, <2>1, <2>2 DEF Entered
<1> QED BY <1>2, <1>3

(* A step of run or of the look after it, as long as the plan goes on. *)
LEMMA PlanPlaysOn ==
  ASSUME CapitalInv, stage' = "close", PlanOk(plan'), ~plan'.failed,
         plan'.pending # None => plan'.pending.turn <= capitalTurn /\ plan'.pending.status # "due",
         plan'.completed # 0 =>
           \E a \in acted : a.action = "found" /\ a.effect # "never" /\ a.site \in w.cities,
         ~plan'.disabled => capitalTurn - plan'.started < MaxPlanTurns,
         \A i \in idle' : i.asks,
         \A a \in acted :
           /\ a.action = "found" => a.site \in plan'.foundSites
           /\ a.action = "found" /\ a.status = "accepted" => plan'.disabled \/ InBooks(plan', a)
           /\ a.action = "move" /\ a.effect = "never" =>
                \/ plan'.disabled \/ <<a.origin, a.site>> \in plan'.failedEdges
                \/ InBooks(plan', a) /\ due = None /\ w.at \in {a.origin, Gone} /\ a.site # a.origin,
         UNCHANGED <<capitalTurn, w, order, sent, due, acted>>
  PROVE  CapitalInv'
<1>1. CapitalTypes'
  BY DEF CapitalInv, CapitalTypes, PlanOk
<1>2. InTurn'
  BY DEF CapitalInv, InTurn, PlanOk
<1>3. Booked'
  <2>1. ASSUME NEW a \in acted PROVE Entered(a)' /\ Ends(a)' /\ Shunned(a)'
    <3>1. InBooks(plan', a) => Outstanding(a)'
      BY DEF InBooks, Outstanding
    <3> QED BY <3>1 DEF Entered, Ends, Shunned
  <2>2. Capital!NothingTwice'
    BY DEF CapitalInv, Booked, Capital!NothingTwice
  <2> QED BY <2>1, <2>2 DEF Booked
<1>4. Credited'
  BY DEF CapitalInv, Credited, Raised, RaisedBy, Capital!CreditIsEarned
<1>5. Capital!NeverIdleUnasked'
  BY DEF Capital!NeverIdleUnasked
<1> QED BY <1>1, <1>2, <1>3, <1>4, <1>5 DEF CapitalInv

LEMMA RunKeeps ==
  ASSUME CapitalInv, Capital!Run
  PROVE  CapitalInv'
<1> DEFINE p0 == Capital!Received(plan)
           p == Capital!Observe(p0, capitalTurn)
           q == IF Capital!MustFound(p) THEN Capital!Waits(p) ELSE p
<1>1. /\ stage = "run" /\ ~plan.failed
      /\ UNCHANGED <<capitalTurn, w, order, sent, due, acted>>
      /\ capitalTurn \in Nat \ {0} /\ w \in WorldRow /\ PlanOk(plan)
      /\ sent \in {None, "accepted", "rejected"} /\ order \in Capital!Orders
  BY DEF Capital!Run, CapitalInv, CapitalTypes, InTurn, PlanOk
<1>2. /\ plan' = q /\ stage' = (IF q.failed THEN "stopped" ELSE "close")
      /\ idle' = IF Capital!Idle(q) /\ ~q.failed
                 THEN idle \cup {[turn |-> capitalTurn, asks |-> q.resolution]} ELSE idle
  BY Zenon DEF Capital!Run, Capital!Goes, Capital!Stops
<1>3. Receipt(plan, p0)
  BY <1>1, ReceivedBooks
<1>4. Follows(p0, p)
  <2>1. PlanOk(p0)
    BY <1>3 DEF Receipt
  <2> QED BY <1>1, <2>1, ObserveKeeps
<1>5. /\ PlanOk(p0) /\ PlanOk(p) /\ p0 \in PlanRow /\ p \in PlanRow
      /\ p.failed \in BOOLEAN /\ p.disabled \in BOOLEAN
  BY <1>3, <1>4, PlanParts DEF Receipt, Follows, PlanOk
<1>6. p.completed # 0 =>
        \E a \in acted : a.action = "found" /\ a.effect # "never" /\ a.site \in w.cities
  <2>1. p0.completed = plan.completed
    BY <1>3 DEF Receipt
  <2> QED BY <1>4, <1>5, <2>1, CreditEarned DEF CapitalInv
<1>7. plan.pending # None => plan.pending.turn <= capitalTurn
  BY DEF CapitalInv, InTurn
<1>8. p.pending # None => /\ p0.pending # None /\ plan.pending # None
                          /\ p.pending.turn <= capitalTurn /\ p.pending.status = p0.pending.status
  BY <1>3, <1>4, <1>7 DEF Receipt, Follows
<1>9. \/ Capital!MustFound(p) /\ Waiting(p, q)
      \/ q = p /\ ~Capital!MustFound(p)
  <2> HIDE DEF p
  <2>1. CASE Capital!MustFound(p)
    BY <1>1, <1>5, <2>1, WaitsBooks
  <2> QED BY <2>1
<1> HIDE DEF p0, p, q
<1>10. /\ PlanOk(q) /\ q.mission = p.mission /\ q.pending = p.pending /\ q.disabled = p.disabled
       /\ q.failedEdges = p.failedEdges /\ q.foundSites = p.foundSites
       /\ q.resolution = p.resolution /\ q.completed = p.completed /\ q.started = p.started
       /\ ~q.failed => ~p.failed
  BY <1>5, <1>9, CouldFound DEF Waiting
<1>11. CASE q.failed
  <2>1. stage' = "stopped" /\ plan' = q /\ idle' = idle
    BY <1>2, <1>11
  <2>2. q.pending # None => q.pending.turn <= capitalTurn
    BY <1>8, <1>10
  <2>3. order' \in Capital!Orders /\ sent' \in {None, "accepted", "rejected"}
    BY <1>1
  <2> QED BY <1>1, <1>6, <1>10, <1>11, <2>1, <2>2, <2>3, StoppedKeeps
<1>12. CASE ~q.failed
  <2>1. stage' = "close" /\ plan' = q /\ ~p.failed
    BY <1>2, <1>10, <1>12
  <2>2. ~p0.failed
    BY <1>4, <2>1 DEF Follows
  <2>3. p0.disabled = plan.disabled /\ p0.failedEdges = plan.failedEdges
    BY <1>3 DEF Receipt
  <2>4. ASSUME NEW a \in acted
        PROVE  /\ a.action = "found" => a.site \in plan'.foundSites
               /\ a.action = "found" /\ a.status = "accepted" => plan'.disabled \/ InBooks(plan', a)
               /\ a.action = "move" /\ a.effect = "never" =>
                    \/ plan'.disabled \/ <<a.origin, a.site>> \in plan'.failedEdges
                    \/ InBooks(plan', a) /\ due = None /\ w.at \in {a.origin, Gone} /\ a.site # a.origin
    <3>1. /\ a.action = "found" => a.site \in p0.foundSites
          /\ Outstanding(a) => InBooks(p0, a)
      BY <1>1, <1>3, <2>2, ReceivedOrders
    <3>2. Ends(a) /\ Shunned(a)
      BY DEF CapitalInv, Booked
    <3>3. /\ a.action = "found" /\ a.status = "accepted" => p.disabled \/ InBooks(p, a)
          /\ a.action = "move" /\ a.effect = "never" =>
               \/ p.disabled \/ <<a.origin, a.site>> \in p.failedEdges
               \/ InBooks(p, a) /\ due = None /\ w.at \in {a.origin, Gone} /\ a.site # a.origin
      BY <1>1, <1>5, <2>1, <2>3, <3>1, <3>2, OldOrders DEF p
    <3>4. p.foundSites = p0.foundSites
      BY <1>4 DEF Follows
    <3>5. InBooks(p, a) => InBooks(q, a)
      BY <1>10 DEF InBooks
    <3> QED BY <1>10, <2>1, <3>1, <3>3, <3>4, <3>5
  <2>5. p.pending # None => p.pending.status # "due"
    <3> SUFFICES ASSUME p.pending # None, p0.pending.status = "due" PROVE FALSE
      BY <1>8
    <3>1. p0.pending # None /\ plan.pending # None
      BY <1>8
    <3> QED BY <1>1, <1>3, <2>2, <3>1, CapitalAssumption DEF Receipt
  <2>6. ~p.disabled => capitalTurn - p.started < MaxPlanTurns
    BY <1>1, <1>5, <2>1, ObserveGoesOn DEF p, GoesOn
  <2>7. Capital!Idle(q) => q.resolution = TRUE
    <3> SUFFICES ASSUME Capital!Idle(q) PROVE q.resolution = TRUE
      OBVIOUS
    <3>1. /\ ~q.disabled /\ q.lastHold # capitalTurn /\ (\A a \in acted : a.turn # capitalTurn)
          /\ q.mission # None => q.mission.arrived # capitalTurn
      BY DEF Capital!Idle
    <3>2. ~p.disabled /\ ~p0.disabled /\ ~plan.disabled
      <4>1. ~p.disabled
        BY <1>10, <3>1
      <4>2. ~p0.disabled
        BY <1>4, <4>1 DEF Follows
      <4> QED BY <2>3, <4>1, <4>2
    <3>3. p.mission # None
      <4>1. plan.mission # None
        BY <1>1, <3>2 DEF CapitalInv, InTurn
      <4> QED BY <1>3, <1>4, <4>1 DEF Receipt, Follows
    <3>4. ~Capital!MustFound(p)
      <4> SUFFICES ASSUME Capital!MustFound(p) PROVE FALSE
        OBVIOUS
      <4>1. q.failed \/ q.lastHold = capitalTurn \/ p.mission.arrived = capitalTurn
        BY <1>9 DEF Waiting
      <4> QED BY <1>10, <1>12, <3>1, <3>3, <4>1
    <3>5. p.pending # None
      BY <2>1, <3>2, <3>3, <3>4 DEF Capital!MustFound
    <3>6. plan.pending # None /\ p0.pending # None
      BY <1>8, <3>5
    <3>7. CASE plan.pending.status = "due"
      <4>1. sent # None
        BY <1>3, <2>2, <3>6, <3>7 DEF Receipt
      <4>2. \E a \in acted : a.turn = capitalTurn
        BY <1>1, <4>1 DEF CapitalInv, InTurn
      <4> QED BY <3>1, <4>2
    <3>8. CASE plan.pending.status # "due"
      <4>1. plan.resolution
        BY <1>1, <3>2, <3>6, <3>8 DEF CapitalInv, InTurn
      <4>2. p.resolution
        BY <1>3, <1>4, <4>1 DEF Receipt, Follows
      <4>3. p.resolution \in BOOLEAN
        BY <1>5, PlanParts
      <4> QED BY <1>10, <4>2, <4>3
    <3> QED BY <3>7, <3>8
  <2>8. \A i \in idle' : i.asks
    <3>1. \A i \in idle : i.asks
      BY DEF CapitalInv, Capital!NeverIdleUnasked
    <3>2. CASE Capital!Idle(q)
      <4>1. idle' = idle \cup {[turn |-> capitalTurn, asks |-> TRUE]}
        BY <1>2, <1>12, <2>7, <3>2
      <4> QED BY <3>1, <4>1
    <3>3. CASE ~Capital!Idle(q)
      <4>1. idle' = idle
        BY <1>2, <3>3
      <4> QED BY <3>1, <4>1
    <3> QED BY <3>2, <3>3
  <2>9. plan'.pending # None => plan'.pending.turn <= capitalTurn /\ plan'.pending.status # "due"
    BY <1>8, <1>10, <2>1, <2>5
  <2>10. /\ PlanOk(plan') /\ ~plan'.failed
         /\ ~plan'.disabled => capitalTurn - plan'.started < MaxPlanTurns
         /\ plan'.completed # 0 =>
              \E a \in acted : a.action = "found" /\ a.effect # "never" /\ a.site \in w.cities
    BY <1>6, <1>10, <1>12, <2>1, <2>6
  <2> QED BY <1>1, <2>1, <2>4, <2>8, <2>9, <2>10, PlanPlaysOn
<1> QED BY <1>11, <1>12

LEMMA ObservedKeeps ==
  ASSUME CapitalInv, Capital!Observed
  PROVE  CapitalInv'
<1> DEFINE p == Capital!Observe(plan, capitalTurn)
<1>1. /\ stage = "founded" /\ ~plan.failed
      /\ plan' = p /\ stage' = (IF p.failed THEN "stopped" ELSE "close")
      /\ UNCHANGED <<capitalTurn, w, order, sent, due, acted, idle>>
      /\ capitalTurn \in Nat \ {0} /\ w \in WorldRow /\ PlanOk(plan)
      /\ sent \in {None, "accepted", "rejected"} /\ order \in Capital!Orders
  BY DEF Capital!Observed, Capital!Goes, Capital!Stops, CapitalInv, CapitalTypes, InTurn, PlanOk
<1>2. Follows(plan, p)
  BY <1>1, ObserveKeeps
<1>3. PlanOk(p) /\ p \in PlanRow /\ p.failed \in BOOLEAN
  BY <1>2, PlanParts DEF Follows, PlanOk
<1>4. p.completed # 0 =>
        \E a \in acted : a.action = "found" /\ a.effect # "never" /\ a.site \in w.cities
  BY <1>1, <1>2, CreditEarned DEF CapitalInv
<1>5. plan.pending # None => plan.pending.turn <= capitalTurn /\ plan.pending.status # "due"
  BY <1>1 DEF CapitalInv, InTurn
<1>6. p.pending # None => p.pending.turn <= capitalTurn /\ p.pending.status # "due"
  BY <1>2, <1>5 DEF Follows
<1> HIDE DEF p
<1>7. CASE p.failed
  <2>1. stage' = "stopped" /\ plan' = p
    BY <1>1, <1>7
  <2>2. order' \in Capital!Orders /\ sent' \in {None, "accepted", "rejected"}
    BY <1>1
  <2> QED BY <1>1, <1>3, <1>4, <1>6, <1>7, <2>1, <2>2, StoppedKeeps
<1>8. CASE ~p.failed
  <2>1. stage' = "close" /\ plan' = p
    BY <1>1, <1>8
  <2>2. ASSUME NEW a \in acted
        PROVE  /\ a.action = "found" => a.site \in plan'.foundSites
               /\ a.action = "found" /\ a.status = "accepted" => plan'.disabled \/ InBooks(plan', a)
               /\ a.action = "move" /\ a.effect = "never" =>
                    \/ plan'.disabled \/ <<a.origin, a.site>> \in plan'.failedEdges
                    \/ InBooks(plan', a) /\ due = None /\ w.at \in {a.origin, Gone} /\ a.site # a.origin
    <3>1. Entered(a) /\ Ends(a) /\ Shunned(a)
      BY DEF CapitalInv, Booked
    <3>2. Outstanding(a) => InBooks(plan, a)
      BY <1>1 DEF Outstanding, InBooks
    <3>3. /\ a.action = "found" /\ a.status = "accepted" => p.disabled \/ InBooks(p, a)
          /\ a.action = "move" /\ a.effect = "never" =>
               \/ p.disabled \/ <<a.origin, a.site>> \in p.failedEdges
               \/ InBooks(p, a) /\ due = None /\ w.at \in {a.origin, Gone} /\ a.site # a.origin
      BY <1>1, <1>8, <3>1, <3>2, OldOrders DEF p
    <3>4. p.foundSites = plan.foundSites
      BY <1>2 DEF Follows
    <3> QED BY <1>1, <2>1, <3>1, <3>3, <3>4 DEF Entered
  <2>3. ~p.disabled => capitalTurn - p.started < MaxPlanTurns
    BY <1>1, <1>8, ObserveGoesOn DEF p, GoesOn
  <2>4. \A i \in idle' : i.asks
    BY <1>1 DEF CapitalInv, Capital!NeverIdleUnasked
  <2>5. /\ PlanOk(plan') /\ ~plan'.failed
        /\ plan'.pending # None => plan'.pending.turn <= capitalTurn /\ plan'.pending.status # "due"
        /\ ~plan'.disabled => capitalTurn - plan'.started < MaxPlanTurns
        /\ plan'.completed # 0 =>
             \E a \in acted : a.action = "found" /\ a.effect # "never" /\ a.site \in w.cities
    BY <1>3, <1>4, <1>6, <1>8, <2>1, <2>3
  <2> QED BY <1>1, <2>1, <2>2, <2>4, <2>5, PlanPlaysOn
<1> QED BY <1>7, <1>8

(* The plan founds the city itself. *)
LEMMA PlanFounds ==
  ASSUME NEW p \in PlanRow, NEW S \in SUBSET Land, NEW x \in Orders,
         NEW r, r = [p EXCEPT !.foundSites = S, !.pending = x]
  PROVE  /\ r \in PlanRow /\ r.mission = p.mission /\ r.pending = x
         /\ r.disabled = p.disabled /\ r.failed = p.failed
         /\ r.failedEdges = p.failedEdges /\ r.foundSites = S
         /\ r.resolution = p.resolution /\ r.completed = p.completed
BY DEF PlanRow, Orders

LEMMA FoundKeeps ==
  ASSUME CapitalInv, NEW status \in {"accepted", "rejected"}, NEW effect \in {"now", "later", "never"},
         Capital!Found(status, effect)
  PROVE  CapitalInv'
<1> DEFINE p0 == Capital!Received(plan)
           p == Capital!Observe(p0, capitalTurn)
           o == [action |-> "found", dest |-> Start]
           x == [action |-> "found", status |-> status, turn |-> capitalTurn, origin |-> w.at,
                 superseded |-> FALSE]
<1>0. PICK new : new = Given(o, status, effect)
  OBVIOUS
<1>1. /\ stage = "run" /\ stage' = "founded" /\ ~plan.failed /\ effect \in Capital!Effects(status)
      /\ UNCHANGED <<capitalTurn, order, sent, idle>>
      /\ capitalTurn \in Nat \ {0} /\ w \in WorldRow /\ PlanOk(plan)
      /\ sent \in {None, "accepted", "rejected"} /\ order \in Capital!Orders
  BY DEF Capital!Found, CapitalInv, CapitalTypes, InTurn, PlanOk
<1>2. /\ Capital!MayFound(p) /\ Capital!Sends(o, status, effect)
      /\ plan' = [Capital!Attempted(p, p.mission.site) EXCEPT !.pending = x]
  BY Zenon DEF Capital!Found
<1>3. Receipt(plan, p0)
  BY <1>1, ReceivedBooks
<1>4. Follows(p0, p)
  <2>1. PlanOk(p0)
    BY <1>3 DEF Receipt
  <2> QED BY <1>1, <2>1, ObserveKeeps
<1>5. /\ PlanOk(p0) /\ PlanOk(p) /\ p0 \in PlanRow /\ p \in PlanRow
      /\ p.failed \in BOOLEAN /\ p.disabled \in BOOLEAN
  BY <1>3, <1>4, PlanParts DEF Receipt, Follows, PlanOk
<1>6. p.completed # 0 =>
        \E a \in acted : a.action = "found" /\ a.effect # "never" /\ a.site \in w.cities
  <2>1. p0.completed = plan.completed
    BY <1>3 DEF Receipt
  <2> QED BY <1>4, <1>5, <2>1, CreditEarned DEF CapitalInv
<1>7. /\ ~p.disabled /\ ~p.failed /\ p.mission # None /\ p.pending = None
      /\ w.at # Gone /\ w.at = p.mission.site /\ p.mission.site \notin p.foundSites
  BY <1>2 DEF Capital!MayFound, Capital!MustFound, Capital!Guarded
<1>8. o \in [action : {"move", "found"}, dest : Land] /\ Capital!Target(o) = w.at /\ o.action = "found"
  BY CapitalAssumption DEF Capital!Target
<1> HIDE DEF p0, p
<1>9. w.at \in Land /\ p.mission.site \in Land /\ p.foundSites \in SUBSET Land
  BY <1>1, <1>5, <1>7, PlanParts DEF WorldRow
<1>10. x \in Orders /\ x.action = "found" /\ x.status = status /\ x.turn = capitalTurn
       /\ x.origin = w.at /\ x # None
  <2>1. x \in Orders /\ x.action = "found" /\ x.status = status /\ x.turn = capitalTurn
        /\ x.origin = w.at
    BY <1>1, <1>9 DEF Orders
  <2> HIDE DEF x
  <2> QED BY <2>1, MissionsAndOrders DEF Orders
<1>11. /\ plan' \in PlanRow /\ plan'.mission = p.mission /\ plan'.pending = x
       /\ plan'.disabled = p.disabled /\ plan'.failed = p.failed
       /\ plan'.failedEdges = p.failedEdges
       /\ plan'.foundSites = p.foundSites \cup {p.mission.site}
       /\ plan'.resolution = p.resolution /\ plan'.completed = p.completed
  <2> DEFINE S == p.foundSites \cup {p.mission.site}
  <2> HIDE DEF x
  <2>1. S \in SUBSET Land
    BY <1>9
  <2>2. plan' = [p EXCEPT !.foundSites = S, !.pending = x]
    BY <1>2 DEF Capital!Attempted
  <2> HIDE DEF S
  <2>3. /\ plan' \in PlanRow /\ plan'.mission = p.mission /\ plan'.pending = x
        /\ plan'.disabled = p.disabled /\ plan'.failed = p.failed
        /\ plan'.failedEdges = p.failedEdges /\ plan'.foundSites = S
        /\ plan'.resolution = p.resolution /\ plan'.completed = p.completed
    BY <1>5, <1>10, <2>1, <2>2 DEF PlanRow, Base, Orders
  <2> QED BY <2>3 DEF S
<1> HIDE DEF x
<1>12. /\ acted' = acted \cup {new} /\ new \in OrderSent
       /\ new.turn = capitalTurn /\ new.action = "found" /\ new.status = status
       /\ new.effect = effect /\ new.origin = w.at /\ new.site = w.at
       /\ w' \in WorldRow /\ due' \in {None} \cup [action : {"move", "found"}, dest : Land]
  <2> HIDE DEF o
  <2>1. /\ acted' = acted \cup {new} /\ new \in OrderSent
        /\ new.turn = capitalTurn /\ new.action = o.action /\ new.status = status
        /\ new.effect = effect /\ new.origin = w.at /\ new.site = Capital!Target(o)
        /\ w' \in WorldRow /\ due' \in {None} \cup [action : {"move", "found"}, dest : Land]
    BY <1>0, <1>1, <1>2, <1>7, <1>8, SendsAnOrder DEF CapitalInv
  <2> QED BY <1>8, <2>1
<1>13. Credited'
  <2> HIDE DEF o
  <2> QED BY <1>1, <1>2, <1>6, <1>7, <1>8, <1>11, CreditStands DEF CapitalInv
<1> HIDE DEF o
<1>14. PlanOk(plan')
  BY <1>7, <1>11 DEF PlanOk
<1>15. CapitalTypes'
  BY <1>1, <1>11, <1>12 DEF CapitalInv, CapitalTypes
<1>16. InTurn'
  <2>1. \A a \in acted' : a.turn <= capitalTurn
    BY <1>1, <1>12 DEF CapitalInv, InTurn
  <2>2. status # "due" /\ capitalTurn <= capitalTurn
    BY <1>1
  <2> QED BY <1>1, <1>7, <1>10, <1>11, <2>1, <2>2 DEF InTurn
<1>17. ASSUME NEW a \in acted
       PROVE  /\ a.action = "found" => a.site \in p.foundSites
              /\ ~(a.action = "found" /\ a.status = "accepted")
              /\ a.action = "move" /\ a.effect = "never" => <<a.origin, a.site>> \in p.failedEdges
  <2>1. ~p0.failed /\ p0.disabled = plan.disabled /\ p0.failedEdges = plan.failedEdges
    BY <1>3, <1>4, <1>7 DEF Follows, Receipt
  <2>2. /\ a.action = "found" => a.site \in p0.foundSites
        /\ Outstanding(a) => InBooks(p0, a)
    BY <1>1, <1>3, <2>1, ReceivedOrders
  <2>3. Ends(a) /\ Shunned(a)
    BY DEF CapitalInv, Booked
  <2>4. /\ a.action = "found" /\ a.status = "accepted" => p.disabled \/ InBooks(p, a)
        /\ a.action = "move" /\ a.effect = "never" =>
             p.disabled \/ <<a.origin, a.site>> \in p.failedEdges \/ InBooks(p, a)
    BY <1>1, <1>5, <1>7, <2>1, <2>2, <2>3, OldOrders DEF p
  <2>5. ~InBooks(p, a)
    BY <1>7 DEF InBooks
  <2>6. p.foundSites = p0.foundSites
    BY <1>4 DEF Follows
  <2> QED BY <1>7, <2>2, <2>4, <2>5, <2>6
<1>18. Outstanding(new)'
  BY <1>1, <1>7, <1>10, <1>11, <1>12 DEF Outstanding
<1>19. ASSUME NEW a \in acted' PROVE Entered(a)' /\ Ends(a)' /\ Shunned(a)'
  <2>1. CASE a \in acted
    BY <1>11, <1>17, <2>1 DEF Entered, Ends, Shunned
  <2>2. CASE a = new
    BY <1>7, <1>11, <1>12, <1>18, <2>2 DEF Entered, Ends, Shunned
  <2> QED BY <1>12, <2>1, <2>2
<1>20. Capital!NothingTwice'
  <2>1. \A b \in acted : b.turn <= new.turn /\ b.turn \in Nat
    BY <1>12 DEF CapitalInv, InTurn, CapitalTypes, OrderSent
  <2>2. \A b \in acted : b.action = "found" /\ new.action = "found" => new.site # b.site
    BY <1>7, <1>12, <1>17
  <2>3. \A b \in acted : ~(b.action = "found" /\ b.status = "accepted")
    BY <1>17
  <2>4. new.turn \in Nat /\ new.action # "move"
    BY <1>1, <1>12
  <2>5. Capital!NothingTwice
    BY DEF CapitalInv, Booked
  <2> QED BY <1>12, <2>1, <2>2, <2>3, <2>4, <2>5, NewOrder
<1>21. Booked'
  BY <1>19, <1>20 DEF Booked
<1>22. Capital!NeverIdleUnasked'
  BY <1>1 DEF CapitalInv, Capital!NeverIdleUnasked
<1> QED BY <1>13, <1>15, <1>16, <1>21, <1>22 DEF CapitalInv

LEMMA CapitalStarts == ASSUME Capital!Init PROVE CapitalInv
<1>1. Start \in Land
  BY CapitalAssumption
<1>2. plan \in PlanRow /\ w \in WorldRow
  BY <1>1 DEF Capital!Init, PlanRow, WorldRow
<1>3. /\ capitalTurn = 1 /\ stage = "begin" /\ order = None /\ sent = None /\ due = None
      /\ acted = {} /\ idle = {} /\ w.cities = {}
      /\ plan.pending = None /\ plan.failed = FALSE /\ plan.completed = 0
  BY DEF Capital!Init
<1>4. CapitalTypes
  BY <1>2, <1>3 DEF CapitalTypes, Capital!Orders
<1>5. InTurn
  BY <1>3 DEF InTurn
<1>6. Booked
  BY <1>3 DEF Booked, Capital!NothingTwice
<1>7. Credited
  BY <1>3 DEF Credited, Capital!CreditIsEarned
<1>8. Capital!NeverIdleUnasked
  BY <1>3 DEF Capital!NeverIdleUnasked
<1> QED BY <1>4, <1>5, <1>6, <1>7, <1>8 DEF CapitalInv

LEMMA CapitalInvStep ==
  ASSUME CapitalInv, [Capital!Next]_(Capital!vars)
  PROVE  CapitalInv'
<1>1. CASE UNCHANGED Capital!vars
  <2>1. UNCHANGED <<capitalTurn, stage, w, plan, order, sent, due, acted, idle>>
    BY <1>1 DEF Capital!vars
  <2>2. CapitalTypes'
    BY <2>1 DEF CapitalInv, CapitalTypes
  <2>3. InTurn'
    BY <2>1 DEF CapitalInv, InTurn, Capital!Explicit
  <2>4. Booked'
    BY <2>1 DEF CapitalInv, Booked, Entered, Ends, Shunned, Outstanding, Capital!NothingTwice
  <2>5. Credited'
    BY <2>1 DEF CapitalInv, Credited, Raised, RaisedBy, Capital!CreditIsEarned
  <2>6. Capital!NeverIdleUnasked'
    BY <2>1 DEF CapitalInv, Capital!NeverIdleUnasked
  <2> QED BY <2>2, <2>3, <2>4, <2>5, <2>6 DEF CapitalInv
<1>2. CASE Capital!Begin
  BY <1>2, BeginKeeps
<1>3. CASE Capital!Reveal \/ Capital!NoDispatch \/ Capital!Close
  BY <1>3, QuietSteps
<1>4. CASE Capital!Run
  BY <1>4, RunKeeps
<1>5. CASE Capital!Observed
  BY <1>5, ObservedKeeps
<1>6. ASSUME NEW o \in Capital!Orders, Capital!Decide(o)
      PROVE  CapitalInv'
  BY <1>6, DecideKeeps
<1>7. ASSUME NEW status \in {"accepted", "rejected"}, NEW effect \in {"now", "later", "never"},
             Capital!Dispatch(status, effect) \/ Capital!Found(status, effect)
      PROVE  CapitalInv'
  BY <1>7, DispatchKeeps, FoundKeeps
<1> QED BY <1>1, <1>2, <1>3, <1>4, <1>5, <1>6, <1>7 DEF Capital!Next

LEMMA CapitalInvIsCare == ASSUME CapitalInv PROVE CapitalIsFoundedWithCare
BY DEF CapitalInv, Booked, Credited, CapitalIsFoundedWithCare, Capital!CapitalIsFoundedWithCare

LEMMA CapitalInvKeeps ==
  CapitalInv /\ [MCNext]_<<which, vars, llmVars, capitalVars, expansionVars, scoutVars>> => CapitalInv'
<1> SUFFICES ASSUME CapitalInv,
                    [MCNext]_<<which, vars, llmVars, capitalVars, expansionVars, scoutVars>>
             PROVE  CapitalInv'
  OBVIOUS
<1>1. CASE Capital!Next
  BY <1>1, CapitalInvStep
<1>2. CASE UNCHANGED capitalVars
  BY <1>2, CapitalInvStep DEF capitalVars, Capital!vars
<1> QED BY <1>1, <1>2 DEF MCNext

(* However the game answers, whatever forbids the sites and whatever the     *)
(* model orders: no site is tried twice and no move that came to nothing is  *)
(* ordered again, nothing is ordered after an accepted founding, the plan    *)
(* claims no city it did not found, and leaves no founder idle unasked       *)
(* (InitialCapitalPlan).                                                     *)
THEOREM CapitalIsAlwaysFoundedWithCare == MCSpec => []CapitalIsFoundedWithCare
<1>1. MCInit => CapitalInv
  BY CapitalStarts DEF MCInit
<1> QED BY <1>1, CapitalInvKeeps, CapitalInvIsCare, PTL DEF MCSpec

-----------------------------------------------------------------------------
(* The seat that a language model plays. *)

Directives == [by : Nat, turn : Nat, late : BOOLEAN, overrides : SUBSET {u1}]
Controllers == [failed : BOOLEAN, lastTurn : Nat, lastDecision : Nat,
                directive : Directives \cup {None}, directiveId : Nat \cup {None}]
Asks == [left : Nat, asked : Nat, before : Nat, late : BOOLEAN,
         kind : {"generation", "count_tokens", None}, attempt : Nat]
Bounds == [decision : Nat, directive : Nat \cup {None}, requests : Int]
RowsOf(s, d) == {k \in DOMAIN s : s[k] = d}
Deciding == {"observed", "asking", "posting", "counted", "replied", "calling"}

SeatTyped ==
  /\ mode \in {"tools", "strategic"} /\ seatTurn \in Nat /\ open \in BOOLEAN
  /\ ctl \in Controllers /\ client \in [posts : Nat, decision : Nat \cup {None}] /\ ask \in Asks
  /\ minted \in Nat /\ rows \in Seq(Nat) /\ boundaries \in Seq(Bounds)
  /\ mode = "tools" => ctl.directive = None
  /\ seatPc = "calling" => mode = "tools"

(* The budget is spent on rows, and the rounds of a turn on what was asked.     *)
SpentRight ==
  /\ Len(rows) = client.posts /\ client.posts <= MaxRequests
  /\ ask.asked + ask.left <= MaxRounds
  /\ seatPc = "counted" \/ (seatPc = "posting" /\ ask.kind # "generation") => ask.left > 0

(* The decision being made is the latest, no boundary has named it yet, and its *)
(* rows are those since it was minted.                                          *)
BookedOnIt ==
  /\ \A k \in DOMAIN rows : rows[k] <= minted
  /\ \A i \in DOMAIN boundaries : boundaries[i].decision <= minted
  /\ seatPc \in Deciding =>
       /\ client.decision = minted /\ ask.before <= Len(rows)
       /\ \A k \in DOMAIN rows : rows[k] = minted <=> k > ask.before
       /\ \A i \in DOMAIN boundaries : boundaries[i].decision # minted

CountedOnce ==
  /\ \A i, j \in DOMAIN boundaries : i # j => boundaries[i].decision # boundaries[j].decision
  /\ \A i \in DOMAIN boundaries :
       boundaries[i].requests = Cardinality(RowsOf(rows, boundaries[i].decision))

(* The controller is poisoned while its turn is open.                           *)
Poisoned ==
  mode = "strategic" =>
    /\ seatPc \notin {"between", "aborted"} => ctl.failed
    /\ seatPc = "aborted" => ~Llm!MayTakeTurn

TurnIsOpen ==
  /\ seatPc \notin {"between", "aborted", "calling"} => open
  /\ seatPc = "calling" /\ uses # <<>> => open
  /\ seatPc = "between" => ~open

(* What runs is the directive that the last boundary cites, and its overrides   *)
(* are of this turn.                                                            *)
UnderTheDirective ==
  /\ ctl.directive # None => ctl.directive.by = ctl.directiveId
  /\ seatPc \in {"scouting", "economy"} =>
       ctl.directive # None /\ boundaries # <<>> /\ boundaries[Len(boundaries)].directive = ctl.directiveId
  /\ ctl.directive # None /\ ctl.directive.overrides # {} =>
       ctl.directive.turn = seatTurn /\ ~ctl.directive.late /\ seatPc \notin {"between", "closing"}

OrderedRight ==
  \A o \in orders : /\ o.open
                    /\ o.kind \in {"override", "produce"} => o.directive = o.cited
                    /\ o.kind = "override" => o.given = o.turn /\ ~o.late

SeatInv ==
  /\ SeatTyped /\ SpentRight /\ BookedOnIt /\ CountedOnce /\ Poisoned /\ TurnIsOpen /\ UnderTheDirective
  /\ OrderedRight

LEMMA Limits == MaxRounds \in Nat /\ MaxRequests \in Nat /\ None \notin Nat /\ None \notin Directives
BY LlmAssumption DEF Directives

(* The rows of a decision, when another is booked and when it is the latest.    *)
LEMMA RowsOfOthers ==
  ASSUME NEW s \in Seq(Nat), NEW d, NEW e \in Nat, d # e
  PROVE  RowsOf(Append(s, e), d) = RowsOf(s, d)
<1>1. \A k \in DOMAIN Append(s, e) : 
       (k \in DOMAIN s /\ Append(s, e)[k] = s[k]) \/ (k = Len(s) + 1 /\ Append(s, e)[k] = e)
  OBVIOUS
<1>2. \A k \in DOMAIN s : k \in DOMAIN Append(s, e) /\ Append(s, e)[k] = s[k]
  OBVIOUS
<1> QED BY <1>1, <1>2 DEF RowsOf

LEMMA RowsOfTheLast ==
  ASSUME NEW s \in Seq(Nat), NEW d, NEW b \in Nat, b <= Len(s), \A k \in DOMAIN s : s[k] = d <=> k > b
  PROVE  Cardinality(RowsOf(s, d)) = Len(s) - b
<1>1. RowsOf(s, d) = (b + 1) .. Len(s)
  BY DEF RowsOf
<1>2. Cardinality((b + 1) .. Len(s)) = IF b + 1 > Len(s) THEN 0 ELSE Len(s) - (b + 1) + 1
  <2>1. b + 1 \in Int /\ Len(s) \in Int
    OBVIOUS
  <2> QED BY <2>1, FS_Interval
<1> QED BY <1>1, <1>2

LEMMA SeatInit == Llm!Init => SeatInv
<1> SUFFICES ASSUME Llm!Init PROVE SeatInv
  OBVIOUS
<1> USE DEF Llm!Init
<1>1. SeatTyped
  <2>1. ctl \in Controllers /\ ctl.directive = None
    BY DEF Llm!NewController, Controllers
  <2>2. client \in [posts : Nat, decision : Nat \cup {None}] /\ ask \in Asks
    BY DEF Asks
  <2>3. rows \in Seq(Nat) /\ boundaries \in Seq(Bounds)
    OBVIOUS
  <2> QED BY <2>1, <2>2, <2>3 DEF SeatTyped
<1>2. SpentRight /\ BookedOnIt /\ CountedOnce /\ Poisoned /\ TurnIsOpen
  BY Limits DEF SpentRight, BookedOnIt, CountedOnce, Poisoned, TurnIsOpen, Deciding
<1>3. UnderTheDirective /\ OrderedRight
  BY DEF UnderTheDirective, OrderedRight, Llm!NewController
<1> QED BY <1>1, <1>2, <1>3 DEF SeatInv

(* An abort changes nothing, and the seat is not taken up again.                *)
LEMMA AbortKeeps ==
  ASSUME SeatInv, Llm!Abort, Llm!SameSeat, seatPc # "between" \/ ~Llm!MayTakeTurn PROVE SeatInv'
<1> USE DEF SeatInv
<1>1. /\ seatPc' = "aborted"
      /\ UNCHANGED <<mode, seatTurn, open, ctl, client, ask, uses, rows, boundaries, orders, minted>>
  BY DEF Llm!Abort, Llm!SameSeat
<1>2. SeatTyped' /\ SpentRight' /\ OrderedRight'
  BY <1>1 DEF SeatTyped, SpentRight, OrderedRight
<1>3. BookedOnIt' /\ CountedOnce'
  BY <1>1 DEF BookedOnIt, CountedOnce, Deciding
<1>4. Poisoned' /\ TurnIsOpen' /\ UnderTheDirective'
  BY <1>1 DEF Poisoned, TurnIsOpen, UnderTheDirective, Llm!MayTakeTurn
<1> QED BY <1>2, <1>3, <1>4

LEMMA AbortsKeep ==
  ASSUME SeatInv, Llm!Refuse \/ Llm!CannotAsk \/ Llm!CannotPost \/ Llm!NotAdmitted \/ Llm!CannotProduce PROVE SeatInv'
BY AbortKeeps DEF Llm!Refuse, Llm!CannotAsk, Llm!CannotPost, Llm!NotAdmitted, Llm!CannotProduce

(* A new decision.                                                              *)
LEMMA MintBooks ==
  ASSUME SeatInv, NEW afresh \in BOOLEAN, NEW asked \in Nat, NEW left \in Nat, asked + left <= MaxRounds,
         Llm!Mint(afresh, asked, left), UNCHANGED <<rows, boundaries>>, seatPc' \notin {"posting", "counted"}
  PROVE  /\ minted' \in Nat /\ client' \in [posts : Nat, decision : Nat \cup {None}] /\ ask' \in Asks
         /\ SpentRight' /\ BookedOnIt' /\ CountedOnce'
<1> USE DEF SeatInv
<1>1. minted \in Nat /\ client \in [posts : Nat, decision : Nat \cup {None}] /\ ask \in Asks
      /\ rows \in Seq(Nat) /\ boundaries \in Seq(Bounds)
  BY DEF SeatTyped
<1>2. /\ minted' = minted + 1
      /\ client' = [client EXCEPT !.decision = minted + 1]
      /\ ask' = [ask EXCEPT !.late = afresh, !.asked = asked, !.left = left, !.before = client.posts]
  BY DEF Llm!Mint, Llm!BookedOn
<1>3. /\ minted' \in Nat /\ client' \in [posts : Nat, decision : Nat \cup {None}] 
      /\ client'.posts = client.posts /\ client'.decision = minted'
  BY <1>1, <1>2
<1>4. ask' \in Asks /\ ask'.asked = asked /\ ask'.left = left /\ ask'.before = client.posts
  BY <1>1, <1>2 DEF Asks
<1>5. SpentRight'
  BY <1>3, <1>4 DEF SpentRight
<1>6. CountedOnce'
  BY DEF CountedOnce
<1>7. BookedOnIt'
  <2>1. \A k \in DOMAIN rows : rows[k] \in Nat /\ k \in Nat /\ k <= Len(rows)
    BY <1>1
  <2>2. \A i \in DOMAIN boundaries : boundaries[i].decision \in Nat
    <3>1. \A i \in DOMAIN boundaries : boundaries[i] \in Bounds
      BY <1>1
    <3> QED BY <3>1 DEF Bounds
  <2>3. client.posts = Len(rows)
    BY DEF SpentRight
  <2>4. \A k \in DOMAIN rows : rows[k] <= minted /\ rows[k] # minted + 1 /\ ~(k > Len(rows))
    BY <1>1, <2>1 DEF BookedOnIt
  <2>5. \A i \in DOMAIN boundaries : boundaries[i].decision <= minted /\ boundaries[i].decision # minted + 1
    BY <1>1, <2>2 DEF BookedOnIt
  <2>6. \A k \in DOMAIN rows : rows[k] <= minted + 1
    BY <1>1, <2>1, <2>4
  <2>7. \A i \in DOMAIN boundaries : boundaries[i].decision <= minted + 1
    BY <1>1, <2>2, <2>5
  <2> QED BY <1>1, <1>2, <1>3, <1>4, <2>3, <2>4, <2>5, <2>6, <2>7 DEF BookedOnIt
<1> QED BY <1>3, <1>4, <1>5, <1>6, <1>7

LEMMA AttemptsAreLeft ==
  ASSUME SeatTyped, SpentRight PROVE Llm!Attempts(ask.asked) \in Nat /\ ask.asked + Llm!Attempts(ask.asked) <= MaxRounds
BY Limits DEF SeatTyped, SpentRight, Llm!Attempts, Asks

LEMMA TakesKeep == ASSUME SeatInv, Llm!TakeTurn \/ Llm!Take \/ Llm!Refresh PROVE SeatInv'
<1> USE DEF SeatInv
<1>1. CASE Llm!TakeTurn
  <2>1. /\ mode = "tools" /\ seatPc = "between" /\ seatPc' = "asking" /\ open' = TRUE
        /\ UNCHANGED <<mode, seatTurn, ctl, uses, rows, boundaries, orders>>
    BY <1>1 DEF Llm!TakeTurn, Llm!SameSeat
  <2>2. Llm!Mint(FALSE, 0, MaxRounds) /\ FALSE \in BOOLEAN
    BY <1>1 DEF Llm!TakeTurn
  <2>5. 0 \in Nat /\ MaxRounds \in Nat /\ 0 + MaxRounds <= MaxRounds
    BY Limits
  <2>3. /\ minted' \in Nat /\ client' \in [posts : Nat, decision : Nat \cup {None}] /\ ask' \in Asks
        /\ SpentRight' /\ BookedOnIt' /\ CountedOnce'
    BY <2>1, <2>2, <2>5, MintBooks, Zenon
  <2>4. SeatTyped' /\ Poisoned' /\ TurnIsOpen' /\ UnderTheDirective' /\ OrderedRight'
    BY <2>1, <2>3 DEF SeatTyped, Poisoned, TurnIsOpen, UnderTheDirective, OrderedRight
  <2> QED BY <2>3, <2>4
<1>2. CASE Llm!Take
  <2>1. /\ mode = "strategic" /\ seatPc = "between" /\ seatPc' = "observed" /\ open' = TRUE
        /\ UNCHANGED <<mode, seatTurn, uses, rows, boundaries, orders>>
        /\ ctl' = [ctl EXCEPT !.failed = TRUE]
    BY <1>2 DEF Llm!Take, Llm!SameSeat, Poisoned
  <2>2. Llm!Mint(FALSE, 0, 0) /\ FALSE \in BOOLEAN
    BY <1>2 DEF Llm!Take
  <2>6. 0 \in Nat /\ 0 + 0 <= MaxRounds
    BY Limits
  <2>3. /\ minted' \in Nat /\ client' \in [posts : Nat, decision : Nat \cup {None}] /\ ask' \in Asks
        /\ SpentRight' /\ BookedOnIt' /\ CountedOnce'
    BY <2>1, <2>2, <2>6, MintBooks, Zenon
  <2>4. ctl' \in Controllers /\ ctl'.failed /\ ctl'.directive = ctl.directive /\ ctl'.directiveId = ctl.directiveId
    BY <2>1 DEF SeatTyped, Controllers
  <2>5. SeatTyped' /\ Poisoned' /\ TurnIsOpen' /\ UnderTheDirective' /\ OrderedRight'
    BY <2>1, <2>3, <2>4 DEF SeatTyped, Poisoned, TurnIsOpen, UnderTheDirective, OrderedRight
  <2> QED BY <2>3, <2>5
<1>3. CASE Llm!Refresh
  <2>1. /\ seatPc = "economy" /\ seatPc' = "asking"
        /\ UNCHANGED <<mode, seatTurn, open, ctl, uses, rows, boundaries, orders>>
    BY <1>3 DEF Llm!Refresh, Llm!SameSeat
  <2>2. Llm!Mint(TRUE, ask.asked, Llm!Attempts(ask.asked)) /\ ask.asked \in Nat
    BY <1>3 DEF Llm!Refresh, SeatTyped, Asks
  <2>3. /\ minted' \in Nat /\ client' \in [posts : Nat, decision : Nat \cup {None}] /\ ask' \in Asks
        /\ SpentRight' /\ BookedOnIt' /\ CountedOnce'
    BY <2>1, <2>2, MintBooks, AttemptsAreLeft
  <2>4. SeatTyped' /\ Poisoned' /\ TurnIsOpen' /\ UnderTheDirective' /\ OrderedRight'
    BY <2>1, <2>3 DEF SeatTyped, Poisoned, TurnIsOpen, UnderTheDirective, OrderedRight
  <2> QED BY <2>3, <2>4
<1> QED BY <1>1, <1>2, <1>3

(* What asking changes is the place, and what is left of the rounds.            *)
LEMMA AskingKeeps ==
  ASSUME SeatInv, Llm!Decide \/ Llm!Ask \/ Llm!OutOfRounds \/ Llm!Admit PROVE SeatInv'
<1> USE DEF SeatInv
<1>1. /\ UNCHANGED <<mode, seatTurn, open, ctl, client, uses, rows, boundaries, orders, minted>>
      /\ seatPc \in {"observed", "asking", "counted"} /\ seatPc' \in {"asking", "posting", "closing"}
      /\ seatPc' = "closing" => mode = "tools"
  BY DEF Llm!Decide, Llm!Ask, Llm!OutOfRounds, Llm!Admit, Llm!Send, Llm!SameSeat
<1>2. ask' \in Asks /\ ask'.before = ask.before /\ ask'.asked + ask'.left <= MaxRounds
      /\ (seatPc' = "posting" /\ ask'.kind # "generation" => ask'.left > 0)
  <2>1. CASE Llm!Decide
    <3>1. ask' = [ask EXCEPT !.left = Llm!Attempts(ask.asked)] /\ seatPc' = "asking"
      BY <2>1 DEF Llm!Decide
    <3>2. ask \in Asks /\ Llm!Attempts(ask.asked) \in Nat /\ ask.asked + Llm!Attempts(ask.asked) <= MaxRounds
      BY AttemptsAreLeft DEF SeatTyped
    <3>3. ask' \in Asks /\ ask'.before = ask.before /\ ask'.asked = ask.asked /\ ask'.left = Llm!Attempts(ask.asked)
      BY <3>1, <3>2 DEF Asks
    <3> QED BY <3>1, <3>2, <3>3
  <2>2. CASE Llm!OutOfRounds
    BY <2>2 DEF Llm!OutOfRounds, SeatTyped, SpentRight
  <2>3. ASSUME NEW kind \in {"generation", "count_tokens"}, Llm!Send(kind), ask.left > 0
        PROVE  ask' \in Asks /\ ask'.before = ask.before /\ ask'.asked + ask'.left <= MaxRounds
               /\ (seatPc' = "posting" /\ ask'.kind # "generation" => ask'.left > 0)
    <3>1. ask' = [ask EXCEPT !.kind = kind, !.attempt = 0,
                    !.left = IF kind = "generation" THEN @ - 1 ELSE @,
                    !.asked = IF kind = "generation" THEN @ + 1 ELSE @]
      BY <2>3 DEF Llm!Send
    <3>2. ask \in Asks /\ ask.asked + ask.left <= MaxRounds
      BY DEF SeatTyped, SpentRight
    <3>3. CASE kind = "generation"
      <4>1. ask.left - 1 \in Nat /\ ask.asked + 1 \in Nat
        BY <3>2, <2>3 DEF Asks
      <4>2. /\ ask' \in Asks /\ ask'.before = ask.before /\ ask'.kind = "generation"
            /\ ask'.left = ask.left - 1 /\ ask'.asked = ask.asked + 1
        BY <3>1, <3>2, <3>3, <4>1 DEF Asks
      <4>3. ask.asked \in Nat /\ ask.left \in Nat
        BY <3>2 DEF Asks
      <4> QED BY <3>2, <4>2, <4>3, Limits
    <3>4. CASE kind = "count_tokens"
      <4>1. /\ ask' \in Asks /\ ask'.before = ask.before
            /\ ask'.left = ask.left /\ ask'.asked = ask.asked
        BY <3>1, <3>2, <3>4 DEF Asks
      <4> QED BY <3>2, <4>1, <2>3
    <3> QED BY <3>3, <3>4
  <2>4. CASE Llm!Ask
    BY <2>3, <2>4 DEF Llm!Ask
  <2>5. CASE Llm!Admit
    BY <2>3, <2>5 DEF Llm!Admit, SpentRight
  <2> QED BY <2>1, <2>2, <2>4, <2>5
<1>3. SeatTyped' /\ SpentRight' /\ OrderedRight'
  BY <1>1, <1>2 DEF SeatTyped, SpentRight, OrderedRight
<1>4. BookedOnIt'
  BY <1>1, <1>2 DEF BookedOnIt, Deciding
<1>5. CountedOnce'
  BY <1>1 DEF CountedOnce
<1>6. Poisoned' /\ TurnIsOpen' /\ UnderTheDirective'
  BY <1>1 DEF Poisoned, TurnIsOpen, UnderTheDirective, SeatTyped
<1> QED BY <1>3, <1>4, <1>5, <1>6

(* A post is booked before it is made.                                          *)
LEMMA PostKeeps == ASSUME NEW answer \in {"ok", "busy", "refused"}, SeatInv, Llm!Post(answer) PROVE SeatInv'
<1> USE DEF SeatInv
<1>1. /\ UNCHANGED <<mode, seatTurn, open, ctl, uses, boundaries, orders, minted>>
      /\ seatPc = "posting" /\ client.posts < MaxRequests
      /\ client' = [client EXCEPT !.posts = client.posts + 1] /\ rows' = Append(rows, client.decision)
      /\ ask' = [ask EXCEPT !.attempt = ask.attempt + 1]
      /\ seatPc' \in {"replied", "counted", "posting", "aborted"}
      /\ seatPc' = "counted" => ask.kind # "generation"
  BY Limits DEF Llm!Post, Llm!OutOfRequests, Llm!SameSeat, SeatTyped
<1>2. client.decision = minted /\ minted \in Nat /\ rows \in Seq(Nat) /\ boundaries \in Seq(Bounds)
      /\ ask.before \in Nat /\ ask.before <= Len(rows)
  BY <1>1 DEF SeatTyped, BookedOnIt, Deciding, Asks
<1>3. client' \in [posts : Nat, decision : Nat \cup {None}] /\ client'.posts = client.posts + 1
      /\ client'.decision = minted
  BY <1>1, <1>2 DEF SeatTyped
<1>4. ask' \in Asks /\ ask'.asked = ask.asked /\ ask'.left = ask.left /\ ask'.before = ask.before
      /\ ask'.kind = ask.kind
  BY <1>1 DEF SeatTyped, Asks
<1>5. rows' \in Seq(Nat) /\ Len(rows') = Len(rows) + 1 /\ rows'[Len(rows) + 1] = minted
      /\ (\A k \in DOMAIN rows : rows'[k] = rows[k])
      /\ (\A k \in DOMAIN rows' : k \in DOMAIN rows \/ k = Len(rows) + 1)
  BY <1>1, <1>2
<1>6. SeatTyped'
  BY <1>1, <1>3, <1>4, <1>5 DEF SeatTyped
<1>7. SpentRight'
  BY <1>1, <1>3, <1>4, <1>5, Limits DEF SpentRight, SeatTyped
<1>8. BookedOnIt'
  <2>1. \A k \in DOMAIN rows : rows[k] <= minted /\ (rows[k] = minted <=> k > ask.before)
    BY <1>1 DEF BookedOnIt, Deciding
  <2>2. minted <= minted /\ Len(rows) + 1 > ask.before /\ ask.before <= Len(rows) + 1
    BY <1>2
  <2>3. \A k \in DOMAIN rows' : rows'[k] <= minted /\ (rows'[k] = minted <=> k > ask.before)
    BY <1>5, <2>1, <2>2
  <2>4. /\ \A i \in DOMAIN boundaries : boundaries[i].decision <= minted /\ boundaries[i].decision # minted
    BY <1>1 DEF BookedOnIt, Deciding
  <2> QED BY <1>1, <1>2, <1>3, <1>4, <1>5, <2>2, <2>3, <2>4 DEF BookedOnIt
<1>9. CountedOnce'
  <2>1. ASSUME NEW i \in DOMAIN boundaries
        PROVE  RowsOf(rows', boundaries[i].decision) = RowsOf(rows, boundaries[i].decision)
    <3>1. boundaries[i].decision # minted
      BY <1>1 DEF BookedOnIt, Deciding
    <3> QED BY <3>1, <1>1, <1>2, RowsOfOthers
  <2> QED BY <1>1, <2>1 DEF CountedOnce
<1>10. Poisoned' /\ TurnIsOpen' /\ UnderTheDirective' /\ OrderedRight'
  BY <1>1 DEF Poisoned, TurnIsOpen, UnderTheDirective, OrderedRight, Llm!MayTakeTurn
<1> QED BY <1>6, <1>7, <1>8, <1>9, <1>10

(* A boundary of the decision that is being made.                               *)
LEMMA BoundaryCounts ==
  ASSUME SeatInv, NEW id \in Nat \cup {None}, Llm!Boundary(id), seatPc \in Deciding, seatPc' \notin Deciding,
         UNCHANGED <<rows, minted>>
  PROVE  /\ boundaries' \in Seq(Bounds) /\ boundaries' # <<>> /\ boundaries'[Len(boundaries')].directive = id
         /\ BookedOnIt' /\ CountedOnce'
<1> USE DEF SeatInv
<1> DEFINE new == [decision |-> client.decision, directive |-> id, requests |-> client.posts - ask.before]
<1>1. boundaries' = Append(boundaries, new)
  BY DEF Llm!Boundary
<1>2. client.decision = minted /\ minted \in Nat /\ client.posts = Len(rows) /\ rows \in Seq(Nat)
      /\ boundaries \in Seq(Bounds) /\ ask.before \in Nat /\ ask.before <= Len(rows)
  BY DEF BookedOnIt, SeatTyped, SpentRight, Asks
<1>3. new \in Bounds /\ new.decision = minted /\ new.directive = id /\ new.requests = Len(rows) - ask.before
  BY <1>2 DEF Bounds
<1> HIDE DEF new
<1>4. /\ boundaries' \in Seq(Bounds) /\ Len(boundaries') = Len(boundaries) + 1
      /\ boundaries'[Len(boundaries) + 1] = new
      /\ (\A i \in DOMAIN boundaries : boundaries'[i] = boundaries[i])
      /\ (\A i \in DOMAIN boundaries' : i \in DOMAIN boundaries \/ i = Len(boundaries) + 1)
  BY <1>1, <1>2, <1>3
<1>5. \A i \in DOMAIN boundaries : boundaries[i].decision # minted /\ boundaries[i].decision <= minted
  BY DEF BookedOnIt
<1>6. BookedOnIt'
  <2>1. \A i \in DOMAIN boundaries' : boundaries'[i].decision <= minted
    BY <1>2, <1>3, <1>4, <1>5
  <2>2. \A k \in DOMAIN rows : rows[k] <= minted
    BY DEF BookedOnIt
  <2> QED BY <2>1, <2>2 DEF BookedOnIt
<1>7. Cardinality(RowsOf(rows, minted)) = Len(rows) - ask.before
  BY <1>2, RowsOfTheLast DEF BookedOnIt
<1>8. CountedOnce'
  BY <1>3, <1>4, <1>5, <1>7 DEF CountedOnce
<1>9. boundaries' # <<>> /\ boundaries'[Len(boundaries')].directive = id
  BY <1>2, <1>3, <1>4
<1> QED BY <1>4, <1>6, <1>8, <1>9

LEMMA QuietKeeps == ASSUME SeatInv, Llm!Quiet PROVE SeatInv'
<1> USE DEF SeatInv
<1>1. /\ UNCHANGED <<mode, seatTurn, open, ctl, client, ask, uses, rows, orders, minted>>
      /\ seatPc = "observed" /\ seatPc' = "scouting" /\ ctl.directive # None
      /\ Llm!Boundary(ctl.directiveId) /\ ctl.directiveId \in Nat \cup {None}
  BY DEF Llm!Quiet, Llm!SameSeat, Llm!MustDecide, SeatTyped, Controllers
<1>2. /\ boundaries' \in Seq(Bounds) /\ boundaries' # <<>>
      /\ boundaries'[Len(boundaries')].directive = ctl.directiveId /\ BookedOnIt' /\ CountedOnce'
  BY <1>1, BoundaryCounts DEF Deciding
<1>3. SeatTyped' /\ SpentRight'
  BY <1>1, <1>2 DEF SeatTyped, SpentRight
<1>4. Poisoned' /\ TurnIsOpen' /\ UnderTheDirective' /\ OrderedRight'
  BY <1>1, <1>2 DEF Poisoned, TurnIsOpen, UnderTheDirective, OrderedRight
<1> QED BY <1>2, <1>3, <1>4

LEMMA DirectiveKeeps ==
  ASSUME NEW valid \in BOOLEAN, NEW overrides \in SUBSET {u1}, SeatInv, Llm!Directive(valid, overrides)
  PROVE  SeatInv'
<1> USE DEF SeatInv
<1>1. /\ seatPc = "replied" /\ mode = "strategic"
      /\ UNCHANGED <<mode, seatTurn, open, client, ask, uses, rows, orders, minted>>
  BY DEF Llm!Directive, Llm!SameSeat
<1>2. \/ ctl' = Llm!Accepted(overrides) /\ Llm!Boundary(ctl'.directiveId)
         /\ seatPc' = IF ask.late THEN "economy" ELSE "scouting"
      \/ UNCHANGED <<ctl, boundaries>> /\ seatPc' \in {"asking", "aborted"}
  BY DEF Llm!Directive
<1>3. CASE UNCHANGED <<ctl, boundaries>> /\ seatPc' \in {"asking", "aborted"}
  <2>1. SeatTyped' /\ SpentRight'
    BY <1>1, <1>3 DEF SeatTyped, SpentRight
  <2>2. BookedOnIt' /\ CountedOnce'
    BY <1>1, <1>3 DEF BookedOnIt, CountedOnce, Deciding
  <2>3. Poisoned' /\ TurnIsOpen' /\ UnderTheDirective' /\ OrderedRight'
    BY <1>1, <1>3 DEF Poisoned, TurnIsOpen, UnderTheDirective, OrderedRight, Llm!MayTakeTurn
  <2> QED BY <2>1, <2>2, <2>3
<1>4. CASE ctl' = Llm!Accepted(overrides) /\ Llm!Boundary(ctl'.directiveId)
           /\ seatPc' = IF ask.late THEN "economy" ELSE "scouting"
  <2>1. client.decision = minted /\ minted \in Nat /\ seatTurn \in Nat /\ ask.late \in BOOLEAN
    BY <1>1 DEF BookedOnIt, Deciding, SeatTyped, Asks
  <2> DEFINE d == [by |-> minted, turn |-> seatTurn, late |-> ask.late,
                   overrides |-> IF ask.late THEN {} ELSE overrides]
  <2>2. d \in Directives /\ d.by = minted /\ d.turn = seatTurn /\ (d.overrides # {} => ~d.late)
    BY <2>1 DEF Directives
  <2>3. d # None
    BY <2>2, Limits DEF Directives
  <2>4. ctl' = [ctl EXCEPT !.directive = d, !.directiveId = minted, !.lastDecision = seatTurn]
    BY <1>4, <2>1 DEF Llm!Accepted
  <2> HIDE DEF d
  <2>5. ctl' \in Controllers /\ ctl'.directive = d /\ ctl'.directiveId = minted /\ ctl'.failed = ctl.failed
    BY <2>1, <2>2, <2>4 DEF SeatTyped, Controllers
  <2>6. /\ boundaries' \in Seq(Bounds) /\ boundaries' # <<>>
        /\ boundaries'[Len(boundaries')].directive = minted /\ BookedOnIt' /\ CountedOnce'
    BY <1>1, <1>4, <2>1, <2>5, BoundaryCounts DEF Deciding
  <2>7. SeatTyped' /\ SpentRight'
    BY <1>1, <1>4, <2>5, <2>6 DEF SeatTyped, SpentRight
  <2>8. Poisoned' /\ TurnIsOpen' /\ OrderedRight'
    BY <1>1, <1>4, <2>5 DEF Poisoned, TurnIsOpen, OrderedRight
  <2>9. UnderTheDirective'
    BY <1>1, <1>4, <2>2, <2>3, <2>5, <2>6 DEF UnderTheDirective
  <2> QED BY <2>6, <2>7, <2>8, <2>9
<1> QED BY <1>2, <1>3, <1>4

(* The calls of a model.                                                        *)
LEMMA CallsKeep ==
  ASSUME SeatInv, (\E asked \in Llm!Calls : Llm!Reply(asked)) \/ Llm!CallTool \/ Llm!CallsMade PROVE SeatInv'
<1> USE DEF SeatInv
<1>1. UNCHANGED <<mode, ctl, client, ask, rows, boundaries, minted>>
  BY DEF Llm!Reply, Llm!CallTool, Llm!CallsMade, Llm!SameSeat
<1>2. CountedOnce'
  BY <1>1 DEF CountedOnce
<1>3. CASE \E asked \in Llm!Calls : Llm!Reply(asked)
  <2>1. seatPc = "replied" /\ mode = "tools" /\ UNCHANGED <<seatTurn, open, orders>> /\ seatPc' \in {"closing", "calling"}
    BY <1>3 DEF Llm!Reply, Llm!SameSeat
  <2>2. SeatTyped' /\ SpentRight' /\ BookedOnIt'
    BY <1>1, <2>1 DEF SeatTyped, SpentRight, BookedOnIt, Deciding
  <2>3. Poisoned' /\ TurnIsOpen' /\ UnderTheDirective' /\ OrderedRight'
    BY <1>1, <2>1 DEF Poisoned, TurnIsOpen, UnderTheDirective, OrderedRight, SeatTyped
  <2> QED BY <1>2, <2>2, <2>3
<1>4. CASE Llm!CallTool
  <2>1. seatPc = "calling" /\ uses # <<>> /\ seatPc' = seatPc /\ seatTurn' = seatTurn /\ open \in BOOLEAN
    BY <1>4 DEF Llm!CallTool, Llm!SameSeat, SeatTyped
  <2>2. open
    BY <2>1 DEF TurnIsOpen
  <2> DEFINE call == Head(uses)
  <2>3. open' \in BOOLEAN /\ (uses' # <<>> => open')
    BY <1>4, <2>1, <2>2 DEF Llm!CallTool, Llm!After
  <2>4. \A o \in orders' : o \in orders \/ (o.open = open /\ o.kind = "tool")
    BY <1>4 DEF Llm!CallTool, Llm!Order
  <2>5. SeatTyped' /\ SpentRight' /\ BookedOnIt'
    BY <1>1, <2>1, <2>3 DEF SeatTyped, SpentRight, BookedOnIt, Deciding
  <2>6. Poisoned' /\ TurnIsOpen' /\ UnderTheDirective'
    BY <1>1, <2>1, <2>3 DEF Poisoned, TurnIsOpen, UnderTheDirective
  <2>7. OrderedRight'
    BY <2>2, <2>4 DEF OrderedRight
  <2> QED BY <1>2, <2>5, <2>6, <2>7
<1>5. CASE Llm!CallsMade
  <2>1. /\ seatPc = "calling" /\ UNCHANGED <<open, orders>> /\ seatTurn' = (IF open THEN seatTurn ELSE seatTurn + 1)
        /\ seatPc' = IF open THEN "asking" ELSE "between"
    BY <1>5 DEF Llm!CallsMade
  <2>2. SeatTyped' /\ SpentRight' /\ BookedOnIt'
    BY <1>1, <2>1 DEF SeatTyped, SpentRight, BookedOnIt, Deciding
  <2>3. TurnIsOpen' /\ OrderedRight'
    BY <1>1, <2>1 DEF TurnIsOpen, OrderedRight
  <2>4. Poisoned' /\ UnderTheDirective'
    BY <1>1, <2>1 DEF Poisoned, UnderTheDirective, SeatTyped
  <2> QED BY <1>2, <2>2, <2>3, <2>4
<1> QED BY <1>3, <1>4, <1>5

(* What the controller orders.                                                  *)
LEMMA OrdersKeep ==
  ASSUME SeatInv, Llm!Scout \/ Llm!Produce PROVE SeatInv'
<1> USE DEF SeatInv
<1>1. /\ UNCHANGED <<mode, seatTurn, open, ctl, client, ask, uses, rows, boundaries, minted>>
      /\ seatPc \in {"scouting", "economy"} /\ seatPc' = "economy"
  BY DEF Llm!Scout, Llm!Produce, Llm!SameSeat
<1>2. open /\ ctl.directive # None /\ ctl.directive.by = ctl.directiveId /\ boundaries # <<>>
      /\ boundaries[Len(boundaries)].directive = ctl.directiveId
  BY <1>1 DEF TurnIsOpen, UnderTheDirective
<1>3. \A o \in orders' : o \in orders \/
        (/\ o.open /\ o.directive = o.cited
         /\ o.kind = "override" => o.given = o.turn /\ ~o.late)
  <2>1. CASE Llm!Scout
    <3> DEFINE new == Llm!Order("override", ctl.directive.by, ctl.directive.turn, ctl.directive.late)
    <3>1. \A o \in orders' : o \in orders \/ (o = new /\ ctl.directive.overrides # {})
      BY <2>1 DEF Llm!Scout
    <3>2. new.directive = new.cited /\ new.turn = seatTurn /\ new.given = ctl.directive.turn
      BY <1>2 DEF Llm!Order
    <3>3. new.open
      BY <1>2 DEF Llm!Order
    <3>4. ctl.directive.overrides # {} => ctl.directive.turn = seatTurn /\ ~ctl.directive.late
      BY <1>2 DEF UnderTheDirective
    <3>5. ctl.directive.overrides # {} => ~new.late
      BY <3>4 DEF Llm!Order
    <3> HIDE DEF new
    <3> QED BY <3>1, <3>2, <3>3, <3>4, <3>5
  <2>2. CASE Llm!Produce
    <3> DEFINE new == Llm!Order("produce", ctl.directive.by, seatTurn, FALSE)
    <3>1. \A o \in orders' : o \in orders \/ o = new
      BY <2>2 DEF Llm!Produce
    <3>2. new.directive = new.cited /\ new.kind = "produce"
      BY <1>2 DEF Llm!Order
    <3>3. new.open
      BY <1>2 DEF Llm!Order
    <3> HIDE DEF new
    <3> QED BY <3>1, <3>2, <3>3
  <2> QED BY <2>1, <2>2 DEF Llm!Scout, Llm!Produce
<1>4. SeatTyped' /\ SpentRight' /\ BookedOnIt'
  BY <1>1 DEF SeatTyped, SpentRight, BookedOnIt, Deciding
<1>5. CountedOnce' /\ Poisoned' /\ TurnIsOpen' /\ UnderTheDirective'
  BY <1>1 DEF CountedOnce, Poisoned, TurnIsOpen, UnderTheDirective
<1>6. OrderedRight'
  BY <1>3 DEF OrderedRight
<1> QED BY <1>4, <1>5, <1>6

LEMMA EconomyDoneKeeps == ASSUME SeatInv, Llm!EconomyDone PROVE SeatInv'
<1> USE DEF SeatInv
<1>1. /\ UNCHANGED <<mode, seatTurn, open, client, ask, uses, rows, boundaries, orders, minted>>
      /\ seatPc = "economy" /\ seatPc' = "closing" /\ ctl' = [ctl EXCEPT !.directive.overrides = {}]
  BY DEF Llm!EconomyDone, Llm!SameSeat, Llm!Expired
<1>2. ctl.directive \in Directives /\ ctl.directive # None
  BY <1>1 DEF UnderTheDirective, SeatTyped, Controllers
<1> DEFINE d == [ctl.directive EXCEPT !.overrides = {}]
<1>3. d \in Directives /\ d.by = ctl.directive.by /\ d.overrides = {}
  BY <1>2 DEF Directives
<1>4. ctl' = [ctl EXCEPT !.directive = d]
  BY <1>1
<1> HIDE DEF d
<1>5. ctl' \in Controllers /\ ctl'.directive = d /\ ctl'.directiveId = ctl.directiveId /\ ctl'.failed = ctl.failed
  BY <1>3, <1>4 DEF SeatTyped, Controllers
<1>6. mode # "tools"
  BY <1>2 DEF SeatTyped
<1>7. SeatTyped' /\ SpentRight' /\ BookedOnIt'
  BY <1>1, <1>5, <1>6 DEF SeatTyped, SpentRight, BookedOnIt, Deciding
<1>8. CountedOnce' /\ Poisoned' /\ TurnIsOpen' /\ OrderedRight'
  BY <1>1, <1>5 DEF CountedOnce, Poisoned, TurnIsOpen, OrderedRight
<1>9. UnderTheDirective'
  BY <1>1, <1>2, <1>3, <1>5 DEF UnderTheDirective
<1> QED BY <1>7, <1>8, <1>9

LEMMA CloseKeepsSeat == ASSUME SeatInv, Llm!Close PROVE SeatInv'
<1> USE DEF SeatInv
<1>1. seatPc = "closing" /\ open /\ UNCHANGED <<mode, client, ask, uses, rows, boundaries, minted>>
  BY DEF Llm!Close, TurnIsOpen
<1>2. \A o \in orders' : o \in orders \/ (o.open = open /\ o.kind = "tool")
  BY DEF Llm!Close, Llm!Order
<1>3. \/ /\ open' = FALSE /\ seatPc' = "between" /\ seatTurn' = seatTurn + 1
         /\ ctl' = IF mode = "strategic" THEN [ctl EXCEPT !.lastTurn = seatTurn, !.failed = FALSE] ELSE ctl
      \/ seatPc' = "aborted" /\ UNCHANGED <<open, seatTurn, ctl>>
  BY DEF Llm!Close
<1>4. ctl' \in Controllers /\ ctl'.directive = ctl.directive /\ ctl'.directiveId = ctl.directiveId
  BY <1>3 DEF SeatTyped, Controllers
<1>5. SeatTyped' /\ SpentRight' /\ BookedOnIt'
  <2>1. open' \in BOOLEAN
    BY <1>3 DEF SeatTyped
  <2>2. seatTurn' \in Nat
    BY <1>3 DEF SeatTyped
  <2>3. seatPc' \in {"between", "aborted"}
    BY <1>3
  <2> QED BY <1>1, <1>4, <2>1, <2>2, <2>3 DEF SeatTyped, SpentRight, BookedOnIt, Deciding
<1>6. CountedOnce' /\ TurnIsOpen'
  BY <1>1, <1>3 DEF CountedOnce, TurnIsOpen
<1>7. Poisoned'
  BY <1>1, <1>3 DEF Poisoned, Llm!MayTakeTurn
<1>8. UnderTheDirective'
  BY <1>1, <1>3, <1>4 DEF UnderTheDirective
<1>9. OrderedRight'
  BY <1>1, <1>2 DEF OrderedRight
<1> QED BY <1>5, <1>6, <1>7, <1>8, <1>9

(* A new process counts on from the spend ledger.                               *)
LEMMA KillKeeps == ASSUME SeatInv, Llm!Kill PROVE SeatInv'
<1> USE DEF SeatInv
<1>1. /\ UNCHANGED <<mode, seatTurn, ask, rows, boundaries, minted>> /\ seatPc' = "between" /\ open' = FALSE
      /\ ctl' = Llm!NewController /\ client' = [posts |-> Len(rows), decision |-> None]
      /\ orders' \subseteq orders
  BY DEF Llm!Kill
<1>2. ctl' \in Controllers /\ ctl'.directive = None
  BY <1>1 DEF Llm!NewController, Controllers
<1>3. Len(rows) \in Nat /\ Len(rows) = client.posts
  BY DEF SeatTyped, SpentRight
<1>4. client' \in [posts : Nat, decision : Nat \cup {None}] /\ client'.posts = Len(rows)
  BY <1>1, <1>3
<1>5. SeatTyped' /\ SpentRight' /\ BookedOnIt'
  BY <1>1, <1>2, <1>3, <1>4 DEF SeatTyped, SpentRight, BookedOnIt, Deciding
<1>6. CountedOnce' /\ Poisoned' /\ TurnIsOpen' /\ UnderTheDirective' /\ OrderedRight'
  BY <1>1, <1>2 DEF CountedOnce, Poisoned, TurnIsOpen, UnderTheDirective, OrderedRight
<1> QED BY <1>5, <1>6

LEMMA SeatInvKeeps == SeatInv /\ Llm!Next => SeatInv'
<1> SUFFICES ASSUME SeatInv, Llm!Next PROVE SeatInv'
  OBVIOUS
<1> QED
  BY AbortsKeep, TakesKeep, AskingKeeps, PostKeeps, QuietKeeps, DirectiveKeeps, CallsKeep, OrdersKeep,
     EconomyDoneKeeps, CloseKeepsSeat, KillKeeps
  DEF Llm!Next

LEMMA SameSize == \A S : Llm!Cardinality(S) = Cardinality(S)
BY DEF Llm!Cardinality, Cardinality

LEMMA SeatInvIsEnough == SeatInv => Llm!CostsAddUp /\ Llm!OrdersHaveAuthority
<1> SUFFICES ASSUME SeatInv PROVE Llm!CostsAddUp /\ Llm!OrdersHaveAuthority
  OBVIOUS
<1> USE DEF SeatInv
<1>1. client.posts <= MaxRequests /\ Len(rows) <= MaxRequests /\ ask.asked <= MaxRounds
  BY Limits DEF SpentRight, SeatTyped, Asks
<1>2. Llm!CostsAddUp
  BY <1>1, SameSize DEF Llm!CostsAddUp, CountedOnce, RowsOf
<1>3. Llm!OrdersHaveAuthority
  BY DEF Llm!OrdersHaveAuthority, OrderedRight, TurnIsOpen
<1> QED BY <1>2, <1>3

LEMMA AbortedStays == SeatInv /\ Llm!Next /\ seatPc = "aborted" /\ mode = "strategic" => seatPc' = "aborted"
BY DEF SeatInv, Poisoned, Llm!Next, Llm!TakeTurn, Llm!Take, Llm!Refuse, Llm!Quiet, Llm!Decide, Llm!Ask, Llm!CannotAsk, Llm!OutOfRounds,
       Llm!CannotPost, Llm!Admit, Llm!NotAdmitted, Llm!Post, Llm!Reply, Llm!CallTool, Llm!CallsMade, Llm!Directive, Llm!Scout, Llm!Produce,
       Llm!CannotProduce, Llm!Refresh, Llm!EconomyDone, Llm!Close, Llm!Kill

(* A stutter of the seat: the referee's steps and the other players'.        *)
LEMMA SeatRests == SeatInv /\ UNCHANGED llmVars => SeatInv'
<1> SUFFICES ASSUME SeatInv, UNCHANGED llmVars PROVE SeatInv'
  OBVIOUS
<1>1. UNCHANGED <<mode, seatTurn, open, seatPc, ctl, client, ask, uses, rows, boundaries, orders, minted>>
  BY DEF llmVars
<1>2. SeatTyped' /\ SpentRight'
  BY <1>1 DEF SeatInv, SeatTyped, SpentRight
<1>3. BookedOnIt' /\ CountedOnce'
  BY <1>1 DEF SeatInv, BookedOnIt, CountedOnce, RowsOf
<1>4. Poisoned' /\ TurnIsOpen'
  BY <1>1 DEF SeatInv, Poisoned, TurnIsOpen, Llm!MayTakeTurn
<1>5. UnderTheDirective' /\ OrderedRight'
  BY <1>1 DEF SeatInv, UnderTheDirective, OrderedRight
<1> QED BY <1>2, <1>3, <1>4, <1>5 DEF SeatInv

(* Whatever the provider answers and wherever the process is killed: every   *)
(* request is counted once, on the decision it was made for and within its   *)
(* budgets; every order is given in an open turn and under the directive of  *)
(* the boundary it cites; a strategic seat that failed stays failed          *)
(* (LlmPlayer, StrategicController).                                         *)
THEOREM DecisionsAreAlwaysAccounted == MCSpec => DecisionsAreAccounted
<1> DEFINE Step == [MCNext]_<<which, vars, llmVars, capitalVars, expansionVars, scoutVars>>
<1>1. MCInit => SeatInv
  BY SeatInit DEF MCInit
<1>2. SeatInv /\ Step => SeatInv'
  <2> SUFFICES ASSUME SeatInv, Step PROVE SeatInv'
    OBVIOUS
  <2>1. Llm!Next \/ UNCHANGED llmVars
    BY DEF MCNext
  <2> QED BY <2>1, SeatInvKeeps, SeatRests
<1>3. SeatInv /\ Step => [seatPc = "aborted" /\ mode = "strategic" => seatPc' = "aborted"]_(Llm!vars)
  <2> SUFFICES ASSUME SeatInv, Step, seatPc = "aborted", mode = "strategic", ~UNCHANGED Llm!vars
               PROVE  seatPc' = "aborted"
    OBVIOUS
  <2>1. Llm!Next \/ UNCHANGED llmVars
    BY DEF MCNext
  <2>2. ~UNCHANGED llmVars
    BY DEF llmVars, Llm!vars
  <2> QED BY <2>1, <2>2, AbortedStays
<1>4. SeatInv => Llm!CostsAddUp /\ Llm!OrdersHaveAuthority
  BY SeatInvIsEnough
<1> QED BY <1>1, <1>2, <1>3, <1>4, PTL DEF MCSpec, DecisionsAreAccounted, Llm!FailedForGood
=============================================================================
