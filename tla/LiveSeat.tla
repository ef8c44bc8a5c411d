------------------------------ MODULE LiveSeat ------------------------------
(***************************************************************************)
(* One seat of a live match: src/src/civ_arena/game/civ6/firetuner.py      *)
(* drives a running game through scripts that the tuner executes, and      *)
(* src/mods/PuppeteerMod/PuppeteerMod.lua, loaded into the game, keeps a   *)
(* lease on the seat's turn and books what changes under it.  The loop of  *)
(* live_driver.phase_dispatch chooses the turn to play.                    *)
(*                                                                         *)
(* The game, the mod and the link go on while the adapter waits.  A script *)
(* may be lost, or its answer may; a script that read_correlation.py can   *)
(* mark is sent again, ReadTries times, and an order WireTries times more. *)
(* A script that is sent once and whose connection breaks is sent again by *)
(* the connection; all of those but the two dumps do nothing the second    *)
(* time, and the second dump says nothing, which is an answer lost.        *)
(***************************************************************************)
EXTENDS Watchdog, FiniteSetsExt

CONSTANTS
  Unit, Gold,    \* the two fields: the movement of the unit, the treasury
  Allowance,     \* the movement the engine gives the unit each turn
  Price,         \* what a purchase costs
  ReadTries,     \* _ATTEMPTS: how often a marked script is sent
  WireTries,     \* _WIRE_RETRY_MAX: how often act asks for an empty answer
  MaxTurn,       \* bound: the turns of the run
  MaxOrders,     \* bound: orders in a phase
  MaxDrift,      \* bound: changes by the engine under a lease, per phase
  MaxLosses,     \* bound: lost scripts or answers
  MaxHooks       \* bound: how often the engine calls the start hook in a turn

ASSUME FieldsAssumption == Entity = {Unit, Gold} /\ Unit # Gold
ASSUME SizesAssumption == Allowance \in 1 .. Top /\ Price \in 1 .. Top
ASSUME BoundsAssumption ==
  /\ {ReadTries, WireTries, MaxTurn, MaxHooks} \subseteq Nat \ {0}
  /\ {MaxOrders, MaxDrift, MaxLosses} \subseteq Nat

VARIABLES
  game,    \* the engine and the mod inside it
  seat,    \* the driver, the adapter and the referee's ledgers of the phase
  losses   \* scripts and answers lost so far

vars == <<game, seat, losses>>

-----------------------------------------------------------------------------
(* The mod: its lease, the rolling baseline and the two ledgers.           *)

World == [Entity -> Val]

UnitTools == {"move_unit", "attack"}
Tools == UnitTools \cup {"purchase"}

Scope(tool) == IF tool = "purchase" THEN {Gold} ELSE {Unit}

\* What happened under a lease besides the orders that were accepted.
Nothing == [drifts |-> 0, refrozen |-> FALSE, denied |-> FALSE]

Zero == [e \in Entity |-> 0]

\* base is the rolling baseline; grant, the world as the lease found it, and
\* seen are there for the properties.
LeaseOn(turn, world) ==
  [turn |-> turn, base |-> world, restored |-> FALSE, grant |-> world, seen |-> Nothing]

NoLease == LeaseOn(0, Zero)

NoCache == [seq |-> 0, rows |-> NoRows]

(* One row for every field that differs. *)
Drifted(before, after) ==
  [r \in Row |-> IF /\ r.before = before[r.entity]
                    /\ r.after = after[r.entity]
                    /\ r.before # r.after THEN 1 ELSE 0]

Within(rows, fields) ==
  [r \in Row |-> IF r.entity \in fields THEN rows[r] ELSE 0]

Frozen(world) == [world EXCEPT ![Unit] = 0]

\* Mutant: the baseline is taken before the units are frozen.
Acquire_SnapshotFirst(g) ==
  [g EXCEPT !.world = Frozen(@), !.reward = 0, !.granted = g.turn,
            !.lease = LeaseOn(g.turn, g.world)]

(* The units are frozen first: the baseline is the frozen world. *)
Acquire(g) ==
  LET frozen == Frozen(g.world)
  IN  [g EXCEPT !.world = frozen, !.reward = 0, !.granted = g.turn,
                !.lease = LeaseOn(g.turn, frozen)]

\* What the lease saw, added to what earlier leases saw since the last dump.
Sealed(sealed, g) ==
  [change |-> [e \in Entity |-> sealed.change[e] + g.world[e] - g.lease.grant[e]],
   seen |-> [drifts    |-> sealed.seen.drifts + g.lease.seen.drifts,
             refrozen  |-> sealed.seen.refrozen \/ g.lease.seen.refrozen,
             denied    |-> sealed.seen.denied \/ g.lease.seen.denied]]

NothingSealed == [change |-> Zero, seen |-> Nothing]

\* Mutant: the release goes by the player alone.
ReleaseLease_AnyTurn(g, turn) ==
  IF g.lease.turn # 0
  THEN [g EXCEPT !.ledger = AddRows(@, Drifted(g.lease.base, g.world)),
                 !.sealed = Sealed(@, g),
                 !.lease = NoLease, !.cache = NoCache, !.reward = 0]
  ELSE g

(* Release is bound to a turn; what no order covered is booked. *)
ReleaseLease(g, turn) ==
  IF turn # 0 /\ g.lease.turn = turn
  THEN [g EXCEPT !.ledger = AddRows(@, Drifted(g.lease.base, g.world)),
                 !.sealed = Sealed(@, g),
                 !.lease = NoLease, !.cache = NoCache, !.reward = 0]
  ELSE g

\* Mutant: a second call with the same seq computes the rows anew.
DiffSinceLast_NoCache(g, fields, seq) ==
  LET rows == Drifted(g.lease.base, g.world)
      own == Within(rows, fields)
  IN  IF g.lease.turn = 0 THEN [game |-> g, says |-> NoRows]
      ELSE [says |-> own,
            game |-> [g EXCEPT !.lease.base = g.world,
                               !.cache = [seq |-> seq, rows |-> own],
                               !.ledger = AddRows(@, Within(rows, Entity \ fields))]]

(* The rows in the scope of the order are its own, the others are booked.  *)
(* A second call with the same seq gives the same rows again.              *)
DiffSinceLast(g, fields, seq) ==
  IF g.lease.turn = 0 THEN [game |-> g, says |-> NoRows]
  ELSE IF g.cache.seq = seq THEN [game |-> g, says |-> g.cache.rows]
  ELSE LET rows == Drifted(g.lease.base, g.world)
           own == Within(rows, fields)
       IN  [says |-> own,
            game |-> [g EXCEPT !.lease.base = g.world,
                               !.cache = [seq |-> seq, rows |-> own],
                               !.ledger = AddRows(@, Within(rows, Entity \ fields))]]

\* Mutant: the unit is restored before every order.
RestoreUnit_Always(g) ==
  IF g.lease.turn = 0 THEN [game |-> g, says |-> "wrong_lease"]
  ELSE [says |-> "restored",
        game |-> [g EXCEPT !.world[Unit] = Allowance, !.lease.restored = TRUE]]

(* At most once in a lease: a unit never gets its movement back. *)
RestoreUnit(g) ==
  IF g.lease.turn = 0 THEN [game |-> g, says |-> "wrong_lease"]
  ELSE IF g.lease.restored THEN [game |-> g, says |-> "already_restored"]
  ELSE [says |-> "restored",
        game |-> [g EXCEPT !.world[Unit] = Allowance, !.lease.restored = TRUE]]

FreezeUnit(g) ==
  IF g.lease.turn = 0 THEN g
  ELSE [g EXCEPT !.world = Frozen(@),
                 !.lease.seen.refrozen = @ \/ (g.world[Unit] # 0 /\ g.lease.base[Unit] # 0)]

(* The window in which a reward of the move is looked for. *)
BeginReward(g, seq) ==
  IF /\ g.reward \in {0, seq}
     /\ g.cache.seq < seq
     /\ g.lease.turn = g.turn /\ g.stage = "active"
  THEN [game |-> [g EXCEPT !.reward = seq], says |-> "accepted"]
  ELSE [game |-> g, says |-> "rejected"]

\* Only in the window of the same order; elsewhere it is an error.
FinishReward(g, seq) == DiffSinceLast([g EXCEPT !.reward = 0], {Unit}, seq)

CancelReward(g) == [g EXCEPT !.reward = 0]

BeginWindow(g) == [g EXCEPT !.window = g.world, !.windowOpen = TRUE]

EndWindow(g) ==
  IF g.windowOpen
  THEN [g EXCEPT !.ambient = AddRows(@, Drifted(g.window, g.world)),
                 !.window = Zero, !.windowOpen = FALSE]
  ELSE g

DumpAmbient(g) == [game |-> [g EXCEPT !.ambient = NoRows], says |-> g.ambient]

DumpLedger(g) ==
  [says |-> g.ledger,
   game |-> [g EXCEPT !.ledger = NoRows, !.sealed = NothingSealed, !.dumped = g.sealed]]

-----------------------------------------------------------------------------
(* The engine.                                                             *)

(* A unit without movement and a purse without the price refuse an order.  *)
Refuses(g, order) ==
  \/ ~order.legal
  \/ order.tool \in UnitTools /\ g.world[Unit] = 0
  \/ order.tool = "purchase" /\ g.world[Gold] < Price

(* A unit is already there when a move is asked for again; an attack takes *)
(* all the movement that is left.                                          *)
After(g, tool) ==
  CASE tool = "move_unit" ->
         IF g.landed > 0 THEN g.world ELSE [g.world EXCEPT ![Unit] = @ - 1]
    [] tool = "attack" -> Frozen(g.world)
    [] tool = "purchase" -> [g.world EXCEPT ![Gold] = @ - Price]

Carry(g, order) ==
  IF Refuses(g, order)
  THEN [says |-> "rejected",
        game |-> [g EXCEPT !.lease.seen.denied = @ \/ g.landed > 0]]
  ELSE LET world == After(g, order.tool)
       IN  [says |-> "accepted",
            game |-> [g EXCEPT !.world = world,
                               !.landed = IF world # g.world THEN @ + 1 ELSE @,
                               !.spent = @ + (g.world[Unit] - world[Unit])]]

(* The request ends the turn that is being played, whichever it is. *)
RequestEndTurn(g) ==
  IF g.stage = "active"
  THEN [g EXCEPT !.stage = "ending", !.ends = @ + 1, !.overrun = @ \/ g.ends > 0]
  ELSE g

(* PlayerTurnStartComplete: late, or more than once in a turn. *)
StartHook ==
  /\ game.stage = "active" /\ game.hooks > 0
  /\ LET g == [game EXCEPT !.hooks = @ - 1]
     IN  game' = IF g.puppet /\ g.lease.turn # g.turn THEN Acquire(g) ELSE g
  /\ UNCHANGED <<seat, losses>>

(* PlayerTurnDeactivated: a lease that still stands is released. *)
Deactivate ==
  /\ game.stage = "ending"
  /\ LET g == [game EXCEPT !.stage = "over", !.hooks = 0, !.deact = game.turn]
     IN  game' = IF g.puppet THEN ReleaseLease(g, g.turn) ELSE g
  /\ UNCHANGED <<seat, losses>>

\* The trace notes the end of every player's turn, and the last one ends here.
NextTurn ==
  /\ game.stage = "over" /\ game.turn <= MaxTurn
  /\ \E hooks \in 1 .. MaxHooks :
       game' = [game EXCEPT !.turn = @ + 1, !.stage = "active", !.hooks = hooks,
                            !.deact = game.turn,
                            !.world[Unit] = Allowance, !.spent = 0]
  /\ UNCHANGED <<seat, losses>>

(* The engine changes the treasury under the lease. *)
Drift ==
  /\ game.lease.turn # 0 /\ game.lease.seen.drifts < MaxDrift
  /\ \E gold \in Val \ {game.world[Gold]} :
       game' = [game EXCEPT !.world[Gold] = gold, !.lease.seen.drifts = @ + 1]
  /\ UNCHANGED <<seat, losses>>

-----------------------------------------------------------------------------
(* The link: a script that is carried out and answered, or not carried out *)
(* or not answered.  Then is what the seat does with the answer, lost what *)
(* it does once the script has been sent limit times.                      *)

Call(result, Then(_), lost, limit) ==
  \/ /\ game' = result.game
     /\ seat' = [Then(result.says) EXCEPT !.tries = 0]
     /\ UNCHANGED losses
  \/ /\ losses < MaxLosses
     /\ losses' = losses + 1
     /\ game' \in {game, result.game}
     /\ seat' = IF seat.tries + 1 < limit
                THEN [seat EXCEPT !.tries = @ + 1]
                ELSE [lost EXCEPT !.tries = 0]

Answer(g, says) == [game |-> g, says |-> says]

\* A script whose answer nobody reads.
Tell(g, next, limit) ==
  LET Told(says) == next
  IN  Call(Answer(g, "done"), Told, next, limit)

Once == 1

Goes(pc) == [seat EXCEPT !.pc = pc]

NoOrder == [tool |-> "none", legal |-> FALSE]

NextOrder == [seat EXCEPT !.pc = "open", !.order = NoOrder]

\* An exception in act: what the unit or the reward window holds is undone,
\* then the run is over.
Raises == [seat EXCEPT !.fatal = TRUE,
                       !.pc = IF seat.order.tool = "move_unit" THEN "cancel"
                              ELSE IF seat.order.tool = "attack" THEN "refreeze"
                              ELSE "dead"]

-----------------------------------------------------------------------------
(* The driver's loop: which turn to play, and the wait for its lease.      *)

Status(g) == [turn |-> g.turn, active |-> g.stage # "over", lease |-> g.lease.turn]

NoStatus == [turn |-> 0, active |-> FALSE, lease |-> 0]

\* The puppet is armed before the first turn, and again by every begin_phase.
Arm ==
  /\ seat.pc \in {"attach", "arm"}
  /\ Tell([game EXCEPT !.puppet = TRUE],
          Goes(IF seat.pc = "attach" THEN "poll" ELSE "await"), Once)

Unclear(status) == status.active /\ status.lease = 0

Poll ==
  LET Polled(says) ==
        [seat EXCEPT !.status = says,
                     !.pc = IF Unclear(says) THEN "settle" ELSE "aim"]
  IN  /\ seat.pc = "poll"
      /\ Call(Answer(game, Status(game)), Polled, Polled(NoStatus), ReadTries)

\* A hook that is still to come is there within the time the driver gives it.
Settle ==
  LET Settled(says) == [seat EXCEPT !.status = says, !.pc = "aim"]
  IN  /\ seat.pc = "settle"
      /\ game.lease.turn # 0 \/ game.hooks = 0 \/ ~game.puppet
      /\ Call(Answer(game, Status(game)), Settled, Settled(NoStatus), ReadTries)

\* Mutant: an engaged lease is not preferred.
TargetTurn_NoLease(status, last, deact) ==
  IF status.turn = 0 THEN 0
  ELSE IF \/ status.active
          \/ status.turn = last
          \/ deact = status.turn THEN status.turn + 1
  ELSE status.turn

(* 0 stands for the turn -1 that no lease is ever on. *)
TargetTurn(status, last, deact) ==
  IF status.lease # 0 THEN status.lease
  ELSE IF status.turn = 0 THEN 0
  ELSE IF \/ status.active
          \/ status.turn = last
          \/ deact = status.turn THEN status.turn + 1
  ELSE status.turn

\* The status is that of an earlier poll; the trace is read now.
Aim ==
  LET Aimed(says) ==
        [seat EXCEPT !.pc = "arm", !.status = NoStatus,
                     !.target = TargetTurn(seat.status, seat.last, says)]
  IN  /\ seat.pc = "aim"
      /\ Call(Answer(game, game.deact), Aimed, Aimed(0), ReadTries)

Engage ==
  /\ seat.pc = "await" /\ game.lease.turn # 0 /\ game.lease.turn = seat.target
  /\ seat' = [seat EXCEPT !.pc = "window", !.retried = FALSE]
  /\ UNCHANGED <<game, losses>>

\* The waits are long: when one ends the game has come to rest.
AtRest == \/ game.stage = "active" /\ (game.hooks = 0 \/ ~game.puppet)
          \/ game.stage = "over" /\ game.turn > MaxTurn

HasLeft == game.lease.turn = 0 \/ game.turn > seat.target

\* Once, the driver tries to get the game going again.
Timeout ==
  /\ AtRest
  /\ \/ seat.pc = "await" /\ (game.lease.turn = 0 \/ game.lease.turn # seat.target)
     \/ seat.pc = "leave" /\ ~HasLeft
  /\ seat' = IF seat.pc = "await" /\ ~seat.retried
             THEN [seat EXCEPT !.retried = TRUE, !.pc = "recover"]
             ELSE Goes("dead")
  /\ UNCHANGED <<game, losses>>

\* A parked turn is ended; otherwise popups are dismissed.
Recover ==
  /\ seat.pc = "recover"
  /\ IF game.lease.turn = 0 /\ game.stage = "active" /\ game.turn = seat.target - 1
     THEN seat' = Goes("unpark") /\ game' = [game EXCEPT !.ends = 0]
     ELSE seat' = Goes("arm") /\ UNCHANGED game
  /\ UNCHANGED losses

Unpark ==
  /\ seat.pc = "unpark"
  /\ Tell(RequestEndTurn(game), Goes("arm"), ReadTries)

-----------------------------------------------------------------------------
(* begin_phase, once the lease is there.                                   *)

OpenWindow ==
  /\ seat.pc = "window"
  /\ Tell(BeginWindow(game), Goes("unwindow"), Once)

CloseWindow ==
  /\ seat.pc = "unwindow"
  /\ Tell(EndWindow(game), Goes("manifest"), Once)

\* The referee opens its ledgers with the manifest; the phase is open.
Fields(rows) == {e \in Entity : \E r \in Row : r.entity = e /\ rows[r] > 0}

Manifest ==
  LET Declared(rows) ==
        [seat EXCEPT !.pc = "opening", !.open = TRUE,
                     !.allowed = rows, !.covered = Fields(rows)]
  IN  /\ seat.pc = "manifest"
      /\ Call(DumpAmbient(game), Declared, Declared(NoRows), Once)

\* The driver's digest of the board at the start of the turn.
OpenDigest ==
  /\ seat.pc = "opening"
  /\ seat' = [seat EXCEPT !.pc = "open", !.digest = game.world]
  /\ UNCHANGED <<game, losses>>

-----------------------------------------------------------------------------
(* act: one order, from the restore of its unit to its rows.               *)

\* The referee passes an order on; whether the rules of the game allow it is
\* for the engine to say.
Order ==
  /\ seat.pc = "open" /\ seat.seq < MaxOrders
  /\ \E tool \in Tools, legal \in BOOLEAN :
       seat' = [seat EXCEPT !.order = [tool |-> tool, legal |-> legal],
                            !.seq = @ + 1,
                            !.pc = IF tool = "move_unit" THEN "reward"
                                   ELSE IF tool = "attack" THEN "restore" ELSE "order"]
  /\ game' = [game EXCEPT !.landed = 0]
  /\ UNCHANGED losses

Reward ==
  LET Begun(says) == IF says = "accepted" THEN Goes("restore") ELSE Raises
  IN  /\ seat.pc = "reward"
      /\ Call(BeginReward(game, seat.seq), Begun, Raises, Once)

Restore ==
  LET Restored(says) ==
        IF says \in {"restored", "already_restored"} THEN Goes("order") ELSE Raises
  IN  /\ seat.pc = "restore"
      /\ Call(RestoreUnit(game), Restored, Raises, ReadTries)

\* A rejected unit order freezes the unit again.
Send ==
  LET Carried(says) ==
        CASE says = "accepted" -> Goes("diff")
          [] says = "rejected" ->
               IF seat.order.tool \in UnitTools THEN Goes("refreeze") ELSE NextOrder
  IN  /\ seat.pc = "order"
      /\ Call(Carry(game, seat.order), Carried, Raises, ReadTries * WireTries)

\* The rows are booked on both sides; a diff that is lost books none.
Book(rows) == [NextOrder EXCEPT !.journal = AddRows(@, rows),
                                !.allowed = AddRows(@, rows),
                                !.mutated = @ \/ rows # NoRows,
                                !.covered = @ \cup Scope(seat.order.tool)]

Drain ==
  /\ seat.pc = "diff" /\ seat.order.tool # "move_unit"
  /\ Call(DiffSinceLast(game, Scope(seat.order.tool), seat.seq), Book,
          [Book(NoRows) EXCEPT !.missing = TRUE], ReadTries)

DrainReward ==
  /\ seat.pc = "diff" /\ seat.order.tool = "move_unit"
  /\ IF game.reward = seat.seq
     THEN Call(FinishReward(game, seat.seq), Book, Goes("dead"), Once)
     ELSE seat' = Goes("dead") /\ UNCHANGED <<game, losses>>

Refreeze ==
  LET Frosted(says) ==
        IF seat.fatal THEN Goes("dead")
        ELSE IF seat.order.tool = "move_unit" THEN Goes("cancel") ELSE NextOrder
  IN  /\ seat.pc = "refreeze"
      /\ Call(Answer(FreezeUnit(game), "FROZEN"), Frosted,
              [Frosted("lost") EXCEPT !.loose = TRUE], Once)

Cancel ==
  /\ seat.pc = "cancel"
  /\ Tell(CancelReward(game), IF seat.fatal THEN Goes("refreeze") ELSE NextOrder, Once)

\* The digest at the start, after an order or at the end has no answer.
DigestLost ==
  /\ seat.pc \in {"opening", "open", "diff"}
  /\ losses + ReadTries * WireTries <= MaxLosses
  /\ losses' = losses + ReadTries * WireTries
  /\ seat' = Goes("dead")
  /\ UNCHANGED game

-----------------------------------------------------------------------------
(* end_phase, the sweep, and the end of the run.                           *)

\* The digest is sealed before the turn is ended.
EndPhase ==
  /\ seat.pc = "open"
  /\ seat' = [seat EXCEPT !.pc = "end", !.changed = game.world # seat.digest, !.digest = Zero]
  /\ game' = [game EXCEPT !.ends = 0]
  /\ UNCHANGED losses

SendEndTurn ==
  /\ seat.pc = "end"
  /\ Tell(RequestEndTurn(game), Goes("leave"), ReadTries)

Leave ==
  /\ seat.pc = "leave" /\ HasLeft
  /\ seat' = Goes("release")
  /\ UNCHANGED <<game, losses>>

Release ==
  /\ seat.pc = "release"
  /\ Tell(ReleaseLease(game, seat.target), Goes("dump"), Once)

Dump ==
  LET Dumped(rows) ==
        [seat EXCEPT !.pc = "closed", !.open = FALSE, !.journal = AddRows(@, rows)]
  IN  /\ seat.pc = "dump"
      /\ Call(DumpLedger(game), Dumped, [Dumped(NoRows) EXCEPT !.missing = TRUE], Once)

Flagged == Excess(seat.journal, seat.allowed) # NoRows

\* The board changed though the orders changed nothing.
Unexpected == seat.changed /\ ~seat.mutated

\* A violation or an unexpected change stops the run, and so does its last turn.
Sweep ==
  /\ seat.pc = "closed"
  /\ seat' = [seat EXCEPT !.last = seat.target, !.seq = 0, !.loose = FALSE,
                          !.mutated = FALSE, !.changed = FALSE,
                          !.journal = NoRows, !.allowed = NoRows, !.covered = {},
                          !.pc = IF Flagged \/ Unexpected THEN "anomaly"
                                 ELSE IF seat.target >= MaxTurn THEN "done"
                                 ELSE "poll"]
  /\ UNCHANGED <<game, losses>>

\* A run that fails in an open phase releases the lease of its turn.
Teardown ==
  /\ seat.pc = "dead"
  /\ Tell(IF seat.open THEN ReleaseLease(game, seat.target) ELSE game,
          Goes("stopped"), Once)

-----------------------------------------------------------------------------

\* The seat's turn is parked, its hook past or still to come, or the others
\* play; a mod loaded before has the end of the turn in its trace.
Init ==
  /\ \E stage \in {"active", "over"}, hooks \in 0 .. 1, traced \in BOOLEAN :
       /\ stage = "over" => hooks = 0
       /\ traced => stage = "over"
       /\ game = [turn |-> 1, stage |-> stage, hooks |-> hooks,
                  deact |-> IF traced THEN 1 ELSE 0,
                  world |-> [e \in Entity |-> IF e = Unit THEN Allowance ELSE Top],
                  puppet |-> FALSE, lease |-> NoLease, cache |-> NoCache,
                  ledger |-> NoRows, ambient |-> NoRows,
                  window |-> Zero, windowOpen |-> FALSE, reward |-> 0,
                  granted |-> 0, landed |-> 0, spent |-> 0, ends |-> 0, overrun |-> FALSE,
                  sealed |-> NothingSealed, dumped |-> NothingSealed]
  /\ seat = [pc |-> "attach", status |-> NoStatus, target |-> 0, last |-> 0,
             retried |-> FALSE, tries |-> 0, open |-> FALSE, seq |-> 0,
             order |-> NoOrder, fatal |-> FALSE,
             journal |-> NoRows, allowed |-> NoRows, covered |-> {},
             digest |-> Zero, changed |-> FALSE, mutated |-> FALSE,
             missing |-> FALSE, loose |-> FALSE]
  /\ losses = 0

Engine == StartHook \/ Deactivate \/ NextTurn

Driver ==
  \/ Arm \/ Poll \/ Settle \/ Aim \/ Engage \/ Timeout \/ Recover \/ Unpark
  \/ OpenWindow \/ CloseWindow \/ Manifest \/ OpenDigest
  \/ Order \/ Reward \/ Restore \/ Send \/ Drain \/ DrainReward \/ Refreeze \/ Cancel
  \/ EndPhase \/ SendEndTurn \/ Leave \/ Release \/ Dump \/ Sweep \/ Teardown

Next == Engine \/ Driver \/ Drift \/ DigestLost

Spec == Init /\ [][Next]_vars

\* The engine calls its hooks and goes on with the next turn, and the driver
\* is a loop that never stops of its own accord.
FairSpec == Spec /\ WF_vars(Engine) /\ WF_vars(Driver)

-----------------------------------------------------------------------------
(* Properties.                                                             *)

Lease == [turn : Nat, base : World, restored : BOOLEAN, grant : World,
          seen : [drifts : Nat, refrozen : BOOLEAN, denied : BOOLEAN]]

(* Every field holds what the code can put there; a unit and a purse never  *)
(* go below zero or above what the engine gives.                            *)
TypeOK ==
  /\ game.turn \in 1 .. MaxTurn + 1 /\ game.stage \in {"active", "ending", "over"}
  /\ game.world \in World /\ game.lease \in Lease
  /\ game.hooks \in 0 .. MaxHooks /\ game.puppet \in BOOLEAN
  /\ {game.ledger, game.ambient, game.cache.rows} \subseteq [Row -> 0 .. MaxTurn + MaxOrders]
  /\ {game.reward, game.cache.seq, seat.seq} \subseteq 0 .. MaxOrders
  /\ seat.order \in [tool : Tools, legal : BOOLEAN] \cup {NoOrder}
  /\ seat.tries \in 0 .. ReadTries * WireTries - 1 /\ losses \in 0 .. MaxLosses
  /\ seat.target \in 0 .. MaxTurn + 2 /\ seat.covered \subseteq Entity

\* How a ledger moves a field.
Change(rows, e) ==
  MapThenSumSet(LAMBDA r : rows[r] * (r.after - r.before), {r \in Row : r.entity = e})

\* The ledgers of a phase that is about to be swept: no dump or diff was lost
\* for good, and no request to end a turn has ended the next one too.
Swept == seat.pc = "closed" /\ ~seat.missing /\ ~game.overrun

(* The rows of a phase, those of the orders and those of the release, add   *)
(* up to what became of every field between the freeze and the release: a   *)
(* diff that is asked for again, an order that is sent again and a row out  *)
(* of scope are each booked once.                                           *)
JournalAddsUp ==
  Swept => \A e \in Entity : Change(seat.journal, e) = game.dumped.change[e]

(* A field that no order of the phase could write and no ambient row names  *)
(* does not change without an UNAUTHORIZED_ACTION: the engine's drift never *)
(* rides on the authorization of an order.                                  *)
UncoveredDriftIsFlagged ==
  Swept =>
    \A e \in Entity \ seat.covered :
      game.dumped.change[e] # 0 =>
        "UNAUTHORIZED_ACTION" \in ViolationKinds(seat.journal, seat.allowed)

(* The journal of a phase accounts for every change in it, and for whose it *)
(* was.                                                                      *)
JournalIsTrue == JournalAddsUp /\ UncoveredDriftIsFlagged

(* A phase in which the engine changed nothing of its own, no order was     *)
(* rejected after it had landed or after its unit had moved, and no freeze  *)
(* was lost, is clean: the lease's own freeze and restores are no drift.    *)
OnlyFlagsWhatHappened ==
  Swept /\ ~seat.loose /\ game.dumped.seen = Nothing => ~Flagged /\ ~Unexpected

(* However often a restore is sent, and however late or often the start     *)
(* hook comes, a unit spends no more than one allowance in a turn.          *)
AllowanceOncePerTurn == ~game.overrun => game.spent <= Allowance

(* The lease of the turn that is being played stands until the turn ends: a *)
(* release that arrives late, for the turn before, leaves it alone.         *)
LeaseStands ==
  game.stage = "active" /\ game.granted = game.turn /\ seat.pc # "stopped" =>
    game.lease.turn = game.turn

\* The seat attaches during its own turn, or the trace holds its end.
TurnKnown == game.stage = "over" => game.deact = game.turn

\* The run ends by a sweep, not by a wait that times out.
RunSettles == <>(seat.pc \in {"done", "anomaly"})

(* If nothing is lost, the driver finds the lease of every turn it aims at, *)
(* whenever it attaches and however the hook races its polls.               *)
EveryTurnIsDriven == TurnKnown /\ [](losses = 0) => RunSettles

(* A rejected order books nothing: without drift the phase is clean.        *)
RejectedBooksNothing ==
  Swept /\ ~seat.loose /\ game.dumped.seen.drifts = 0 /\ ~game.dumped.seen.denied => ~Flagged

=============================================================================
