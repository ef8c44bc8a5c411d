------------------------------ MODULE Hotseat ------------------------------
(***************************************************************************)
(* Two driven seats that take turns at one running game:                   *)
(* phase_dispatch_hotseat of game/civ6/live_driver.py, with its ledger of  *)
(* completed turns and its recovery episode, the seat handoff of           *)
(* human_handoff.py, and the leases of PuppeteerMod.lua.                   *)
(*                                                                         *)
(* The engine moves by itself: a seat's turn starts when the engine gets   *)
(* there, a popup may hold it up, and a seat that is not the local one may *)
(* be passed over.  The driver sees it only through polls.                 *)
(***************************************************************************)
EXTENDS Naturals, Sequences, FiniteSets

CONSTANTS
  Rounds,      \* rounds to play
  SweepLimit,  \* HotseatLimits.sweeps
  MaxTurn,     \* bound: engine turns
  MaxPopups,   \* bound: popups that hold up the start of one seat's turn
  MaxFaults    \* bound: turns that end unasked, slots lost, idle sweeps

Seat   == {0, 1}            \* CompletedTurns.order
Other(s) == 1 - s
NoSeat == 2
None   == [player |-> NoSeat, turn |-> 0]
Id(p, t) == [player |-> p, turn |-> t]

VARIABLES
  engine,   \* [turn, active, next, local, human, ending, popup, popups]
  lease,    \* the mod's lease
  used,     \* PUPPETEER_INITIAL_ATTACH_USED
  armed,    \* PUPPET_PLAYERS
  pc,       \* where the driver is
  target,   \* the seat turn it drives
  status,   \* the last poll
  rows,     \* CompletedTurns.rows
  sweeps,   \* RecoveryEpisode.attempts
  ended,    \* history: the seat turns the engine has ended
  asked,    \* history: the seat turns the driver asked the engine to end
  faults

vars == <<engine, lease, used, armed, pc, target, status, rows, sweeps, ended,
          asked, faults>>
engineVars == <<engine, lease, ended>>
driverVars == <<pc, target, status, rows, sweeps, asked, armed>>

Active == engine.active # NoSeat
Current == Id(engine.active, engine.turn)

-----------------------------------------------------------------------------
(* The mod *)
Covers(p) == lease = Id(p, engine.turn)

\* OnPlayerTurnStartComplete: a second hook of the same turn, or one that
\* follows an explicit attachment, does not freeze again.
HookAcquires(p) == p \in armed /\ ~Covers(p) /\ ~(engine.turn = 1 /\ p \in used)

\* release_lease: bound to the seat and, unless the caller says -1, its turn.
Released(id) == IF lease = id THEN None ELSE lease

-----------------------------------------------------------------------------
(* The engine *)
Fault == faults < MaxFaults /\ faults' = faults + 1

SeatStarts ==
  /\ ~Active /\ ~engine.popup
  /\ LET p == engine.next IN
       /\ engine' = [engine EXCEPT !.active = p, !.popups = 0]
       /\ lease' = IF HookAcquires(p) THEN Id(p, engine.turn) ELSE lease
       /\ used' = IF HookAcquires(p) /\ engine.turn = 1 THEN used \cup {p} ELSE used
  /\ UNCHANGED <<driverVars, ended, faults>>

SeatLeaves ==
  /\ ended' = Append(ended, Current)
  /\ lease' = IF engine.active \in armed THEN Released(Current) ELSE lease
  /\ engine' = [engine EXCEPT !.active = NoSeat, !.ending = FALSE,
                  !.next = Other(engine.active),
                  !.turn = IF engine.active = 1 THEN @ + 1 ELSE @]

SeatEnds ==
  /\ Active /\ engine.ending /\ engine.turn < MaxTurn
  /\ SeatLeaves
  /\ UNCHANGED <<driverVars, used, faults>>

\* A seat's turn may end without being asked: one that is not the local
\* player's is passed over, a desktop input or the engine ends another.
SeatPassed ==
  /\ Active /\ ~engine.ending /\ engine.turn < MaxTurn
  /\ Fault
  /\ SeatLeaves
  /\ UNCHANGED <<driverVars, used>>

PopupOpens ==
  /\ ~Active /\ ~engine.popup /\ engine.popups < MaxPopups
  /\ engine' = [engine EXCEPT !.popup = TRUE, !.popups = @ + 1]
  /\ UNCHANGED <<driverVars, lease, used, ended, faults>>

\* A handoff of the local player may leave the other seat's slot not human.
SlotLost ==
  /\ \E s \in engine.human : s # engine.local /\ engine' = [engine EXCEPT !.human = @ \ {s}]
  /\ Fault
  /\ UNCHANGED <<driverVars, lease, used, ended>>

-----------------------------------------------------------------------------
(* CompletedTurns *)
FirstTurn == rows[1].turn
ExpectedPlayer == Len(rows) % 2
InOrder(id) ==
  /\ id.player = ExpectedPlayer
  /\ rows # <<>> => id.turn = FirstTurn + Len(rows) \div 2
CompletedRounds == Len(rows) \div 2
LastRow == IF rows = <<>> THEN None ELSE rows[Len(rows)]

-----------------------------------------------------------------------------
(* The driver; a failure at any point disconnects and sends nothing more.  *)
Fail == pc' = "failed"
Abort == Fail /\ faults' = faults + 1
Running == pc \notin {"done", "failed"}

\* Setup: both seats armed, then an already running first turn is attached.
Arm ==
  /\ pc = "arm"
  /\ armed' = Seat
  /\ pc' = "attach"
  /\ UNCHANGED <<engineVars, used, target, status, rows, sweeps, asked, faults>>

\* AttachCurrentTurn, every guard before the first change.
Attachable(p) ==
  /\ engine.turn = 1 /\ engine.local = p /\ p \in armed /\ p \in engine.human
  /\ engine.active = p /\ lease = None /\ p \notin used

\* Status reports the turn of the local player.
TurnActive == engine.local = engine.active

\* _attach_initial_hotseat_turn: one attempt, and only of an active turn 1.
Attach ==
  /\ pc = "attach"
  /\ \/ /\ lease # None \/ ~TurnActive
        /\ pc' = "engage"
        /\ UNCHANGED <<lease, used, faults>>
     \/ /\ lease = None /\ Attachable(0)
        /\ lease' = Id(0, engine.turn)
        /\ used' = used \cup {0}
        /\ \/ pc' = "engage" /\ UNCHANGED faults
           \/ Abort
     \/ /\ lease = None /\ TurnActive /\ ~Attachable(0)
        /\ Fail
        /\ UNCHANGED <<lease, used, faults>>
  /\ UNCHANGED <<engine, ended, target, status, rows, sweeps, asked, armed>>

\* _target_turn for the first seat, with no turn driven yet.
TargetTurn(p) ==
  IF lease.player = p THEN lease.turn
  ELSE IF TurnActive \/ (ended # <<>> /\ ended[Len(ended)].turn = engine.turn)
       THEN engine.turn + 1 ELSE engine.turn

\* engage: poll; a pending release of the last seat is a stall, any other
\* seat turn out of order aborts the match.
Stalls(id) == id = LastRow
Probe ==
  /\ pc = "engage"
  /\ LET id == IF lease # None THEN lease ELSE Id(0, TargetTurn(0)) IN
       \/ /\ lease # None /\ ~Stalls(id) /\ ~InOrder(id)
          /\ Fail
          /\ UNCHANGED target
       \/ /\ \/ lease # None /\ ~Stalls(id) /\ InOrder(id)
             \/ lease = None /\ rows = <<>>
          /\ target' = id
          /\ pc' = "begin"
       \/ /\ IF lease = None THEN rows # <<>> ELSE Stalls(id)
          /\ pc' = "sweep"
          /\ UNCHANGED target
  /\ status' = lease
  /\ UNCHANGED <<engineVars, used, armed, rows, sweeps, asked, faults>>

\* begin_phase polls for this very lease for five seconds.
BeginPhase ==
  /\ pc = "begin"
  /\ \/ /\ lease = target
        /\ pc' = "activate" /\ sweeps' = 0
     \/ /\ lease # target
        /\ pc' = "sweep" /\ UNCHANGED sweeps
  /\ UNCHANGED <<engineVars, used, armed, target, status, rows, asked, faults>>

\* RecoveryEpisode.sweep: inputs until the first observed progress.  They
\* close the popup or do nothing, or a key ends the turn of the local seat
\* that has become active since the last poll.
Sweeping == pc \in {"sweep", "waitsweep"}
Back == pc' = IF pc = "sweep" THEN "engage" ELSE "wait"
SweepDue == Sweeping /\ sweeps < SweepLimit
sweepVars == <<used, armed, target, status, rows, asked>>

NoSweepYet ==
  /\ Sweeping /\ Back
  /\ UNCHANGED <<engineVars, sweepVars, sweeps, faults>>

\* A sweep with nothing in the way: the engine is slow.
SweepInput ==
  /\ SweepDue /\ sweeps' = sweeps + 1 /\ Back
  /\ engine' = [engine EXCEPT !.popup = FALSE]
  /\ IF engine.popup THEN UNCHANGED faults ELSE Fault
  /\ UNCHANGED <<lease, ended, sweepVars>>

SweepEndsTurn ==
  /\ SweepDue /\ sweeps' = sweeps + 1 /\ Back
  /\ engine.local = engine.active /\ ~engine.ending /\ engine.turn < MaxTurn
  /\ lease # status
  /\ Fault /\ SeatLeaves
  /\ UNCHANGED sweepVars

SweepsExhausted ==
  /\ Sweeping /\ ~SweepDue /\ Fail
  /\ UNCHANGED <<engineVars, sweepVars, sweeps, faults>>

Sweep == NoSweepYet \/ SweepInput \/ SweepEndsTurn \/ SweepsExhausted

-----------------------------------------------------------------------------
(* human_handoff: scripts whose assertions all precede their first change. *)
OnTurn == Current = target
OthersRest == engine.active \in {NoSeat, target.player}
AllHuman == engine.human = Seat
Holds == lease = target

ActivateGuards == OnTurn /\ Holds /\ AllHuman /\ OthersRest
ReflagGuards == OnTurn /\ engine.local = target.player /\ target.player \in engine.human
VerifyGuards == ActivateGuards /\ engine.local = target.player
EndGuards == OnTurn /\ engine.local = target.player /\ AllHuman /\ OthersRest

\* A lost answer to a mutating operation is ambiguous and ends the match.
Answered(next) == \/ pc' = next /\ UNCHANGED faults
                  \/ Abort

Activate ==
  /\ pc = "activate"
  /\ \/ /\ ActivateGuards
        /\ engine' = [engine EXCEPT !.local = target.player]
        /\ Answered("reflag")
     \/ /\ ~ActivateGuards
        /\ Fail
        /\ UNCHANGED <<engine, faults>>
  /\ UNCHANGED <<lease, ended, used, armed, target, status, rows, sweeps, asked>>

Reflag ==
  /\ pc = "reflag"
  /\ \/ /\ ReflagGuards
        /\ engine' = [engine EXCEPT !.human = Seat]
        /\ Answered("verify")
     \/ /\ ~ReflagGuards
        /\ Fail
        /\ UNCHANGED <<engine, faults>>
  /\ UNCHANGED <<lease, ended, used, armed, target, status, rows, sweeps, asked>>

Verify ==
  /\ \/ pc = "verify"    /\ VerifyGuards /\ Answered("play")
     \/ pc = "endverify" /\ VerifyGuards /\ Answered("end")
     \/ pc \in {"verify", "endverify"} /\ ~VerifyGuards /\ Fail /\ UNCHANGED faults
  /\ UNCHANGED <<engineVars, used, armed, target, status, rows, sweeps, asked>>

\* The agent plays and ends its turn: what it does is another module's.
TakeTurn ==
  /\ pc = "play"
  /\ pc' = "endverify"
  /\ UNCHANGED <<engineVars, used, armed, target, status, rows, sweeps, asked, faults>>

\* ACTION_ENDTURN ends the turn of whoever is active and local by then.
RequestEnd ==
  /\ pc = "end"
  /\ \/ /\ EndGuards
        /\ engine' = [engine EXCEPT !.ending = (engine.local = engine.active)]
        /\ asked' = Append(asked, Current)
        /\ Answered("wait")
     \/ /\ ~EndGuards
        /\ Fail
        /\ UNCHANGED <<engine, asked, faults>>
  /\ UNCHANGED <<lease, ended, used, armed, target, status, rows, sweeps>>

WaitRelease_NoWait ==  \* mutant
  /\ pc = "wait"
  /\ pc' = "release"
  /\ UNCHANGED <<engineVars, used, armed, target, status, rows, sweeps, asked, faults>>

\* wait_release: until the lease is gone or another's.
WaitRelease ==
  /\ pc = "wait"
  /\ \/ lease # target /\ pc' = "release"
     \/ lease = target /\ pc' = "waitsweep"
  /\ status' = lease
  /\ UNCHANGED <<engineVars, used, armed, target, rows, sweeps, asked, faults>>

\* end_phase releases what it held, and the completed turn is accounted for.
Complete ==
  /\ pc = "release"
  /\ lease' = Released(target)
  /\ \/ /\ InOrder(target)
        /\ rows' = Append(rows, target)
        /\ pc' = IF Len(rows) + 1 >= 2 * Rounds THEN "done" ELSE "engage"
     \/ /\ ~InOrder(target)
        /\ Fail
        /\ UNCHANGED rows
  /\ UNCHANGED <<engine, ended, used, armed, target, status, sweeps, asked, faults>>

\* The startup, turn, recovery and match deadlines, and a dead connection.
Deadline ==
  /\ Running /\ Abort
  /\ UNCHANGED <<engineVars, used, armed, target, status, rows, sweeps, asked>>

-----------------------------------------------------------------------------
\* A fresh hotseat game: the first seat is local, its first turn may be running.
Init ==
  /\ \E on \in BOOLEAN :
       engine = [turn |-> 1, active |-> IF on THEN 0 ELSE NoSeat, next |-> 0,
                 local |-> 0, human |-> Seat, ending |-> FALSE, popup |-> FALSE,
                 popups |-> 0]
  /\ lease = None /\ used = {} /\ armed = {}
  /\ pc = "arm" /\ target = None /\ status = None
  /\ rows = <<>> /\ sweeps = 0
  /\ ended = <<>> /\ asked = <<>>
  /\ faults = 0

Engine == SeatStarts \/ SeatEnds
Driver ==
  \/ Arm \/ Attach \/ Probe \/ BeginPhase \/ Sweep
  \/ Activate \/ Reflag \/ Verify \/ TakeTurn \/ RequestEnd
  \/ WaitRelease \/ Complete
Next == Engine \/ SeatPassed \/ PopupOpens \/ SlotLost \/ Driver \/ Deadline

Spec == Init /\ [][Next]_vars

\* The driver's loops never block for good, and a sweep that is due comes;
\* the engine starts the next seat and ends the one that asked, unless a popup
\* is in the way.
FairSpec == Spec /\ WF_vars(Driver) /\ WF_vars(Engine) /\ SF_vars(SweepInput \/ SweepsExhausted)

-----------------------------------------------------------------------------
\* The ledger is what happened: the completed turns are consecutive seat turns
\* of the engine, each ended by the engine before it was counted, and no seat
\* turn between the first and the last was passed over (CompletedTurns,
\* wait_release).
Consecutive(i) == \A k \in DOMAIN rows : i + k \in DOMAIN ended /\ ended[i + k] = rows[k]
LedgerIsWhatHappened == \E i \in 0..Len(ended) : Consecutive(i)

\* The engine is asked to end each seat turn at most once, only while that
\* turn is the one being driven; what a request asks for is the turn whose
\* release the driver then waits for (end_current, end_phase).
EndsOnlyItsOwn ==
  /\ \A i, j \in DOMAIN asked : asked[i] = asked[j] => i = j
  /\ pc \in {"wait", "waitsweep"} => asked[Len(asked)] = target

\* Popups that hold up the start of a seat's turn do not stop the match, however
\* many turns they hold up: as long as no answer is lost, no turn ends unasked
\* and no deadline is reached, all rounds are played (RecoveryEpisode, wait_release, engage).
PlaysOn == [](faults = 0) => <>(pc = "done")
=============================================================================
