----------------------------- MODULE MCLiveSeat -----------------------------
(* For TLC: a live seat with one unit, one treasury and what the engine and *)
(* the link do to it in one of two mixes; the popups that hold up the       *)
(* match; and how the match is brought up.  They share no state, so a       *)
(* behaviour belongs to one of them and the others rest in an initial state.*)
EXTENDS LiveSeat

CONSTANTS
  moves, gold,
  None, MaxDialogs, MaxChecks, MaxFaults   \* of Popups

\* None is not a close on the wire.
ASSUME PopupAssumption ==
  None \notin [check : Nat, context : {"notice"}, left : 0..2,
               rows : SUBSET {"again", "no_target", "visible", "hidden"}]

VARIABLES
  which,
  load,    \* the bounds of a seat's behaviour
  queue, conn, frame, stage, lock, at, saw, script, receipt, pending, attempts, keys,
  checks, dialogs, faults, pressed, results,
  opts, pc, code, host, saves, kept, rewrote, record, driver

popupVars == <<queue, conn, frame, stage, lock, at, saw, script, receipt, pending, attempts,
               keys, checks, dialogs, faults, pressed, results>>
startVars == <<opts, pc, code, host, saves, kept, rewrote, record, driver>>

Dialogs == INSTANCE Popups WITH Limit <- 2
Start == INSTANCE Startup WITH game <- host

-----------------------------------------------------------------------------
MCEntity == {moves, gold}

Loads ==
  {[orders |-> 2, drifts |-> 0, losses |-> 2], [orders |-> 1, drifts |-> 1, losses |-> 1]}

MCInit ==
  /\ which \in {"live", "popups", "startup"}
  /\ Init /\ load \in Loads
  /\ which # "live" => load.orders = 1 /\ game.stage = "active" /\ game.hooks = 0
  /\ Dialogs!Init
  /\ Start!Init /\ (which # "startup" => ~opts.arch1 /\ ~opts.killFirst /\ ~opts.freshX /\ ~host.up)

Seated ==
  /\ Next
  /\ seat'.seq <= load.orders /\ losses' <= load.losses
  /\ game'.lease.seen.drifts <= load.drifts

MCNext ==
  /\ UNCHANGED <<which, load>>
  /\ \/ which = "live" /\ Seated /\ UNCHANGED <<popupVars, startVars>>
     \/ which = "popups" /\ Dialogs!Next /\ UNCHANGED <<vars, startVars>>
     \/ which = "startup" /\ Start!Next /\ UNCHANGED <<vars, popupVars>>

\* The fairness is the seat's: of the other two nothing is claimed to happen.
Live(action) == which = "live" /\ action
MCSpec ==
  /\ MCInit /\ [][MCNext]_<<which, load, vars, popupVars, startVars>>
  /\ WF_vars(Live(Engine)) /\ WF_vars(Live(Driver))

-----------------------------------------------------------------------------
\* LiveSeat's EveryTurnIsDriven, of the behaviours that are a seat's.
SeatIsDriven == which = "live" => EveryTurnIsDriven

\* Popups!PressesWhatItSaw and Popups!ReportsWhatItDid.
PressesWithCare == which = "popups" => Dialogs!PressesWhatItSaw /\ Dialogs!ReportsWhatItDid

\* Startup!DriverMeetsItsGame, Startup!SavesAreKept and Startup!EndsOnRecord.
StartsTheRightGame ==
  which = "startup" => Start!DriverMeetsItsGame /\ Start!SavesAreKept /\ Start!EndsOnRecord
=============================================================================
