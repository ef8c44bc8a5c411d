------------------------------- MODULE Popups -------------------------------
(***************************************************************************)
(* The popups that hold up a live match, and who may press what: the       *)
(* monitor of game/civ6/spectator.py, the check of ui_popups.py and the    *)
(* window-bound input of ui_control.py, with the recovery keys of the      *)
(* driver.  A context shows the dialogs of its queue one after the other;  *)
(* the game only ever adds to the end of one.                              *)
(***************************************************************************)
EXTENDS Naturals, Sequences, FiniteSets

CONSTANTS
  Limit,       \* PopupMonitor.limit
  MaxDialogs, MaxChecks, MaxFaults,  \* bounds
  None

\* One context that is closed by its handler, and the one whose OK is clicked;
\* a tutorial or a choice looks like an advisor.
Context == {"notice", "advisor"}
Kind(c) == IF c = "advisor" THEN {"ok", "choice"} ELSE {"ok"}

VARIABLES
  queue,     \* the dialogs of each context, the first is visible: [id, kind]
  conn, frame,   \* the connection and the place of the window
  stage,     \* active_turn: the monitor watches; recovery: sweeps
  lock,      \* PopupMonitor.lock: free, or of the watch's check or a sweep's
  at, saw,   \* where the check is; its popup, connection, frame and dialog
  script,    \* the close on the wire: [check, context, left, rows], or None
  receipt,   \* per context, _CivArenaPopupDismissReceipt: the check it is of
  pending, attempts,   \* the monitor's
  keys,      \* a sweep that found no popup goes on with keys
  checks, dialogs, faults,
  pressed,   \* history: what the checks closed: [check, context, dialog, saw]
  results    \* history: [check, status, popup, after, before the keys went on]

vars == <<queue, conn, frame, stage, lock, at, saw, script, receipt, pending,
          attempts, keys, checks, dialogs, faults, pressed, results>>
uiVars == <<queue, frame, dialogs>>
monitorVars == <<pending, attempts, keys>>
historyVars == <<pressed, results>>

Init ==
  /\ queue = [c \in Context |-> <<>>] /\ conn = 1 /\ frame = 1 /\ stage = "active_turn"
  /\ lock = "free" /\ at = "idle" /\ saw = None /\ script = None
  /\ receipt = [c \in Context |-> 0] /\ pending = None /\ attempts = 0 /\ keys = FALSE
  /\ checks = 0 /\ dialogs = 0 /\ faults = 0 /\ pressed = {} /\ results = {}

Visible(c) == queue[c] # <<>>
Foremost(c) == queue[c][1]
Fault == faults < MaxFaults /\ faults' = faults + 1
Running == at # "over"

-----------------------------------------------------------------------------
(* What happens by itself. *)
Appears(c) ==
  /\ Running /\ dialogs < MaxDialogs /\ dialogs' = dialogs + 1
  /\ \E k \in Kind(c) : queue' = [queue EXCEPT ![c] = Append(@, [id |-> dialogs + 1, kind |-> k])]
  /\ UNCHANGED <<conn, frame, stage, lock, at, saw, script, receipt, monitorVars, checks,
                 faults, historyVars>>

WindowMoves ==
  /\ Running /\ Fault /\ frame' = frame + 1
  /\ UNCHANGED <<queue, dialogs, conn, stage, lock, at, saw, script, receipt, monitorVars,
                 checks, historyVars>>

\* Another command of the driver finds the connection dead and makes a new one;
\* a check that holds the connection's lock keeps it out.
Holding == at \in {"closing", "click"}
Reconnects ==
  /\ Running /\ ~Holding /\ Fault /\ conn' = conn + 1
  /\ UNCHANGED <<uiVars, stage, lock, at, saw, script, receipt, monitorVars, checks, historyVars>>

\* The driver's stages: engage has set the seat's turn going, or its release or the
\* next one is waited for.
Turns ==
  /\ Running /\ stage' \in {"active_turn", "recovery"} \ {stage} /\ keys' = FALSE
  /\ UNCHANGED <<uiVars, conn, lock, at, saw, script, receipt, pending, attempts, checks,
                 faults, historyVars>>

-----------------------------------------------------------------------------
(* The end of a check: a failed one ends the match. *)
Token == checks + 1
Ends(status, after) ==
  /\ results' = results \cup {[check |-> Token, status |-> status, after |-> after]}
  /\ checks' = Token
  /\ IF status = "failed" THEN at' = "over" /\ UNCHANGED lock ELSE at' = "idle" /\ lock' = "free"

Failed == Ends("failed", "unavailable") /\ UNCHANGED monitorVars
NoTarget(by) ==
  /\ keys' = (by = "sweep")
  /\ Ends("no_target", "unavailable")
  /\ pending' = None /\ attempts' = 0
Sent(c, after) ==
  /\ Ends("sent", after) /\ keys' = FALSE
  /\ IF after = "hidden" THEN pending' = None /\ attempts' = 0
     ELSE pending' = c /\ attempts' = 1 + (IF c = pending THEN attempts ELSE 0)

\* check, of the watch while a turn is active or of a sweep after it: with what is
\* left of the tries it scans the contexts once and picks the first that is visible.
\* A sweep goes on with keys only if there was none.
First == IF Visible("notice") THEN "notice" ELSE IF Visible("advisor") THEN "advisor" ELSE None
Check(by) ==
  /\ at = "idle" /\ lock = "free" /\ checks < MaxChecks
  /\ stage = (IF by = "watch" THEN "active_turn" ELSE "recovery")
  /\ \/ /\ pending # None /\ attempts >= Limit /\ Failed /\ saw' = saw /\ UNCHANGED faults
     \/ /\ Fault /\ Failed /\ saw' = saw
     \/ /\ ~(pending # None /\ attempts >= Limit) /\ UNCHANGED faults
        /\ IF First = None THEN NoTarget(by) /\ saw' = saw
           ELSE /\ at' = (IF First = "advisor" THEN "target" ELSE "close") /\ lock' = by
                /\ saw' = [popup |-> First, conn |-> conn, frame |-> 0, dialog |-> 0]
                /\ keys' = FALSE /\ UNCHANGED <<pending, attempts, results, checks>>
  /\ UNCHANGED <<uiVars, conn, stage, script, receipt, pressed>>

\* The handler's script goes out once, on the connection of the scan.
Close ==
  /\ at = "close"
  /\ IF conn # saw.conn THEN Failed /\ UNCHANGED <<script, faults>>
     ELSE /\ at' = "closing" /\ UNCHANGED <<lock, monitorVars, results, checks>>
          /\ \E n \in 1..2 :
               /\ script' = [check |-> Token, context |-> saw.popup, left |-> n, rows |-> {}]
               /\ IF n = 2 THEN Fault ELSE UNCHANGED faults
  /\ UNCHANGED <<uiVars, conn, stage, saw, receipt, pressed>>

\* The game runs it, at any later time: the receipt is installed before the callback.
Replayed_Never(s) == s.check = 0  \* mutant: no receipt
Replayed(s) == receipt[s.context] = s.check
RunClose ==
  /\ script # None /\ script.left > 0
  /\ LET c == script.context
         row == IF Replayed(script) THEN "again" ELSE IF ~Visible(c) THEN "no_target"
                ELSE IF Len(queue[c]) > 1 THEN "visible" ELSE "hidden"
     IN /\ script' = [script EXCEPT !.left = @ - 1, !.rows = @ \cup {row}]
        /\ receipt' = [receipt EXCEPT ![c] = script.check]
        /\ IF row \in {"visible", "hidden"}
           THEN /\ queue' = [queue EXCEPT ![c] = Tail(@)]
                /\ pressed' = pressed \cup {[check |-> script.check, dialog |-> Foremost(c),
                                             saw |-> Foremost(c).id]}
           ELSE UNCHANGED <<queue, pressed>>
  /\ UNCHANGED <<conn, frame, dialogs, stage, lock, at, saw, monitorVars, checks, faults, results>>

\* Exactly one whole answer counts; anything else, or none in time, fails the check.
Closed ==
  /\ at = "closing"
  /\ \/ /\ script.left = 0 /\ Cardinality(script.rows) = 1
        /\ LET row == CHOOSE r \in script.rows : TRUE
           IN IF row = "no_target" THEN NoTarget(lock) ELSE Sent(script.context, row)
        /\ script' = None /\ UNCHANGED faults
     \/ Fault /\ Failed /\ UNCHANGED script
     \/ script.left = 0 /\ Cardinality(script.rows) = 2 /\ Failed /\ script' = None /\ UNCHANGED faults
  /\ UNCHANGED <<uiVars, conn, stage, saw, receipt, pressed>>

-----------------------------------------------------------------------------
(* The advisor: its OK is looked up, and clicked where it was. *)
InformsOnly == Visible("advisor") /\ Foremost("advisor").kind = "ok"
Target ==
  /\ at = "target"
  /\ \/ /\ conn = saw.conn /\ InformsOnly
        /\ /\ at' = "click" /\ saw' = [saw EXCEPT !.frame = frame, !.dialog = Foremost("advisor").id]
        /\ UNCHANGED <<lock, monitorVars, results, checks, faults>>
     \/ ~(conn = saw.conn /\ InformsOnly)
        /\ Failed /\ UNCHANGED <<saw, faults>>
     \/ Fault /\ Failed /\ UNCHANGED saw
  /\ UNCHANGED <<uiVars, conn, stage, script, receipt, pressed>>

\* A click at a place of the window hits whatever the context shows there by now.
Hit ==
  IF Visible("advisor")
  THEN /\ queue' = [queue EXCEPT !["advisor"] = Tail(@)]
       /\ pressed' = pressed \cup {[check |-> Token, dialog |-> Foremost("advisor"), saw |-> saw.dialog]}
  ELSE UNCHANGED <<queue, pressed>>

\* perform looks for the window again before, between and after what it does.
InFrame == frame = saw.frame

\* The window may be elsewhere or gone; a helper that is killed may have clicked.
Click ==
  /\ at = "click"
  /\ \/ ~InFrame /\ (Failed \/ NoTarget(lock)) /\ UNCHANGED <<queue, pressed, faults>>
     \/ /\ InFrame /\ Hit
        /\ \/ at' = "rescan" /\ UNCHANGED <<lock, monitorVars, results, checks, faults>>
           \/ Fault /\ Failed
     \/ Fault /\ Failed /\ UNCHANGED <<queue, pressed>>
  /\ UNCHANGED <<frame, dialogs, conn, stage, saw, script, receipt>>

Rescan ==
  /\ at = "rescan"
  /\ \/ Sent("advisor", IF Visible("advisor") THEN "visible" ELSE "hidden") /\ UNCHANGED faults
     \/ Fault /\ Failed
  /\ UNCHANGED <<uiVars, conn, stage, saw, script, receipt, pressed>>

\* A recovery key goes through the monitor: not while a check is at work.
Key ==
  /\ Running /\ keys /\ lock = "free"
  /\ \/ UNCHANGED queue
     \/ \E c \in Context : Visible(c) /\ queue' = [queue EXCEPT ![c] = Tail(@)]
  /\ UNCHANGED <<frame, dialogs, conn, stage, lock, at, saw, script, receipt, monitorVars,
                 checks, faults, historyVars>>

Next ==
  \/ \E c \in Context : Appears(c)
  \/ WindowMoves \/ Reconnects \/ Turns
  \/ Check("watch") \/ Check("sweep") \/ Close \/ RunClose \/ Closed \/ Target \/ Click \/ Rescan \/ Key

Spec == Init /\ [][Next]_vars

-----------------------------------------------------------------------------
By(n) == {p \in pressed : p.check = n}

\* A check presses at most one button, whatever is sent twice, lost or late: that of
\* the dialog it saw, and never that of a choice (ui_popups: "one observed
\* informational popup", "no gameplay choice").
PressesWhatItSaw ==
  /\ \A n \in 1..Token : Cardinality(By(n)) <= 1
  /\ \A p \in pressed : p.dialog.id = p.saw /\ p.dialog.kind = "ok"

\* What a check reports is what it did: one that found no target pressed nothing,
\* one that sent pressed one.
ReportsWhatItDid ==
  \A r \in results :
    /\ r.status = "no_target" => By(r.check) = {}
    /\ r.status = "sent" => By(r.check) # {}
=============================================================================
