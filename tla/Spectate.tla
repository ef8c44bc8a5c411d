----------------------------- MODULE Spectate ------------------------------
(***************************************************************************)
(* The recorder of a game that a human plays: phase_spectate of            *)
(* game/civ6/live_driver.py with the TurnWatch of spectate_capture.py, over *)
(* the bounded hook ring of PuppeteerMod.lua; and the audit of its record  *)
(* by spectate_audit.py and game/civ6/validate_run.py.                     *)
(*                                                                         *)
(* The recorder only polls.  It learns of turns from the ring, which may   *)
(* have moved on, or wrapped, between two polls.  The hooks of a game come  *)
(* in a fixed order, so a hook is its number: the human's turn starts and   *)
(* ends, then the other player's, then the engine turn advances.  A game    *)
(* loaded again at an earlier turn is not modelled.                        *)
(***************************************************************************)
EXTENDS Integers, Sequences, FiniteSets, SequencesExt

CONSTANTS
  RingSize,   \* 64 entries
  Turns,      \* human turns to record
  MaxHook,    \* bound: hooks fired
  MaxLost     \* bound: reads of the ring that come back empty

VARIABLES
  fired,     \* hooks fired so far
  born,      \* hooks fired before the mod was injected
  step,      \* where the loop of the recorder is
  statusTurn,\* TURN of the last status poll
  trace,     \* the ring as it was last read
  prev,      \* TurnWatch._prev
  batch,     \* new entries not yet handled
  drained,   \* history_drained
  attach,    \* [mid, turn]: attached_mid_turn, engine_turn_at_attach
  gap,       \* gap_pending
  active,    \* a round is open
  opened,    \* its [turn, boundary, atomic]: whether the digests around its census agree
  rounds,    \* the recorded rounds: [start, end, boundary, atomic, hook, claim, sealed,
             \* counted]: counted once its row is in the summary
  reported,  \* turns a trace_gap or capture_gap audit stands for: from the last
             \* round to the oldest hook still in the ring, or to the engine's turn
  lost

vars == <<fired, born, step, statusTurn, trace, prev, batch, drained, attach, gap,
          active, opened, rounds, reported, lost>>
watchVars == <<prev, batch>>

TurnOf(k)    == (k - 1) \div 4 + 1
IsEnter(k)   == k % 4 = 1
IsDeact(k)   == k % 4 = 2
EngineTurn   == fired \div 4 + 1
HumanActive  == fired % 4 = 1

-----------------------------------------------------------------------------
(* The ring drops its oldest entry when it is full. *)
Ring ==
  LET first == IF fired - born > RingSize THEN fired - RingSize ELSE born
  IN  [i \in 1..(fired - first) |-> first + i]

Suffix(s, k) == SubSeq(s, Len(s) - k + 1, Len(s))
Prefix(s, k) == SubSeq(s, 1, k)

\* TurnWatch.new_entries: what follows the longest overlap with the last read.
Overlaps(current) ==
  {k \in 1..Len(current) : k <= Len(prev) /\ Suffix(prev, k) = Prefix(current, k)}
Wrapped_Never(current) == FALSE  \* mutant
Wrapped(current) == prev # <<>> /\ current # <<>> /\ Overlaps(current) = {}
NewEntries(current) ==
  IF Overlaps(current) = {} THEN current
  ELSE SubSeq(current, Max(Overlaps(current)) + 1, Len(current))

-----------------------------------------------------------------------------
\* The game goes on when the recorder is over, and nobody looks.
Over == step \in {"done", "stopped"}
HookFires ==
  /\ fired < MaxHook /\ ~Over
  /\ fired' = fired + 1
  /\ UNCHANGED <<born, step, statusTurn, trace, prev, batch, drained, attach, gap,
                 active, opened, rounds, reported, lost>>

\* The status is read before the ring.
PollStatus ==
  /\ step = "status"
  /\ statusTurn' = EngineTurn
  /\ attach' = IF drained THEN attach ELSE [mid |-> HumanActive, turn |-> EngineTurn]
  /\ step' = "trace"
  /\ UNCHANGED <<fired, born, trace, prev, batch, drained, gap, active, opened, rounds,
                 reported, lost>>

PollTrace ==
  /\ step = "trace"
  /\ \/ trace' = Ring /\ UNCHANGED lost
     \/ lost < MaxLost /\ lost' = lost + 1 /\ trace' = <<>>
  /\ step' = "watch"
  /\ UNCHANGED <<fired, born, statusTurn, prev, batch, drained, attach, gap, active,
                 opened, rounds, reported>>

\* The board may move under the census, and under its one retry.
Census(turn, boundary) ==
  {[turn |-> turn, boundary |-> boundary, atomic |-> held] : held \in BOOLEAN}

\* A round: the census is read now, whenever its hook was.
OpenRound(turn, boundary) ==
  /\ active' = TRUE
  /\ opened' \in Census(turn, boundary)

\* The first read is history: of a turn under way its own entries count, and
\* without its start the round is opened in its stead; else nothing does.
OfAttach(k) == TurnOf(k) = attach.turn
FirstBatch(new) == IF attach.mid THEN SelectSeq(new, OfAttach) ELSE <<>>
NoEnter(new) == \A i \in DOMAIN new : ~(IsEnter(new[i]) /\ OfAttach(new[i]))

Watch ==
  /\ step = "watch"
  /\ LET new == NewEntries(trace)
         synthesized == ~drained /\ attach.mid /\ NoEnter(FirstBatch(new))
     IN  /\ batch' = IF drained THEN new
                     ELSE IF synthesized THEN <<>> ELSE FirstBatch(new)
         /\ IF synthesized THEN OpenRound(attach.turn, "attach")
                           ELSE UNCHANGED <<active, opened>>
  /\ gap' = (gap \/ Wrapped(trace))
  /\ reported' = IF Wrapped(trace) THEN reported \cup (opened.turn .. TurnOf(Head(trace)))
                 ELSE reported
  /\ prev' = trace
  /\ drained' = TRUE
  /\ step' = "handle"
  /\ UNCHANGED <<fired, born, statusTurn, trace, attach, rounds, lost>>

Boundary ==
  IF attach.mid /\ rounds = <<>> THEN "attach"
  ELSE IF gap THEN "gap_inferred" ELSE "hook_observed"

\* An end claims the state at its boundary only if its hook was the last of
\* the batch and is the last of the ring after the digest was read.
Claims(k) == Len(batch) = 1 /\ fired = k

\* The reads of a round, and the digest of its end, take time: a hook may
\* fire before the digest, or between it and the ring that corroborates it.
CloseRound(k, sealed, claim) ==
  rounds' = Append(rounds, [start |-> opened.turn, end |-> TurnOf(k),
                            boundary |-> opened.boundary, atomic |-> opened.atomic, hook |-> k,
                            claim |-> claim, sealed |-> sealed, counted |-> FALSE])

Digest ==
  /\ step = "handle" /\ batch # <<>> /\ IsDeact(Head(batch)) /\ active
  /\ CloseRound(Head(batch), fired, FALSE)
  /\ active' = FALSE
  /\ step' = "corroborate"
  /\ UNCHANGED <<fired, born, statusTurn, trace, prev, batch, drained, attach, gap,
                 opened, reported, lost>>

Corroborate ==
  /\ step = "corroborate"
  /\ \/ /\ rounds' = [rounds EXCEPT ![Len(rounds)].claim = Claims(Head(batch))]
        /\ UNCHANGED lost
     \/ /\ lost < MaxLost /\ lost' = lost + 1
        /\ UNCHANGED rounds
  /\ batch' = Tail(batch)
  /\ step' = "reopen"
  /\ UNCHANGED <<fired, born, statusTurn, trace, prev, drained, attach, gap, active,
                 opened, reported>>

\* The END is written; the windows of the other players are opened again, and
\* only then the round gets its row.
Reopen ==
  /\ step = "reopen"
  /\ rounds' = [rounds EXCEPT ![Len(rounds)].counted = TRUE]
  /\ step' = IF Len(rounds) >= Turns THEN "closing" ELSE "handle"
  /\ UNCHANGED <<fired, born, statusTurn, trace, prev, batch, drained, attach, gap, active,
                 opened, reported, lost>>

Handle ==
  /\ step = "handle" /\ batch # <<>>
  /\ ~(IsDeact(Head(batch)) /\ active)
  /\ IF IsEnter(Head(batch)) /\ ~active
     THEN OpenRound(TurnOf(Head(batch)), Boundary) /\ gap' = FALSE
     ELSE UNCHANGED <<active, opened, gap>>
  /\ batch' = Tail(batch)
  /\ UNCHANGED <<fired, born, step, statusTurn, trace, prev, drained, attach, rounds,
                 reported, lost>>

\* Between rounds an engine turn that ran ahead declares the turns between.
RanAhead == ~active /\ opened.turn > 0 /\ statusTurn > opened.turn + 1

GapCheck ==
  /\ step = "handle" /\ batch = <<>>
  /\ gap' = (gap \/ RanAhead)
  /\ reported' = IF RanAhead THEN reported \cup ((opened.turn + 1) .. (statusTurn - 1))
                 ELSE reported
  /\ step' = "status"
  /\ UNCHANGED <<fired, born, statusTurn, trace, prev, batch, drained, attach, active,
                 opened, rounds, lost>>

\* The end: the requested rounds are recorded, and the connection is taken down,
\* which may fail; or the recorder is cancelled, runs out of time or loses the game.
\* A round that waits for its END is then left open.
Forgets ==
  /\ statusTurn' = 0 /\ trace' = <<>> /\ prev' = <<>> /\ batch' = <<>>
  /\ UNCHANGED <<fired, born, drained, attach, gap, opened, reported, lost>>
CloseOut ==
  /\ step = "closing" /\ step' \in {"done", "stopped"}
  /\ Forgets /\ UNCHANGED <<active, rounds>>
Stop ==
  /\ ~Over /\ step # "closing" /\ step' = "stopped"
  /\ active' = (active \/ step = "corroborate")
  /\ rounds' = IF step = "corroborate" THEN Front(rounds) ELSE rounds
  /\ Forgets

-----------------------------------------------------------------------------
(* The audit of what is recorded. *)
Outcome == IF step = "done" THEN "completed" ELSE "open prefix"

\* An END is written once its claim is settled.
Open == active \/ step = "corroborate"
FinalInterval == IF Open THEN "open" ELSE "closed"

\* structural_problems: HUMAN_TURN_START turns increase, only a run that did not
\* complete may end in one without its END, and the summary, when there is one,
\* counts the ENDs.
Starts == [i \in DOMAIN rounds |-> rounds[i].start] \o (IF active THEN <<opened.turn>> ELSE <<>>)
Structured ==
  /\ \A i, j \in DOMAIN Starts : i < j => Starts[i] < Starts[j]
  /\ FinalInterval = "open" => Outcome # "completed"
  /\ Over => \A i \in DOMAIN rounds : rounds[i].counted

\* A replay has no call to issue again, and certifies the structure instead.
Certified == Structured

\* validate_spectate: what a decision sample may be taken from.  Every gap audit
\* names a turn, so reported is empty only when there was none.
Spans(i) == rounds[i].start # rounds[i].end
Eligible ==
  /\ Outcome = "completed" /\ FinalInterval = "closed" /\ Structured
  /\ reported = {}
  /\ \A i \in DOMAIN rounds :
       rounds[i].atomic /\ rounds[i].boundary # "gap_inferred" /\ ~Spans(i)

-----------------------------------------------------------------------------
Init ==
  /\ born \in 0..4 /\ fired \in born..(born + 2)
  /\ step = "status" /\ statusTurn = 0
  /\ trace = <<>> /\ prev = <<>> /\ batch = <<>>
  /\ drained = FALSE /\ attach = [mid |-> FALSE, turn |-> 0]
  /\ gap = FALSE /\ active = FALSE /\ opened = [turn |-> 0, boundary |-> "none", atomic |-> FALSE]
  /\ rounds = <<>> /\ reported = {} /\ lost = 0

Recorder ==
  \/ PollStatus \/ PollTrace \/ Watch \/ Digest \/ Corroborate \/ Reopen \/ Handle \/ GapCheck
  \/ CloseOut \/ Stop
Next == HookFires \/ Recorder
Spec == Init /\ [][Next]_vars

-----------------------------------------------------------------------------
\* A round stands for its turn; one that lost its end to a gap stands for the
\* turns up to the end that closed it, and an audit has said so.
Recorded(t) ==
  \E i \in DOMAIN rounds :
    /\ t \in rounds[i].start .. rounds[i].end
    /\ rounds[i].start = rounds[i].end \/ rounds[i].start \in reported

\* Nothing is silently left out: of the turns from the first round that a
\* hook opened to the last, every one is in a round, or an audit
\* declared a gap over it ("the gap is REPORTED, never fabricated over",
\* spectate_capture).  The round of the turn under way at the attachment is
\* partial: its end may be lost between the first status and the first ring.
\* It is promised of a recorder whose reads of the ring all came back.
NothingSilentlyMissed ==
  lost = 0 => \A i \in DOMAIN rounds :
    (\A j \in 1..(i - 1) : rounds[j].boundary = "attach") /\ rounds[i].boundary # "attach"
      => \A t \in rounds[i].start .. rounds[Len(rounds)].end : Recorded(t) \/ t \in reported

\* An end that claims the state at its boundary read its digest before any
\* later hook fired, so nothing after the turn is in it (CAP-R1 #6).
ClaimsAreTrue == \A i \in DOMAIN rounds : rounds[i].claim => rounds[i].sealed = rounds[i].hook

\* A record that is called eligible for decisions holds every turn from its first
\* round to its last, each once and in order ("no capture gaps", validate_run).
\* It is promised of a recorder whose reads of the ring all came back.
EligibleIsWhole ==
  Eligible /\ lost = 0 =>
    \A i \in DOMAIN rounds : rounds[i].end = rounds[1].start + i - 1

\* Wherever a recorder stops, what it has written passes the audit: an open
\* round at the end is an observed interval, not a defect ("tolerate a trailing
\* unpaired HUMAN_TURN_START", spectate_audit).  The code has one exception: a
\* connection that fails after an END was written and before its row was.
Miscounted == step = "stopped" /\ \E i \in DOMAIN rounds : ~rounds[i].counted
PrefixesValidate == lost = 0 /\ ~Miscounted => Certified

\* No turn is recorded twice, so no round is made of history.
NoTurnTwice ==
  \A i, j \in DOMAIN rounds : rounds[i].hook = rounds[j].hook => i = j
=============================================================================
