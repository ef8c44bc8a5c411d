------------------------------ MODULE Referee ------------------------------
(***************************************************************************)
(* The referee of src/src/civ_arena/arena/referee.py over the simulator    *)
(* adapter of src/src/civ_arena/game/sim: leases, the legality and         *)
(* idempotency gates, the watchdog's ledgers and rollback, the diary, and  *)
(* the event log they all write.                                           *)
(*                                                                         *)
(* Every handler runs to completion without yielding (the simulator never  *)
(* suspends), so one handler is one step; begin_turn's retry loop is one   *)
(* step per attempt.  The world is a value per field: an order consumes    *)
(* one unit of a field, the ambient phase refreshes some fields to Top,    *)
(* and the chaos director writes a field behind the referee's back.        *)
(***************************************************************************)
EXTENDS Watchdog, Sequences, FiniteSets

CONSTANTS
  Player,          \* seat numbers
  SeatOrder,       \* the seats in the order the coordinator serves them
  Owner,           \* [Entity -> Player]
  Refreshed,       \* the fields the ambient phase resets to Top
  ChaosScripts,    \* the chaos schedules a match may be configured with
  Nonce,           \* client-supplied idempotency keys
  Note,            \* diary texts
  Read,            \* tools that only read: get_*, get_strategy, recall_lessons
  Rollback,        \* watchdog_mode = "rollback" on an adapter that can
  Gate,            \* completeness_gate
  ViolationLimit,  \* violation_limit
  MaxTurn,         \* bound: turns of a match
  MaxCalls,        \* bound: tool calls of a match, end_turn not counted
  NoKey, NoArg     \* model values: the record has no such field

NoLease == -1

Hook == {"begin_phase", "act", "end_phase"}

\* A ChaosEvent: which hook, how many matching hooks to skip, the field it
\* hits for each seat, and what it writes there.
ChaosEvent == [hook : Hook, offset : Nat, target : [Player -> Entity],
               effect : {"set", "steal"}, value : Val]

ASSUME RefereeAssumption ==
  /\ Player \subseteq Nat /\ 0 \in Player
  /\ SeatOrder \in Seq(Player) /\ SeatOrder # <<>>
  /\ Owner \in [Entity -> Player]
  /\ Refreshed \subseteq Entity
  /\ ChaosScripts \subseteq Seq(ChaosEvent)
  /\ Rollback \in BOOLEAN /\ Gate \in BOOLEAN
  /\ ViolationLimit \in Nat /\ MaxTurn \in Nat /\ MaxCalls \in Nat

\* DedupeIndex.key_for: a client key is scoped to the seat and the tool and
\* nothing else; without one the key is the call's content in its turn.
NonceKey   == [player : Player, nonce : Nonce]
ContentKey == [player : Player, turn : Nat, arg : Entity]
Key        == NonceKey \cup ContentKey

Kind == {"MATCH_START", "LEASE_GRANT", "LEASE_RELEASE", "AMBIENT", "TOOL_CALL",
         "TOOL_RESULT", "VIOLATION", "TURN_END", "UNAUTHORIZED_TOOL_CALL",
         "MATCH_END"}
Tool == {"none", "order", "write_diary", "end_turn"} \cup Read

\* The tools that only read are none of the others, and no key is "no key".
ASSUME NamesAssumption ==
  /\ Read \cap {"none", "order", "write_diary", "end_turn"} = {}
  /\ NoKey \notin Key

Record == [kind : Kind, tool : Tool, player : Player, turn : Nat,
           arg : Entity \cup Note \cup {NoArg}, key : Key \cup {NoKey},
           status : {"none", "accepted", "rejected"},
           duplicate : BOOLEAN, rolled_back : BOOLEAN]

VARIABLES
  \* the engine
  world, turn, phasePlayer, phaseIndex, chaos,
  \* the referee
  lease, allowed, actual, acknowledged, bounced, violations, blame,
  dedupe, diary, log,
  \* the caller: the lease each seat's session carries, and where the turn is
  held, pc, attempt, calls,
  \* history: every row written without authority, every row ever flagged
  rogue, flagged

engineVars  == <<world, turn, phasePlayer, phaseIndex, chaos>>
ledgerVars  == <<allowed, actual, acknowledged, rogue, flagged>>
countVars   == <<violations, blame>>
callerVars  == <<held, pc, attempt, calls>>
vars == <<engineVars, lease, ledgerVars, bounced, countVars, dedupe, diary,
          log, callerVars>>

-----------------------------------------------------------------------------
(* The event log *)

Event(kind, p, t) ==
  [kind |-> kind, tool |-> "none", player |-> p, turn |-> t, arg |-> NoArg,
   key |-> NoKey, status |-> "none", duplicate |-> FALSE, rolled_back |-> FALSE]

ToolCall(tool, p, arg, key) ==
  [Event("TOOL_CALL", p, turn) EXCEPT !.tool = tool, !.arg = arg, !.key = key]

ToolResult(tool, p, key, status, duplicate) ==
  [Event("TOOL_RESULT", p, turn) EXCEPT !.tool = tool, !.key = key,
     !.status = status, !.duplicate = duplicate]

\* _emit_pair: the two records of a tool call, back to back.
Pair(tool, p, arg, key, status, duplicate) ==
  <<ToolCall(tool, p, arg, key), ToolResult(tool, p, key, status, duplicate)>>

RolledBack(p, key) ==
  [ToolResult("order", p, key, "rejected", FALSE) EXCEPT !.rolled_back = TRUE]

\* Mutant: the limit is checked before the violations are written down.
Flags_NotWhenAborting(n, p, t) ==
  [i \in 1 .. (IF violations + n > ViolationLimit THEN 0 ELSE n) |->
     Event("VIOLATION", p, t)]

Flags(n, p, t) == [i \in 1 .. n |-> Event("VIOLATION", p, t)]

-----------------------------------------------------------------------------
(* The engine: chaos, the ambient phase, the phase clock *)

Due(hook) == chaos # <<>> /\ Head(chaos).hook = hook

Fires(hook) == Due(hook) /\ Head(chaos).offset = 0

\* ChaosDirector.maybe_fire: only the head of the queue is ever considered.
ChaosAfter(hook) ==
  IF ~Due(hook) THEN chaos
  ELSE IF Head(chaos).offset > 0
       THEN <<[Head(chaos) EXCEPT !.offset = @ - 1]>> \o Tail(chaos)
       ELSE Tail(chaos)

Stolen_NoFloor(v) == v - 1  \* mutant: gold - 50 without max(0, .)

Stolen(v) == IF v > 0 THEN v - 1 ELSE 0

\* The row the head event writes into world w when p is the seat to hit; a
\* write journals a row even when it changes nothing (stealing from nobody).
ChaosRow(w, p) ==
  LET e == Head(chaos).target[p]
  IN  [entity |-> e, before |-> w[e],
       after |-> IF Head(chaos).effect = "set" THEN Head(chaos).value
                 ELSE Stolen(w[e])]

ChaosRows(hook, w, p) == IF Fires(hook) THEN Single(ChaosRow(w, p)) ELSE NoRows

ChaosWorld(hook, w, p) ==
  IF Fires(hook) THEN [w EXCEPT ![ChaosRow(w, p).entity] = ChaosRow(w, p).after]
  ELSE w

\* run_ambient: rows only for the fields that are not at their maximum yet.
Spent(w, p) == {e \in Refreshed : Owner[e] = p /\ w[e] # Top}

AmbientRows(w, p) ==
  [r \in Row |-> IF r.entity \in Spent(w, p) /\ r.before = w[r.entity]
                    /\ r.after = Top THEN 1 ELSE 0]

AmbientWorld(w, p) == [e \in Entity |-> IF e \in Spent(w, p) THEN Top ELSE w[e]]

\* Mutant: the phase stays with the seat that ended it.
ClosePhase_StaysOpen ==
  /\ UNCHANGED phasePlayer
  /\ IF phaseIndex + 1 >= Len(SeatOrder)
     THEN phaseIndex' = 0 /\ turn' = turn + 1
     ELSE phaseIndex' = phaseIndex + 1 /\ UNCHANGED turn

\* end_phase moves the clock to the next seat, or to the next turn.
ClosePhase ==
  /\ phasePlayer' = -1
  /\ IF phaseIndex + 1 >= Len(SeatOrder)
     THEN phaseIndex' = 0 /\ turn' = turn + 1
     ELSE phaseIndex' = phaseIndex + 1 /\ UNCHANGED turn

-----------------------------------------------------------------------------
(* The watchdog's sweep *)

Acknowledge_Nothing(excess) == acknowledged  \* mutant: flagged rows come back

Acknowledge(excess) == AddRows(acknowledged, excess)

\* _sweep once the ledgers hold expected and happened: flag the excess, count
\* it against seat p, and acknowledge it so that no later sweep reports it.
Found(happened, expected) ==
  ViolationCount(happened, AddRows(expected, acknowledged))

Sweep(happened, expected, p) ==
  LET excess == Excess(happened, AddRows(expected, acknowledged))
      n      == Found(happened, expected)
  IN  /\ allowed' = expected
      /\ actual' = happened
      /\ acknowledged' = Acknowledge(excess)
      /\ flagged' = AddRows(flagged, excess)
      /\ violations' = violations + n
      /\ blame' = [blame EXCEPT ![p] = @ + n]

\* The sweep raises MatchAborted: it found something, and that is too much.
Aborts(n) == n > 0 /\ violations + n > ViolationLimit

-----------------------------------------------------------------------------
(* Leases *)

\* grant_lease replaces whatever lease there was, and its ledgers.
GrantLease(p) ==
  /\ pc = "idle"
  /\ p = SeatOrder[phaseIndex + 1]
  /\ turn <= MaxTurn
  /\ lease' = [id |-> Len(log), player |-> p, turn |-> turn, released |-> FALSE]
  /\ allowed' = NoRows /\ actual' = NoRows /\ acknowledged' = NoRows
  /\ log' = Append(log, Event("LEASE_GRANT", p, turn))
  /\ pc' = "begin" /\ attempt' = 0
  /\ UNCHANGED <<engineVars, rogue, flagged, bounced, countVars, dedupe, diary,
                 held, calls>>

\* Mutant: the referee's own lease is validated, not the one the caller holds.
Valid_AnySession(p) ==
  /\ ~lease.released
  /\ lease.turn = turn
  /\ phasePlayer = lease.player

\* _lease_reason accepts: the session carries the very lease the referee
\* issued last, it is not released, and the engine is in its turn and phase.
Valid(p) ==
  /\ held[p] = lease.id
  /\ ~lease.released
  /\ lease.turn = turn
  /\ phasePlayer = lease.player
  /\ lease.player = p

LastAttempt_TooEarly == attempt >= 1  \* mutant: one retry only

LastAttempt == attempt = 2

\* Mutant: a retry keeps what the discarded attempt acknowledged.
ResetLedgers_KeepAcknowledged(excess) ==
  /\ allowed' = NoRows /\ actual' = NoRows
  /\ acknowledged' = Acknowledge(excess)

\* The fresh _LeaseState of a retry.
ResetLedgers(excess) ==
  /\ allowed' = NoRows /\ actual' = NoRows
  /\ acknowledged' = NoRows

\* One attempt of begin_turn.  The seat chaos hits is 0: no phase is open.
\* A violating attempt is undone and retried, the third one stands.
BeginAttempt ==
  LET p        == lease.player
      hit      == ChaosWorld("begin_phase", world, 0)
      manifest == AmbientRows(hit, p)
      happened == AddRows(ChaosRows("begin_phase", world, 0), manifest)
      n        == Found(happened, manifest)
      undone   == Rollback /\ n > 0 /\ (Aborts(n) \/ ~LastAttempt)
  IN  /\ pc = "begin"
      /\ phasePlayer = -1 /\ lease.turn = turn
      /\ chaos' = ChaosAfter("begin_phase")
      /\ rogue' = AddRows(rogue, ChaosRows("begin_phase", world, 0))
      /\ log' = Append(log, Event("AMBIENT", p, turn)) \o Flags(n, p, turn)
      /\ violations' = violations + n
      /\ blame' = [blame EXCEPT ![p] = @ + n]
      /\ LET excess == Excess(happened, AddRows(manifest, acknowledged)) IN
         /\ flagged' = AddRows(flagged, excess)
         /\ IF undone /\ ~Aborts(n)
            THEN ResetLedgers(excess)
            ELSE /\ allowed' = manifest
                 /\ actual' = happened
                 /\ acknowledged' = Acknowledge(excess)
      /\ IF undone THEN UNCHANGED <<world, phasePlayer>>
                   ELSE /\ world' = AmbientWorld(hit, p)
                        /\ phasePlayer' = p
      /\ IF Aborts(n) THEN pc' = "abort" /\ UNCHANGED <<attempt, held>>
         ELSE IF undone THEN attempt' = attempt + 1 /\ UNCHANGED <<pc, held>>
         ELSE /\ pc' = "turn"
              /\ held' = [held EXCEPT ![p] = lease.id]
              /\ UNCHANGED attempt
      /\ UNCHANGED <<turn, phaseIndex, lease, bounced, dedupe, diary, calls>>

-----------------------------------------------------------------------------
(* Tool calls.  Any session may call while some runtime has the turn: a     *)
(* session keeps the lease it was given, so its late calls reach here too.  *)

CallsLeft(p) ==
  /\ pc = "turn"
  /\ held[p] # NoLease
  /\ calls < MaxCalls
  /\ calls' = calls + 1

gameVars == <<engineVars, lease, ledgerVars, countVars, held, pc, attempt>>

Unauthorized(p) == Event("UNAUTHORIZED_TOOL_CALL", p, turn)

\* execute without a valid lease leaves the audit record only.
RefuseOrder(p) ==
  /\ CallsLeft(p) /\ ~Valid(p)
  /\ log' = Append(log, Unauthorized(p))
  /\ UNCHANGED <<gameVars, bounced, dedupe, diary>>

\* Every other tool also leaves the rejected pair.
RefuseOther(p, tool) ==
  /\ CallsLeft(p) /\ ~Valid(p)
  /\ log' = Append(log, Unauthorized(p))
              \o Pair(tool, p, NoArg, NoKey, "rejected", FALSE)
  /\ UNCHANGED <<gameVars, bounced, dedupe, diary>>

\* A read leaves its pair and nothing else.
Observe(p, tool) ==
  /\ CallsLeft(p) /\ Valid(p)
  /\ log' = log \o Pair(tool, p, NoArg, NoKey, "accepted", FALSE)
  /\ UNCHANGED <<gameVars, bounced, dedupe, diary>>

WriteDiary(p, note) ==
  /\ CallsLeft(p) /\ Valid(p)
  /\ diary' = [diary EXCEPT ![p] = note]
  /\ log' = log \o Pair("write_diary", p, note, NoKey, "accepted", FALSE)
  /\ UNCHANGED <<gameVars, bounced, dedupe>>

KeyFor(p, e, nonce) ==
  IF nonce # NoKey THEN [player |-> p, nonce |-> nonce]
  ELSE [player |-> p, turn |-> turn, arg |-> e]

IndexAfter_NeverForgets(key, undone) == dedupe \cup {key}  \* mutant
IndexAfter_NeverRecords(key, undone) == dedupe             \* mutant

\* record(key), and forget(key) when the order is rolled back.
IndexAfter(key, undone) == IF undone THEN dedupe \ {key} ELSE dedupe \cup {key}

\* ownership_reason: the order names somebody else's field.
OrderNotYours(p, e) ==
  /\ CallsLeft(p) /\ Valid(p) /\ Owner[e] # p
  /\ log' = log \o Pair("order", p, e, NoKey, "rejected", FALSE)
  /\ UNCHANGED <<gameVars, bounced, dedupe, diary>>

\* A known key is answered from the index; the engine is not asked again.
OrderDuplicate(p, e, nonce) ==
  LET key == KeyFor(p, e, nonce)
  IN  /\ CallsLeft(p) /\ Valid(p) /\ Owner[e] = p
      /\ key \in dedupe
      /\ log' = log \o Pair("order", p, e, key, "accepted", TRUE)
      /\ UNCHANGED <<gameVars, bounced, dedupe, diary>>

\* check_action refuses: nothing left to spend.
OrderIllegal(p, e, nonce) ==
  LET key == KeyFor(p, e, nonce)
  IN  /\ CallsLeft(p) /\ Valid(p) /\ Owner[e] = p
      /\ key \notin dedupe /\ world[e] = 0
      /\ log' = log \o Pair("order", p, e, key, "rejected", FALSE)
      /\ UNCHANGED <<gameVars, bounced, dedupe, diary>>

\* The order is applied, chaos may follow it, the sweep compares, and in
\* rollback mode a violation undoes the order and forgets its key.
OrderApplied(p, e, nonce) ==
  LET key      == KeyFor(p, e, nonce)
      receipt  == Single([entity |-> e, before |-> world[e], after |-> world[e] - 1])
      ordered  == [world EXCEPT ![e] = @ - 1]
      drained  == AddRows(receipt, ChaosRows("act", ordered, p))
      expected == AddRows(allowed, receipt)
      happened == AddRows(actual, drained)
      n        == Found(happened, expected)
      undone   == Rollback /\ n > 0
  IN  /\ CallsLeft(p) /\ Valid(p) /\ Owner[e] = p
      /\ key \notin dedupe /\ world[e] > 0
      /\ chaos' = ChaosAfter("act")
      /\ rogue' = AddRows(rogue, ChaosRows("act", ordered, p))
      /\ Sweep(happened, expected, p)
      /\ world' = IF undone THEN world ELSE ChaosWorld("act", ordered, p)
      /\ dedupe' = IndexAfter(key, undone)
      /\ log' = log \o Pair("order", p, e, key, "accepted", FALSE)
                    \o Flags(n, p, turn)
                    \o (IF undone THEN <<RolledBack(p, key)>> ELSE <<>>)
      /\ pc' = IF Aborts(n) THEN "abort" ELSE pc
      /\ UNCHANGED <<turn, phasePlayer, phaseIndex, lease, bounced, diary, held,
                     attempt>>

\* _unmoved_units: own fields that still have something to spend.
Unmoved(p) == {e \in Refreshed : Owner[e] = p /\ world[e] > 0}

\* The completeness gate turns the first end_turn of a seat's turn away.
BounceEndTurn(p) ==
  /\ pc = "turn" /\ Valid(p)
  /\ Gate /\ <<p, turn>> \notin bounced /\ Unmoved(p) # {}
  /\ bounced' = bounced \cup {<<p, turn>>}
  /\ log' = log \o Pair("end_turn", p, NoArg, NoKey, "rejected", FALSE)
  /\ UNCHANGED <<gameVars, dedupe, diary, calls>>

\* end_turn: the pre-phase sweep has nothing to find (the journal is empty
\* between handlers and LedgersBalance holds), so only the sweep after
\* adapter.end_phase is written out.  It flags and counts, never restores,
\* and may still abort the match after the turn is on record.
EndTurn(p) ==
  LET happened == AddRows(actual, ChaosRows("end_phase", world, p))
      n        == Found(happened, allowed)
  IN  /\ pc = "turn" /\ Valid(p)
      /\ ~(Gate /\ <<p, turn>> \notin bounced /\ Unmoved(p) # {})
      /\ chaos' = ChaosAfter("end_phase")
      /\ rogue' = AddRows(rogue, ChaosRows("end_phase", world, p))
      /\ world' = ChaosWorld("end_phase", world, p)
      /\ ClosePhase
      /\ lease' = [lease EXCEPT !.released = TRUE]
      /\ Sweep(happened, allowed, p)
      /\ log' = log \o <<Event("LEASE_RELEASE", p, turn), Event("TURN_END", p, turn)>>
                    \o Pair("end_turn", p, NoArg, NoKey, "accepted", FALSE)
                    \o Flags(n, p, turn)
      /\ pc' = IF Aborts(n) THEN "abort" ELSE pc
      /\ UNCHANGED <<bounced, dedupe, diary, held, attempt, calls>>

-----------------------------------------------------------------------------
(* How a turn and a match end *)

\* A runtime returns once its end_turn was accepted (every runtime of the
\* repository repeats a bounced end_turn, and aborts if that fails too).
Return ==
  /\ pc = "turn" /\ lease.released
  /\ pc' = "idle"
  /\ UNCHANGED <<engineVars, lease, ledgerVars, bounced, countVars, dedupe,
                 diary, log, held, attempt, calls>>

\* The runtime gives up by itself: its model is unavailable or out of budget.
RuntimeAborts ==
  /\ pc = "turn"
  /\ pc' = "abort"
  /\ UNCHANGED <<engineVars, lease, ledgerVars, bounced, countVars, dedupe,
                 diary, log, held, attempt, calls>>

\* abort_cleanup closes an open phase through the adapter and sweeps what
\* that fires, blaming the seat whose phase it was; it cannot abort again.
AbortCleanup ==
  /\ pc = "abort"
  /\ pc' = "over"
  /\ IF phasePlayer = -1
     THEN UNCHANGED <<engineVars, ledgerVars, countVars, log>>
     ELSE LET p        == phasePlayer
              rows     == ChaosRows("end_phase", world, p)
              happened == AddRows(actual, rows)
          IN  /\ chaos' = ChaosAfter("end_phase")
              /\ rogue' = AddRows(rogue, rows)
              /\ world' = ChaosWorld("end_phase", world, p)
              /\ ClosePhase
              /\ Sweep(happened, allowed, p)
              /\ log' = log \o Flags(Found(happened, allowed), p, turn)
  /\ UNCHANGED <<lease, bounced, dedupe, diary, held, attempt, calls>>

-----------------------------------------------------------------------------
Init ==
  /\ world = [e \in Entity |-> Top]
  /\ turn = 1 /\ phasePlayer = -1 /\ phaseIndex = 0
  /\ chaos \in ChaosScripts
  /\ lease = [id |-> NoLease, player |-> 0, turn |-> 0, released |-> TRUE]
  /\ allowed = NoRows /\ actual = NoRows /\ acknowledged = NoRows
  /\ bounced = {}
  /\ violations = 0 /\ blame = [p \in Player |-> 0]
  /\ dedupe = {} /\ diary = [p \in Player |-> NoArg]
  /\ log = <<Event("MATCH_START", 0, 0)>>
  /\ held = [p \in Player |-> NoLease]
  /\ pc = "idle" /\ attempt = 0 /\ calls = 0
  /\ rogue = NoRows /\ flagged = NoRows

Order(p) ==
  \E e \in Entity :
    \/ OrderNotYours(p, e)
    \/ \E nonce \in Nonce \cup {NoKey} :
         OrderDuplicate(p, e, nonce) \/ OrderIllegal(p, e, nonce)
                                     \/ OrderApplied(p, e, nonce)

Call(p) ==
  \/ RefuseOrder(p)
  \/ \E tool \in {"write_diary", "end_turn"} \cup Read : RefuseOther(p, tool)
  \/ \E tool \in Read : Observe(p, tool)
  \/ \E note \in Note : WriteDiary(p, note)
  \/ Order(p)

TurnStep ==
  \/ BeginAttempt
  \/ \E p \in Player : Call(p) \/ BounceEndTurn(p) \/ EndTurn(p)
  \/ Return
  \/ RuntimeAborts
  \/ AbortCleanup

Next == TurnStep \/ \E p \in Player : GrantLease(p)

Spec == Init /\ [][Next]_vars

-----------------------------------------------------------------------------
(* What the index, the diary and the counters must agree with: the log *)

Positions(kind) == {i \in DOMAIN log : log[i].kind = kind}

\* Orders that were carried out: accepted, and not answered from the index.
Committed(rec) == /\ rec.kind = "TOOL_RESULT" /\ rec.key # NoKey
                  /\ rec.status = "accepted" /\ ~rec.duplicate

Undone(rec) == rec.kind = "TOOL_RESULT" /\ rec.rolled_back

\* DedupeIndex.from_log: replay commits and rollbacks in order, which leaves
\* the keys with a commit that no rollback of the key follows.
DedupeFrom(recs) ==
  {k \in {recs[i].key : i \in DOMAIN recs} \ {NoKey} :
     \E i \in DOMAIN recs :
       /\ Committed(recs[i]) /\ recs[i].key = k
       /\ \A j \in DOMAIN recs : Undone(recs[j]) /\ recs[j].key = k => j < i}

\* DiaryStore.from_log: a write_diary call counts when the record right after
\* it is its accepted result; the last such call of a seat wins.
Noted(recs, p) ==
  {i \in DOMAIN recs :
     /\ recs[i].kind = "TOOL_CALL" /\ recs[i].tool = "write_diary"
     /\ recs[i].player = p
     /\ i + 1 \in DOMAIN recs
     /\ recs[i + 1].kind = "TOOL_RESULT" /\ recs[i + 1].tool = "write_diary"
     /\ recs[i + 1].status = "accepted"
     /\ recs[i + 1].player = p /\ recs[i + 1].turn = recs[i].turn}

DiaryFrom(recs) ==
  [p \in Player |->
     LET noted == Noted(recs, p)
     IN  IF noted = {} THEN NoArg
         ELSE recs[CHOOSE i \in noted : \A j \in noted : j <= i].arg]

-----------------------------------------------------------------------------
(* Properties *)

(* Every variable stays in its domain (the state the handlers share).      *)
TypeOK ==
  /\ world \in [Entity -> Val]
  /\ turn \in Nat /\ phasePlayer \in Player \cup {-1} /\ phaseIndex \in Nat
  /\ chaos \in Seq(ChaosEvent)
  /\ lease \in [id : Nat \cup {NoLease}, player : Player, turn : Nat,
                released : BOOLEAN]
  /\ allowed \in Ledger /\ actual \in Ledger /\ acknowledged \in Ledger
  /\ rogue \in Ledger /\ flagged \in Ledger
  /\ bounced \subseteq Player \X Nat
  /\ violations \in Nat /\ blame \in [Player -> Nat]
  /\ dedupe \subseteq Key
  /\ diary \in [Player -> Note \cup {NoArg}]
  /\ log \in Seq(Record)
  /\ held \in [Player -> Nat \cup {NoLease}]
  /\ pc \in {"idle", "begin", "turn", "abort", "over"}
  /\ attempt \in 0 .. 2 /\ calls \in Nat

(* Between handlers the ledgers balance: what the engine did since the grant *)
(* is exactly what was authorized plus what was flagged (no slack is left    *)
(* that could hide a later mutation, referee.py _sweep).                     *)
LedgersBalance == actual = AddRows(allowed, acknowledged)

(* The watchdog flags exactly the rows written without authority: none       *)
(* escapes through a retry, a rollback, an abort or the phase boundary, none *)
(* is reported twice, and no authorized row is ever flagged.                 *)
FlagsExactlyTheRogueRows == flagged = rogue

(* The violation counters, in total and per seat, are the VIOLATION records. *)
CountersMatchLog ==
  /\ violations = Cardinality(Positions("VIOLATION"))
  /\ \A p \in Player :
       blame[p] = Cardinality({i \in Positions("VIOLATION") : log[i].player = p})

(* The live index and diary are what a resume would rebuild from the log,    *)
(* after duplicates, rollbacks and re-executed keys.                         *)
DerivedStateMatchesLog == dedupe = DedupeFrom(log) /\ diary = DiaryFrom(log)

(* An idempotency key is carried out again only after its last execution was *)
(* rolled back.                                                              *)
AtMostOnce ==
  \A i, j \in DOMAIN log :
    i < j /\ Committed(log[i]) /\ Committed(log[j]) /\ log[i].key = log[j].key
      => \E k \in i .. j : Undone(log[k]) /\ log[k].key = log[i].key

(* An accepted call lies inside the latest lease, which is the caller's own, *)
(* of the same turn and not released; only the end_turn pair follows it.     *)
AcceptedUnderOwnLease ==
  \A j \in Positions("TOOL_RESULT") :
    log[j].status = "accepted" =>
      \E i \in Positions("LEASE_GRANT") :
        /\ i < j /\ log[i].player = log[j].player /\ log[i].turn = log[j].turn
        /\ \A k \in i + 1 .. j :
             /\ log[k].kind # "LEASE_GRANT"
             /\ log[k].kind = "LEASE_RELEASE" => log[j].tool = "end_turn" /\ j = k + 3

(* In rollback mode a step that flags rows leaves the world and the index as *)
(* they were, unless it is begin_turn's last attempt or closes the phase.    *)
RollbackLeavesNoTrace ==
  [][Rollback /\ flagged' # flagged =>
       \/ UNCHANGED <<world, dedupe, phasePlayer>>
       \/ phasePlayer = -1 /\ attempt = 2
       \/ phasePlayer' = -1]_vars

(* The match ends: the retries are bounded, the gate turns a seat away once, *)
(* and every abort is cleaned up.  Fair are the coordinator, which awaits    *)
(* each handler, and a runtime's end_turn, which all of them come to.        *)
Fairness ==
  /\ WF_vars(BeginAttempt) /\ WF_vars(Return) /\ WF_vars(AbortCleanup)
  /\ WF_vars(\E p \in Player : GrantLease(p))
  /\ WF_vars(\E p \in Player : BounceEndTurn(p) \/ EndTurn(p))

FairSpec == Spec /\ Fairness

MatchEnds == <>(pc = "over" \/ (pc = "idle" /\ turn > MaxTurn))

=============================================================================
