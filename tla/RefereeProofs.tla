---------------------------- MODULE RefereeProofs ----------------------------
(***************************************************************************)
(* What the referee's ledgers guarantee, for every set of fields, every    *)
(* chaos schedule, every limit and any number of turns and calls, and the  *)
(* types of all that its handlers share.                                   *)
(***************************************************************************)
EXTENDS Referee, SequenceTheorems, TLAPS

-----------------------------------------------------------------------------
(* The ledger diff, for every set of fields and every ledger *)

(* The ledgers the referee builds are ledgers. *)
LEMMA LedgerTypes ==
  /\ NoRows \in Ledger
  /\ \A row : Single(row) \in Ledger
  /\ \A a, b \in Ledger : AddRows(a, b) \in Ledger /\ Excess(a, b) \in Ledger
<1>1. NoRows \in Ledger
  BY DEF NoRows, Ledger
<1>2. \A row : Single(row) \in Ledger
  BY DEF Single, Ledger
<1>3. ASSUME NEW a \in Ledger, NEW b \in Ledger
      PROVE  AddRows(a, b) \in Ledger /\ Excess(a, b) \in Ledger
  <2>1. \A r \in Row : a[r] \in Nat /\ b[r] \in Nat
    BY DEF Ledger
  <2>2. AddRows(a, b) \in Ledger
    BY <2>1 DEF AddRows, Ledger
  <2>3. Excess(a, b) \in Ledger
    BY <2>1 DEF Excess, Ledger
  <2> QED BY <2>2, <2>3
<1> QED BY <1>1, <1>2, <1>3

(* What the engine did on top of what was expected is flagged, all of it     *)
(* and nothing else: the diff neither misses a row nor blames a good one,    *)
(* also when a rogue row equals an expected one.                             *)
LEMMA ExcessIsTheSurplus ==
  ASSUME NEW expected \in Ledger, NEW surplus \in Ledger
  PROVE  Excess(AddRows(expected, surplus), expected) = surplus
<1>1. surplus = [r \in Row |-> surplus[r]]
  BY DEF Ledger
<1>2. \A r \in Row : expected[r] \in Nat /\ surplus[r] \in Nat
  BY DEF Ledger
<1>3. \A r \in Row :
        Excess(AddRows(expected, surplus), expected)[r] = surplus[r]
  BY <1>2 DEF Excess, AddRows
<1>4. Excess(AddRows(expected, surplus), expected)
        = [r \in Row |-> Excess(AddRows(expected, surplus), expected)[r]]
  BY DEF Excess
<1> QED BY <1>1, <1>3, <1>4

(* The watchdog is clean exactly when every row has its authority.           *)
THEOREM CleanIffAuthorized ==
  ASSUME NEW happened \in Ledger, NEW expected \in Ledger
  PROVE  ViolationCount(happened, expected) = 0
           <=> \A r \in Row : happened[r] <= expected[r]
<1>1. \A r \in Row : happened[r] \in Nat /\ expected[r] \in Nat
  BY DEF Ledger
<1>2. ViolationKinds(happened, expected) = {}
        <=> \A r \in Row : ~(happened[r] > expected[r])
  BY DEF ViolationKinds
<1>3. ViolationCount(happened, expected) = 0 <=> ViolationKinds(happened, expected) = {}
  BY DEF ViolationCount
<1> QED BY <1>1, <1>2, <1>3

(* Acknowledging what was flagged silences it: the next sweep starts clean.  *)
THEOREM AcknowledgedRowsAreSilent ==
  ASSUME NEW happened \in Ledger, NEW expected \in Ledger
  PROVE  ViolationCount(happened, AddRows(expected, Excess(happened, expected))) = 0
<1> DEFINE covered == AddRows(expected, Excess(happened, expected))
<1>1. covered \in Ledger
  BY LedgerTypes
<1>2. \A r \in Row : happened[r] \in Nat /\ expected[r] \in Nat
  BY DEF Ledger
<1>3. \A r \in Row : happened[r] <= covered[r]
  BY <1>2 DEF AddRows, Excess
<1> HIDE DEF covered
<1>4. ViolationCount(happened, covered) = 0
  BY <1>1, <1>3, CleanIffAuthorized
<1> QED BY <1>4 DEF covered

-----------------------------------------------------------------------------
(* Arithmetic of ledgers *)

(* Two ledgers with the same counts are the same ledger. *)
LEMMA SameLedger ==
  ASSUME NEW a \in Ledger, NEW b \in Ledger, \A r \in Row : a[r] = b[r]
  PROVE  a = b
BY DEF Ledger

LEMMA AddNothing == AddRows(NoRows, NoRows) = NoRows
BY DEF AddRows, NoRows

(* A begin_turn attempt: the manifest is expected, chaos comes on top. *)
LEMMA ManifestAndChaos ==
  ASSUME NEW m \in Ledger, NEW c \in Ledger
  PROVE  AddRows(c, m) = AddRows(AddRows(m, NoRows), c)
<1>1. \A r \in Row : m[r] \in Nat /\ c[r] \in Nat
  BY DEF Ledger
<1>2. \A r \in Row : AddRows(c, m)[r] = AddRows(AddRows(m, NoRows), c)[r]
  BY <1>1 DEF AddRows, NoRows
<1> QED BY <1>2, SameLedger, LedgerTypes

(* An order: its receipt is expected, chaos comes on top. *)
LEMMA ReceiptAndChaos ==
  ASSUME NEW b \in Ledger, NEW k \in Ledger, NEW m \in Ledger, NEW c \in Ledger
  PROVE  AddRows(AddRows(b, k), AddRows(m, c))
           = AddRows(AddRows(AddRows(b, m), k), c)
<1>1. \A r \in Row : b[r] \in Nat /\ k[r] \in Nat /\ m[r] \in Nat /\ c[r] \in Nat
  BY DEF Ledger
<1>2. \A r \in Row : AddRows(AddRows(b, k), AddRows(m, c))[r]
                       = AddRows(AddRows(AddRows(b, m), k), c)[r]
  BY <1>1 DEF AddRows
<1>3. /\ AddRows(AddRows(b, k), AddRows(m, c)) \in Ledger
      /\ AddRows(AddRows(AddRows(b, m), k), c) \in Ledger
  BY LedgerTypes
<1> QED BY <1>2, <1>3, SameLedger

LEMMA AddAssociates ==
  ASSUME NEW b \in Ledger, NEW k \in Ledger, NEW c \in Ledger
  PROVE  AddRows(AddRows(b, k), c) = AddRows(b, AddRows(k, c))
<1>1. \A r \in Row : b[r] \in Nat /\ k[r] \in Nat /\ c[r] \in Nat
  BY DEF Ledger
<1>2. \A r \in Row : AddRows(AddRows(b, k), c)[r] = AddRows(b, AddRows(k, c))[r]
  BY <1>1 DEF AddRows
<1>3. /\ AddRows(AddRows(b, k), c) \in Ledger
      /\ AddRows(b, AddRows(k, c)) \in Ledger
  BY LedgerTypes
<1> QED BY <1>2, <1>3, SameLedger

LEMMA EngineRowsAreLedgers ==
  /\ \A hook, w, p : ChaosRows(hook, w, p) \in Ledger
  /\ \A w, p : AmbientRows(w, p) \in Ledger
<1>1. \A hook, w, p : ChaosRows(hook, w, p) \in Ledger
  BY LedgerTypes DEF ChaosRows
<1>2. \A w, p : AmbientRows(w, p) \in Ledger
  BY DEF AmbientRows, Ledger
<1> QED BY <1>1, <1>2

-----------------------------------------------------------------------------
(* The inductive invariant.  That flagged = rogue is not inductive alone:    *)
(* the diff only reports all of a surplus when no slack is left in what is   *)
(* expected (LedgersBalance), and a begin_turn attempt compares with what    *)
(* was acknowledged before it, which must be nothing.                        *)
IInv ==
  /\ allowed \in Ledger /\ actual \in Ledger /\ acknowledged \in Ledger
  /\ rogue \in Ledger
  /\ pc \in {"idle", "begin", "turn", "abort", "over"}
  /\ pc = "begin" => acknowledged = NoRows
  /\ LedgersBalance
  /\ FlagsExactlyTheRogueRows

(* A sweep whose surplus over the expected rows is exactly what chaos wrote  *)
(* leaves the ledgers balanced and the history of flags complete.            *)
LEMMA SweepStep ==
  ASSUME IInv,
         NEW expected \in Ledger, NEW surplus \in Ledger, NEW happened,
         happened = AddRows(AddRows(expected, acknowledged), surplus)
  PROVE  /\ Excess(happened, AddRows(expected, acknowledged)) = surplus
         /\ happened \in Ledger
         /\ happened = AddRows(expected, AddRows(acknowledged, surplus))
         /\ AddRows(acknowledged, surplus) \in Ledger
         /\ AddRows(rogue, surplus) \in Ledger
<1>1. acknowledged \in Ledger /\ rogue \in Ledger
  BY DEF IInv
<1>2. AddRows(expected, acknowledged) \in Ledger
  BY <1>1, LedgerTypes
<1>3. Excess(happened, AddRows(expected, acknowledged)) = surplus
  BY <1>2, ExcessIsTheSurplus
<1>4. happened = AddRows(expected, AddRows(acknowledged, surplus))
  BY <1>1, AddAssociates
<1> QED BY <1>1, <1>2, <1>3, <1>4, LedgerTypes

LEMMA InitIInv == Init => IInv
BY LedgerTypes, AddNothing
DEF Init, IInv, LedgersBalance, FlagsExactlyTheRogueRows

LEMMA GrantPreserves ==
  ASSUME IInv, NEW p \in Player, GrantLease(p)
  PROVE  IInv'
BY LedgerTypes, AddNothing
DEF GrantLease, IInv, LedgersBalance, FlagsExactlyTheRogueRows

LEMMA BeginAttemptPreserves ==
  ASSUME IInv, BeginAttempt
  PROVE  IInv'
<1> DEFINE p        == lease.player
           surplus  == ChaosRows("begin_phase", world, 0)
           hit      == ChaosWorld("begin_phase", world, 0)
           manifest == AmbientRows(hit, p)
           happened == AddRows(surplus, manifest)
           excess   == Excess(happened, AddRows(manifest, acknowledged))
<1>1. surplus \in Ledger /\ manifest \in Ledger
  BY EngineRowsAreLedgers
<1>2. acknowledged = NoRows
  BY DEF BeginAttempt, IInv
<1>3. happened = AddRows(AddRows(manifest, acknowledged), surplus)
  BY <1>1, <1>2, ManifestAndChaos
<1>4. /\ rogue' = AddRows(rogue, surplus)
      /\ flagged' = AddRows(flagged, excess)
      /\ \/ allowed' = NoRows /\ actual' = NoRows /\ acknowledged' = NoRows
         \/ /\ allowed' = manifest /\ actual' = happened
            /\ acknowledged' = AddRows(acknowledged, excess)
            /\ pc' # "begin"
      /\ pc' \in {"begin", "turn", "abort"}
  BY DEF BeginAttempt, ResetLedgers, Acknowledge
<1>5. /\ excess = surplus /\ happened \in Ledger
      /\ happened = AddRows(manifest, AddRows(acknowledged, surplus))
      /\ AddRows(acknowledged, surplus) \in Ledger
      /\ AddRows(rogue, surplus) \in Ledger
  <2> HIDE DEF surplus, manifest, happened
  <2> QED BY <1>1, <1>3, SweepStep DEF excess
<1> HIDE DEF surplus, manifest, happened, excess
<1> QED BY <1>1, <1>4, <1>5, LedgerTypes, AddNothing
        DEF IInv, LedgersBalance, FlagsExactlyTheRogueRows

LEMMA OrderPreserves ==
  ASSUME IInv, NEW p \in Player, NEW e \in Entity, NEW nonce,
         OrderApplied(p, e, nonce)
  PROVE  IInv'
<1> DEFINE receipt  == Single([entity |-> e, before |-> world[e],
                               after |-> world[e] - 1])
           ordered  == [world EXCEPT ![e] = @ - 1]
           surplus  == ChaosRows("act", ordered, p)
           expected == AddRows(allowed, receipt)
           happened == AddRows(actual, AddRows(receipt, surplus))
           excess   == Excess(happened, AddRows(expected, acknowledged))
<1>1. /\ surplus \in Ledger /\ receipt \in Ledger /\ allowed \in Ledger
      /\ acknowledged \in Ledger /\ actual = AddRows(allowed, acknowledged)
  BY EngineRowsAreLedgers, LedgerTypes DEF IInv, LedgersBalance
<1>2. /\ rogue' = AddRows(rogue, surplus)
      /\ flagged' = AddRows(flagged, excess)
      /\ allowed' = expected /\ actual' = happened
      /\ acknowledged' = AddRows(acknowledged, excess)
      /\ pc' \in {"turn", "abort"}
  BY DEF OrderApplied, Sweep, Acknowledge, CallsLeft
<1> HIDE DEF surplus, receipt
<1>3. expected \in Ledger
  BY <1>1, LedgerTypes
<1>4. happened = AddRows(AddRows(expected, acknowledged), surplus)
  BY <1>1, ReceiptAndChaos
<1>5. /\ excess = surplus /\ happened \in Ledger
      /\ happened = AddRows(expected, AddRows(acknowledged, surplus))
      /\ AddRows(acknowledged, surplus) \in Ledger
      /\ AddRows(rogue, surplus) \in Ledger
  <2> HIDE DEF expected, happened
  <2> QED BY <1>1, <1>3, <1>4, SweepStep DEF excess
<1> HIDE DEF expected, happened, excess
<1> QED BY <1>2, <1>3, <1>5
        DEF IInv, LedgersBalance, FlagsExactlyTheRogueRows

(* end_turn and abort_cleanup sweep what the closing phase fired. *)
LEMMA ClosingSweepPreserves ==
  ASSUME IInv, NEW p, NEW surplus \in Ledger,
         rogue' = AddRows(rogue, surplus),
         Sweep(AddRows(actual, surplus), allowed, p),
         pc' \in {"turn", "abort", "over"}
  PROVE  IInv'
<1> DEFINE happened == AddRows(actual, surplus)
           excess   == Excess(happened, AddRows(allowed, acknowledged))
<1>1. allowed \in Ledger /\ happened = AddRows(AddRows(allowed, acknowledged), surplus)
  BY DEF IInv, LedgersBalance
<1>2. /\ flagged' = AddRows(flagged, excess)
      /\ allowed' = allowed /\ actual' = happened
      /\ acknowledged' = AddRows(acknowledged, excess)
  BY DEF Sweep, Acknowledge
<1>3. /\ excess = surplus /\ happened \in Ledger
      /\ happened = AddRows(allowed, AddRows(acknowledged, surplus))
      /\ AddRows(acknowledged, surplus) \in Ledger
      /\ AddRows(rogue, surplus) \in Ledger
  <2> HIDE DEF happened
  <2> QED BY <1>1, SweepStep DEF excess
<1> HIDE DEF happened, excess
<1> QED BY <1>1, <1>2, <1>3
        DEF IInv, LedgersBalance, FlagsExactlyTheRogueRows

LEMMA EndTurnPreserves ==
  ASSUME IInv, NEW p \in Player, EndTurn(p)
  PROVE  IInv'
<1> DEFINE surplus == ChaosRows("end_phase", world, p)
<1>1. surplus \in Ledger
  BY EngineRowsAreLedgers
<1>2. /\ rogue' = AddRows(rogue, surplus)
      /\ Sweep(AddRows(actual, surplus), allowed, p)
      /\ pc' \in {"turn", "abort", "over"}
  BY DEF EndTurn
<1> HIDE DEF surplus
<1> QED BY <1>1, <1>2, ClosingSweepPreserves

LEMMA CleanupPreserves ==
  ASSUME IInv, AbortCleanup
  PROVE  IInv'
<1>1. CASE phasePlayer = -1
  BY <1>1 DEF AbortCleanup, IInv, LedgersBalance, FlagsExactlyTheRogueRows,
              ledgerVars
<1>2. CASE phasePlayer # -1
  <2> DEFINE surplus == ChaosRows("end_phase", world, phasePlayer)
  <2>1. surplus \in Ledger
    BY EngineRowsAreLedgers
  <2>2. /\ rogue' = AddRows(rogue, surplus)
        /\ Sweep(AddRows(actual, surplus), allowed, phasePlayer)
        /\ pc' \in {"turn", "abort", "over"}
    BY <1>2 DEF AbortCleanup
  <2> HIDE DEF surplus
  <2> QED BY <2>1, <2>2, ClosingSweepPreserves
<1> QED BY <1>1, <1>2

(* Every other step leaves the ledgers alone and does not start a turn. *)
LEMMA QuietPreserves ==
  ASSUME IInv, UNCHANGED ledgerVars,
         pc' = pc \/ pc' \in {"idle", "abort"}
  PROVE  IInv'
BY DEF IInv, LedgersBalance, FlagsExactlyTheRogueRows, ledgerVars

LEMMA StepPreserves == IInv /\ [Next]_vars => IInv'
<1> SUFFICES ASSUME IInv, [Next]_vars PROVE IInv'
  OBVIOUS
<1>1. ASSUME NEW p \in Player, GrantLease(p) PROVE IInv'
  BY <1>1, GrantPreserves
<1>2. CASE BeginAttempt
  BY <1>2, BeginAttemptPreserves
<1>3. ASSUME NEW p \in Player, Call(p) PROVE IInv'
  <2>1. ASSUME NEW e \in Entity, NEW nonce \in Nonce \cup {NoKey},
               OrderApplied(p, e, nonce)
        PROVE  IInv'
    BY <2>1, OrderPreserves
  <2>2. ASSUME UNCHANGED gameVars PROVE IInv'
    BY <2>2, QuietPreserves DEF gameVars
  <2>3. CASE RefuseOrder(p)
    BY <2>3, <2>2 DEF RefuseOrder
  <2>4. ASSUME NEW tool, RefuseOther(p, tool) PROVE IInv'
    BY <2>4, <2>2 DEF RefuseOther
  <2>5. ASSUME NEW tool, Observe(p, tool) PROVE IInv'
    BY <2>5, <2>2 DEF Observe
  <2>6. ASSUME NEW note, WriteDiary(p, note) PROVE IInv'
    BY <2>6, <2>2 DEF WriteDiary
  <2>7. ASSUME NEW e, OrderNotYours(p, e) PROVE IInv'
    BY <2>7, <2>2 DEF OrderNotYours
  <2>8. ASSUME NEW e, NEW nonce, OrderDuplicate(p, e, nonce) PROVE IInv'
    BY <2>8, <2>2 DEF OrderDuplicate
  <2>9. ASSUME NEW e, NEW nonce, OrderIllegal(p, e, nonce) PROVE IInv'
    BY <2>9, <2>2 DEF OrderIllegal
  <2> QED BY <1>3, <2>1, <2>3, <2>4, <2>5, <2>6, <2>7, <2>8, <2>9 DEF Call, Order
<1>4. ASSUME NEW p \in Player, BounceEndTurn(p) PROVE IInv'
  BY <1>4, QuietPreserves DEF BounceEndTurn, gameVars
<1>5. ASSUME NEW p \in Player, EndTurn(p) PROVE IInv'
  BY <1>5, EndTurnPreserves
<1>6. CASE Return
  BY <1>6, QuietPreserves DEF Return
<1>7. CASE RuntimeAborts
  BY <1>7, QuietPreserves DEF RuntimeAborts
<1>8. CASE AbortCleanup
  BY <1>8, CleanupPreserves
<1>9. CASE UNCHANGED vars
  BY <1>9, QuietPreserves DEF vars, callerVars
<1> QED BY <1>1, <1>2, <1>3, <1>4, <1>5, <1>6, <1>7, <1>8, <1>9 DEF Next, TurnStep

(* Between handlers the ledgers balance: nothing that was authorized or      *)
(* flagged before can excuse a mutation that happens later.                  *)
THEOREM LedgersAlwaysBalance == Spec => []LedgersBalance
<1>1. IInv => LedgersBalance
  BY DEF IInv
<1> QED BY <1>1, InitIInv, StepPreserves, PTL DEF Spec

(* The watchdog flags exactly the rows written without authority, through    *)
(* retries, rollbacks, aborts and phase boundaries.                          *)
THEOREM WatchdogIsExact == Spec => []FlagsExactlyTheRogueRows
<1>1. IInv => FlagsExactlyTheRogueRows
  BY DEF IInv
<1> QED BY <1>1, InitIInv, StepPreserves, PTL DEF Spec

-----------------------------------------------------------------------------
(* Type correctness: what the handlers share stays in its domain whatever    *)
(* the calls, the chaos schedule and the length of the match.  The ledgers   *)
(* are typed by IInv.                                                        *)

LEMMA CountType ==
  ASSUME NEW actualRows, NEW allowedRows
  PROVE  ViolationCount(actualRows, allowedRows) \in Nat
BY DEF ViolationCount

LEMMA FoundType == \A h, e : Found(h, e) \in Nat
BY CountType DEF Found

LEMMA RecordTypes ==
  ASSUME turn \in Nat, NEW p \in Player
  PROVE  /\ \A kind \in Kind : Event(kind, p, turn) \in Record
         /\ \A tool \in Tool, arg \in Entity \cup Note \cup {NoArg},
               key \in Key \cup {NoKey}, status \in {"accepted", "rejected"},
               dup \in BOOLEAN : Pair(tool, p, arg, key, status, dup) \in Seq(Record)
         /\ \A key \in Key : RolledBack(p, key) \in Record
         /\ \A n \in Nat : Flags(n, p, turn) \in Seq(Record)
<1>1. \A kind \in Kind : Event(kind, p, turn) \in Record
  BY DEF Event, Record, Tool
<1>2. ASSUME NEW tool \in Tool, NEW arg \in Entity \cup Note \cup {NoArg},
             NEW key \in Key \cup {NoKey}, NEW status \in {"accepted", "rejected"},
             NEW dup \in BOOLEAN
      PROVE  Pair(tool, p, arg, key, status, dup) \in Seq(Record)
  <2>1. ToolCall(tool, p, arg, key) \in Record
    BY DEF ToolCall, Event, Record, Tool, Kind
  <2>2. ToolResult(tool, p, key, status, dup) \in Record
    BY DEF ToolResult, Event, Record, Tool, Kind
  <2> QED BY <2>1, <2>2 DEF Pair
<1>3. ASSUME NEW key \in Key
      PROVE  RolledBack(p, key) \in Record
  BY DEF RolledBack, ToolResult, Event, Record, Tool, Kind
<1>4. ASSUME NEW n \in Nat
      PROVE  Flags(n, p, turn) \in Seq(Record)
  <2>1. Event("VIOLATION", p, turn) \in Record
    BY <1>1 DEF Kind
  <2> QED BY <2>1, IsASeq DEF Flags
<1> QED BY <1>1, <1>2, <1>3, <1>4

(* The world stays typed under chaos, and the queue under its own advance. *)
LEMMA ChaosTypes ==
  ASSUME chaos \in Seq(ChaosEvent), NEW hook, NEW w \in [Entity -> Val],
         NEW p \in Player
  PROVE  /\ ChaosAfter(hook) \in Seq(ChaosEvent)
         /\ ChaosWorld(hook, w, p) \in [Entity -> Val]
<1>1. ASSUME chaos # <<>>
      PROVE  /\ Head(chaos) \in ChaosEvent /\ Tail(chaos) \in Seq(ChaosEvent)
  BY <1>1
<1>2. ChaosAfter(hook) \in Seq(ChaosEvent)
  <2>1. CASE ~Due(hook)
    BY <2>1 DEF ChaosAfter
  <2>2. CASE Due(hook) /\ Head(chaos).offset > 0
    <3>1. chaos # <<>>
      BY <2>2 DEF Due
    <3>2. [Head(chaos) EXCEPT !.offset = @ - 1] \in ChaosEvent
      <4>1. PICK h \in ChaosEvent : h = Head(chaos)
        BY <1>1, <3>1
      <4>2. h.offset \in Nat /\ h.offset - 1 \in Nat
        BY <2>2, <4>1 DEF ChaosEvent
      <4>3. [h EXCEPT !.offset = h.offset - 1] \in ChaosEvent
        BY <4>2 DEF ChaosEvent
      <4> QED BY <4>1, <4>3
    <3>3. <<[Head(chaos) EXCEPT !.offset = @ - 1]>> \o Tail(chaos) \in Seq(ChaosEvent)
      BY <1>1, <3>1, <3>2
    <3> QED BY <2>2, <3>3 DEF ChaosAfter
  <2>3. CASE Due(hook) /\ ~(Head(chaos).offset > 0)
    BY <1>1, <2>3 DEF ChaosAfter, Due
  <2> QED BY <2>1, <2>2, <2>3
<1>3. ChaosWorld(hook, w, p) \in [Entity -> Val]
  <2>1. CASE ~Fires(hook)
    BY <2>1 DEF ChaosWorld
  <2>2. CASE Fires(hook)
    <3>1. /\ Head(chaos).target[p] \in Entity
          /\ Head(chaos).value \in Val
      BY <1>1, <2>2 DEF Fires, Due, ChaosEvent
    <3>2. Stolen(w[Head(chaos).target[p]]) \in Val
      BY <3>1, TopAssumption DEF Stolen, Val
    <3>3. ChaosRow(w, p).entity \in Entity /\ ChaosRow(w, p).after \in Val
      BY <3>1, <3>2 DEF ChaosRow
    <3> QED BY <2>2, <3>3 DEF ChaosWorld
  <2> QED BY <2>1, <2>2
<1> QED BY <1>2, <1>3

LEMMA AmbientType ==
  ASSUME NEW w \in [Entity -> Val], NEW p
  PROVE  AmbientWorld(w, p) \in [Entity -> Val]
BY TopAssumption DEF AmbientWorld, Val

LEMMA KeyType ==
  ASSUME turn \in Nat, NEW p \in Player, NEW e \in Entity,
         NEW nonce \in Nonce \cup {NoKey}
  PROVE  KeyFor(p, e, nonce) \in Key
BY DEF KeyFor, Key, NonceKey, ContentKey

LEMMA ClockType ==
  ASSUME TypeOK, ClosePhase
  PROVE  /\ turn' \in Nat /\ phaseIndex' \in Nat
         /\ phasePlayer' \in Player \cup {-1}
BY DEF ClosePhase, TypeOK

LEMMA BlameType ==
  ASSUME TypeOK, NEW p \in Player, NEW n \in Nat
  PROVE  [blame EXCEPT ![p] = @ + n] \in [Player -> Nat] /\ violations + n \in Nat
BY DEF TypeOK

LEMMA LogGrows ==
  ASSUME log \in Seq(Record), NEW r \in Record, NEW s \in Seq(Record)
  PROVE  Append(log, r) \in Seq(Record) /\ Append(log, r) \o s \in Seq(Record)
OBVIOUS

LEMMA LogExtends ==
  ASSUME log \in Seq(Record), NEW s \in Seq(Record)
  PROVE  log \o s \in Seq(Record)
OBVIOUS

LEMMA LogExtendsTwice ==
  ASSUME log \in Seq(Record), NEW s \in Seq(Record), NEW t \in Seq(Record),
         NEW u \in Seq(Record)
  PROVE  log \o s \o t \o u \in Seq(Record)
<1>1. log \o s \in Seq(Record)
  OBVIOUS
<1>2. log \o s \o t \in Seq(Record)
  BY <1>1
<1> QED BY <1>2

-----------------------------------------------------------------------------
(* Steps *)

\* Everything but the ledgers, whose types IInv carries.
Typed == TypeOK /\ IInv

LEMMA LedgersTyped ==
  ASSUME IInv
  PROVE  /\ allowed \in Ledger /\ actual \in Ledger /\ acknowledged \in Ledger
         /\ rogue \in Ledger /\ flagged \in Ledger
BY DEF IInv, FlagsExactlyTheRogueRows

LEMMA InitTyped == Init => TypeOK
<1> SUFFICES ASSUME Init PROVE TypeOK
  OBVIOUS
<1>1. <<Event("MATCH_START", 0, 0)>> \in Seq(Record)
  <2>1. Event("MATCH_START", 0, 0) \in Record
    BY RefereeAssumption DEF Event, Record, Kind, Tool
  <2> QED BY <2>1
<1>2. chaos \in Seq(ChaosEvent) /\ 0 \in Player
  BY RefereeAssumption DEF Init
<1> QED BY <1>1, <1>2, TopAssumption, LedgersTyped, InitIInv DEF Init, TypeOK, Val

LEMMA GrantTyped ==
  ASSUME TypeOK, IInv', NEW p \in Player, GrantLease(p)
  PROVE  TypeOK'
<1>1. Event("LEASE_GRANT", p, turn) \in Record
  BY RecordTypes DEF TypeOK, Kind
<1>2. log' \in Seq(Record) /\ lease'.id \in Nat
  BY <1>1 DEF GrantLease, TypeOK
<1>3. (/\ allowed \in Ledger /\ actual \in Ledger /\ acknowledged \in Ledger
        /\ rogue \in Ledger /\ flagged \in Ledger)'
  BY LedgersTyped, PTL
<1> QED BY <1>2, <1>3 DEF GrantLease, TypeOK, engineVars, countVars

LEMMA BeginAttemptTyped ==
  ASSUME TypeOK, IInv', BeginAttempt
  PROVE  TypeOK'
<1> DEFINE p        == lease.player
           hit      == ChaosWorld("begin_phase", world, 0)
           manifest == AmbientRows(hit, p)
           happened == AddRows(ChaosRows("begin_phase", world, 0), manifest)
           n        == Found(happened, manifest)
<1>1. p \in Player /\ 0 \in Player /\ n \in Nat
  BY RefereeAssumption, FoundType DEF TypeOK
<1>2. hit \in [Entity -> Val] /\ chaos' \in Seq(ChaosEvent)
  BY <1>1, ChaosTypes DEF TypeOK, BeginAttempt
<1>3. AmbientWorld(hit, p) \in [Entity -> Val]
  BY <1>2, AmbientType
<1>4. /\ log' = Append(log, Event("AMBIENT", p, turn)) \o Flags(n, p, turn)
      /\ violations' = violations + n
      /\ blame' = [blame EXCEPT ![p] = @ + n]
      /\ UNCHANGED <<turn, phaseIndex, lease, bounced, dedupe, diary, calls>>
  BY DEF BeginAttempt
<1>world.
      \/ world' = world /\ phasePlayer' = phasePlayer
      \/ world' = AmbientWorld(hit, p) /\ phasePlayer' = p
  <2> HIDE DEF p, n, hit
  <2> QED BY DEF BeginAttempt, p, hit
<1>control.
      /\ \/ pc' = "abort" /\ attempt' = attempt /\ held' = held
         \/ pc' = pc /\ attempt' = attempt + 1 /\ attempt # 2 /\ held' = held
         \/ pc' = "turn" /\ attempt' = attempt /\ held' = [held EXCEPT ![p] = lease.id]
      /\ pc = "begin"
  BY DEF BeginAttempt, LastAttempt
<1> HIDE DEF p, n, hit
<1>5. log' \in Seq(Record)
  BY <1>1, <1>4, RecordTypes, LogGrows DEF TypeOK, Kind
<1>6. blame' \in [Player -> Nat] /\ violations' \in Nat
  BY <1>1, <1>4, BlameType
<1>7. held' \in [Player -> Nat \cup {NoLease}]
  BY <1>1, <1>control DEF TypeOK
<1>8. attempt' \in 0 .. 2
  BY <1>control DEF TypeOK
<1>9. world' \in [Entity -> Val] /\ phasePlayer' \in Player \cup {-1}
  BY <1>1, <1>3, <1>world DEF TypeOK
<1>10. (/\ allowed \in Ledger /\ actual \in Ledger /\ acknowledged \in Ledger
        /\ rogue \in Ledger /\ flagged \in Ledger)'
  BY LedgersTyped, PTL
<1> QED BY <1>2, <1>4, <1>5, <1>6, <1>7, <1>8, <1>9, <1>10, <1>control DEF TypeOK

(* A call that only logs: the record types of what it logs are all there is. *)
LEMMA QuietTyped ==
  ASSUME TypeOK, log' \in Seq(Record), calls' \in Nat,
         diary' \in [Player -> Note \cup {NoArg}],
         bounced' \subseteq Player \X Nat,
         pc' \in {"idle", "begin", "turn", "abort", "over"},
         UNCHANGED <<engineVars, lease, ledgerVars, countVars, dedupe, held, attempt>>
  PROVE  TypeOK'
BY DEF TypeOK, engineVars, ledgerVars, countVars

LEMMA CallsCounted ==
  ASSUME TypeOK, NEW p, CallsLeft(p)
  PROVE  calls' \in Nat /\ pc = "turn"
BY DEF TypeOK, CallsLeft

LEMMA RefusalsTyped ==
  ASSUME TypeOK, NEW p \in Player, NEW tool \in {"write_diary", "end_turn"} \cup Read,
         RefuseOrder(p) \/ RefuseOther(p, tool)
  PROVE  TypeOK'
<1>1. Unauthorized(p) \in Record
  BY RecordTypes DEF Unauthorized, TypeOK, Kind
<1>2. Pair(tool, p, NoArg, NoKey, "rejected", FALSE) \in Seq(Record)
  BY RecordTypes DEF TypeOK, Tool
<1>3. CASE RefuseOrder(p)
  <2>1. log' \in Seq(Record)
    BY <1>1, <1>3 DEF RefuseOrder, TypeOK
  <2> QED BY <1>3, <2>1, CallsCounted, QuietTyped DEF RefuseOrder, gameVars, TypeOK
<1>4. CASE RefuseOther(p, tool)
  <2>1. log' \in Seq(Record)
    BY <1>1, <1>2, <1>4, LogGrows DEF RefuseOther, TypeOK
  <2> QED BY <1>4, <2>1, CallsCounted, QuietTyped DEF RefuseOther, gameVars, TypeOK
<1> QED BY <1>3, <1>4

LEMMA ObserveTyped ==
  ASSUME TypeOK, NEW p \in Player, NEW tool \in Read, Observe(p, tool)
  PROVE  TypeOK'
<1>1. Pair(tool, p, NoArg, NoKey, "accepted", FALSE) \in Seq(Record)
  BY RecordTypes DEF TypeOK, Tool
<1>2. log' \in Seq(Record)
  BY <1>1, LogExtends DEF Observe, TypeOK
<1> QED BY <1>2, CallsCounted, QuietTyped DEF Observe, gameVars, TypeOK

LEMMA DiaryTyped ==
  ASSUME TypeOK, NEW p \in Player, NEW note \in Note, WriteDiary(p, note)
  PROVE  TypeOK'
<1>1. Pair("write_diary", p, note, NoKey, "accepted", FALSE) \in Seq(Record)
  BY RecordTypes DEF TypeOK, Tool
<1>2. log' \in Seq(Record) /\ diary' \in [Player -> Note \cup {NoArg}]
  BY <1>1, LogExtends DEF WriteDiary, TypeOK
<1> QED BY <1>2, CallsCounted, QuietTyped DEF WriteDiary, gameVars, TypeOK

LEMMA AnsweredOrdersTyped ==
  ASSUME TypeOK, NEW p \in Player, NEW e \in Entity, NEW nonce \in Nonce \cup {NoKey},
         OrderNotYours(p, e) \/ OrderDuplicate(p, e, nonce) \/ OrderIllegal(p, e, nonce)
  PROVE  TypeOK'
<1>1. KeyFor(p, e, nonce) \in Key
  BY KeyType DEF TypeOK
<1>2. /\ Pair("order", p, e, NoKey, "rejected", FALSE) \in Seq(Record)
      /\ Pair("order", p, e, KeyFor(p, e, nonce), "accepted", TRUE) \in Seq(Record)
      /\ Pair("order", p, e, KeyFor(p, e, nonce), "rejected", FALSE) \in Seq(Record)
  BY <1>1, RecordTypes DEF TypeOK, Tool
<1>3. /\ log' \in Seq(Record) /\ CallsLeft(p)
      /\ UNCHANGED <<gameVars, bounced, dedupe, diary>>
  BY <1>2, LogExtends DEF OrderNotYours, OrderDuplicate, OrderIllegal, TypeOK
<1> QED BY <1>3, CallsCounted, QuietTyped DEF gameVars, TypeOK

LEMMA SweepTyped ==
  ASSUME TypeOK, NEW p \in Player, NEW happened, NEW expected,
         Sweep(happened, expected, p)
  PROVE  violations' \in Nat /\ blame' \in [Player -> Nat]
BY FoundType, BlameType DEF Sweep

LEMMA OrderAppliedTyped ==
  ASSUME TypeOK, IInv', NEW p \in Player, NEW e \in Entity,
         NEW nonce \in Nonce \cup {NoKey}, OrderApplied(p, e, nonce)
  PROVE  TypeOK'
<1> DEFINE key      == KeyFor(p, e, nonce)
           receipt  == Single([entity |-> e, before |-> world[e], after |-> world[e] - 1])
           ordered  == [world EXCEPT ![e] = @ - 1]
           expected == AddRows(allowed, receipt)
           happened == AddRows(actual, AddRows(receipt, ChaosRows("act", ordered, p)))
           n        == Found(happened, expected)
           tail     == IF Rollback /\ n > 0 THEN <<RolledBack(p, key)>> ELSE <<>>
<1>1. key \in Key /\ n \in Nat
  BY KeyType, FoundType DEF TypeOK
<1>2. ordered \in [Entity -> Val]
  BY TopAssumption DEF OrderApplied, TypeOK, Val
<1>3. ChaosWorld("act", ordered, p) \in [Entity -> Val] /\ chaos' \in Seq(ChaosEvent)
  <2> HIDE DEF ordered
  <2> QED BY <1>2, ChaosTypes DEF TypeOK, OrderApplied
<1>4. /\ log' = log \o Pair("order", p, e, key, "accepted", FALSE) \o Flags(n, p, turn) \o tail
      /\ Sweep(happened, expected, p)
      /\ world' \in {world, ChaosWorld("act", ordered, p)}
      /\ dedupe' \subseteq dedupe \cup {key}
      /\ CallsLeft(p)
      /\ pc' \in {"abort", pc}
      /\ UNCHANGED <<turn, phasePlayer, phaseIndex, lease, bounced, diary, held, attempt>>
  BY DEF OrderApplied, IndexAfter
<1>5. violations' \in Nat /\ blame' \in [Player -> Nat]
  BY <1>4, SweepTyped
<1> HIDE DEF key, ordered, expected, happened, n
<1>6. log' \in Seq(Record)
  <2>1. /\ Pair("order", p, e, key, "accepted", FALSE) \in Seq(Record)
        /\ Flags(n, p, turn) \in Seq(Record)
        /\ RolledBack(p, key) \in Record
    BY <1>1, RecordTypes DEF TypeOK, Tool
  <2>2. tail \in Seq(Record)
    BY <2>1
  <2> HIDE DEF tail
  <2> QED BY <1>4, <2>1, <2>2, LogExtendsTwice DEF TypeOK
<1>7. world' \in [Entity -> Val] /\ dedupe' \subseteq Key
  BY <1>1, <1>3, <1>4 DEF TypeOK
<1>8. calls' \in Nat /\ pc = "turn"
  BY <1>4, CallsCounted
<1>9. (/\ allowed \in Ledger /\ actual \in Ledger /\ acknowledged \in Ledger
       /\ rogue \in Ledger /\ flagged \in Ledger)'
  BY LedgersTyped, PTL
<1> QED BY <1>3, <1>4, <1>5, <1>6, <1>7, <1>8, <1>9 DEF TypeOK

LEMMA BounceTyped ==
  ASSUME TypeOK, NEW p \in Player, BounceEndTurn(p)
  PROVE  TypeOK'
<1>1. Pair("end_turn", p, NoArg, NoKey, "rejected", FALSE) \in Seq(Record)
  BY RecordTypes DEF TypeOK, Tool
<1>2. log' \in Seq(Record)
  BY <1>1, LogExtends DEF BounceEndTurn, TypeOK
<1>3. bounced' \subseteq Player \X Nat
  BY DEF BounceEndTurn, TypeOK
<1> QED BY <1>2, <1>3, QuietTyped DEF BounceEndTurn, gameVars, TypeOK

LEMMA EndTurnTyped ==
  ASSUME TypeOK, IInv', NEW p \in Player, EndTurn(p)
  PROVE  TypeOK'
<1> DEFINE happened == AddRows(actual, ChaosRows("end_phase", world, p))
           n        == Found(happened, allowed)
           closing  == <<Event("LEASE_RELEASE", p, turn), Event("TURN_END", p, turn)>>
           pair     == Pair("end_turn", p, NoArg, NoKey, "accepted", FALSE)
<1>1. /\ ClosePhase /\ Sweep(happened, allowed, p)
      /\ lease' = [lease EXCEPT !.released = TRUE]
      /\ log' = log \o closing \o pair \o Flags(n, p, turn)
      /\ world' = ChaosWorld("end_phase", world, p)
      /\ chaos' = ChaosAfter("end_phase")
      /\ pc' \in {"abort", pc}
      /\ UNCHANGED <<bounced, dedupe, diary, held, attempt, calls>>
  BY DEF EndTurn
<1>2. world' \in [Entity -> Val] /\ chaos' \in Seq(ChaosEvent)
  BY <1>1, ChaosTypes DEF TypeOK
<1>3. violations' \in Nat /\ blame' \in [Player -> Nat]
  BY <1>1, SweepTyped
<1>4. turn' \in Nat /\ phaseIndex' \in Nat /\ phasePlayer' \in Player \cup {-1}
  BY <1>1, ClockType
<1>5. lease' \in [id : Nat \cup {NoLease}, player : Player, turn : Nat, released : BOOLEAN]
  BY <1>1 DEF TypeOK
<1>6. n \in Nat
  BY FoundType
<1> HIDE DEF n, happened
<1>7. log' \in Seq(Record)
  <2>1. pair \in Seq(Record) /\ Flags(n, p, turn) \in Seq(Record)
    BY <1>6, RecordTypes DEF TypeOK, Tool
  <2>2. closing \in Seq(Record)
    <3>1. /\ Event("LEASE_RELEASE", p, turn) \in Record
          /\ Event("TURN_END", p, turn) \in Record
      BY RecordTypes DEF TypeOK, Kind
    <3> QED BY <3>1
  <2> HIDE DEF closing, pair
  <2> QED BY <1>1, <2>1, <2>2, LogExtendsTwice DEF TypeOK
<1>8. (/\ allowed \in Ledger /\ actual \in Ledger /\ acknowledged \in Ledger
       /\ rogue \in Ledger /\ flagged \in Ledger)'
  BY LedgersTyped, PTL
<1> QED BY <1>1, <1>2, <1>3, <1>4, <1>5, <1>7, <1>8 DEF TypeOK

LEMMA CleanupTyped ==
  ASSUME TypeOK, IInv', AbortCleanup
  PROVE  TypeOK'
<1>1. CASE phasePlayer = -1
  BY <1>1 DEF AbortCleanup, TypeOK, engineVars, ledgerVars, countVars
<1>2. CASE phasePlayer # -1
  <2> DEFINE p        == phasePlayer
             happened == AddRows(actual, ChaosRows("end_phase", world, p))
             n        == Found(happened, allowed)
  <2>1. /\ ClosePhase /\ Sweep(happened, allowed, p)
        /\ log' = log \o Flags(n, p, turn)
        /\ world' = ChaosWorld("end_phase", world, p)
        /\ chaos' = ChaosAfter("end_phase")
        /\ pc' = "over"
        /\ UNCHANGED <<lease, bounced, dedupe, diary, held, attempt, calls>>
    BY <1>2 DEF AbortCleanup
  <2>2. p \in Player /\ n \in Nat
    BY <1>2, FoundType DEF TypeOK
  <2>3. world' \in [Entity -> Val] /\ chaos' \in Seq(ChaosEvent)
    BY <2>1, <2>2, ChaosTypes DEF TypeOK
  <2>4. violations' \in Nat /\ blame' \in [Player -> Nat]
    BY <2>1, <2>2, SweepTyped
  <2>5. turn' \in Nat /\ phaseIndex' \in Nat /\ phasePlayer' \in Player \cup {-1}
    BY <2>1, ClockType
  <2> HIDE DEF n, happened
  <2>6. log' \in Seq(Record)
    <3>1. Flags(n, p, turn) \in Seq(Record)
      BY <2>2, RecordTypes DEF TypeOK
    <3> QED BY <2>1, <3>1, LogExtends DEF TypeOK
  <2>7. (/\ allowed \in Ledger /\ actual \in Ledger /\ acknowledged \in Ledger
         /\ rogue \in Ledger /\ flagged \in Ledger)'
    BY LedgersTyped, PTL
  <2> QED BY <2>1, <2>3, <2>4, <2>5, <2>6, <2>7 DEF TypeOK
<1> QED BY <1>1, <1>2

LEMMA StepTyped ==
  ASSUME TypeOK, IInv', [Next]_vars
  PROVE  TypeOK'
<1>1. ASSUME NEW p \in Player, GrantLease(p) PROVE TypeOK'
  BY <1>1, GrantTyped
<1>2. CASE BeginAttempt
  BY <1>2, BeginAttemptTyped
<1>3. ASSUME NEW p \in Player, Call(p) PROVE TypeOK'
  <2>1. CASE RefuseOrder(p)
    BY <2>1, RefusalsTyped
  <2>2. ASSUME NEW tool \in {"write_diary", "end_turn"} \cup Read, RefuseOther(p, tool)
        PROVE  TypeOK'
    BY <2>2, RefusalsTyped
  <2>3. ASSUME NEW tool \in Read, Observe(p, tool) PROVE TypeOK'
    BY <2>3, ObserveTyped
  <2>4. ASSUME NEW note \in Note, WriteDiary(p, note) PROVE TypeOK'
    BY <2>4, DiaryTyped
  <2>5. ASSUME Order(p) PROVE TypeOK'
    <3>1. PICK e \in Entity :
            \/ OrderNotYours(p, e)
            \/ \E nonce \in Nonce \cup {NoKey} :
                 OrderDuplicate(p, e, nonce) \/ OrderIllegal(p, e, nonce)
                                             \/ OrderApplied(p, e, nonce)
      BY <2>5 DEF Order
    <3>2. CASE OrderNotYours(p, e)
      BY <3>2, AnsweredOrdersTyped
    <3>3. ASSUME NEW nonce \in Nonce \cup {NoKey},
                 OrderDuplicate(p, e, nonce) \/ OrderIllegal(p, e, nonce)
          PROVE  TypeOK'
      BY <3>3, AnsweredOrdersTyped
    <3>4. ASSUME NEW nonce \in Nonce \cup {NoKey}, OrderApplied(p, e, nonce)
          PROVE  TypeOK'
      BY <3>4, OrderAppliedTyped
    <3> QED BY <3>1, <3>2, <3>3, <3>4
  <2> QED BY <1>3, <2>1, <2>2, <2>3, <2>4, <2>5 DEF Call
<1>4. ASSUME NEW p \in Player, BounceEndTurn(p) PROVE TypeOK'
  BY <1>4, BounceTyped
<1>5. ASSUME NEW p \in Player, EndTurn(p) PROVE TypeOK'
  BY <1>5, EndTurnTyped
<1>6. CASE Return \/ RuntimeAborts
  BY <1>6, QuietTyped DEF Return, RuntimeAborts, TypeOK
<1>7. CASE AbortCleanup
  BY <1>7, CleanupTyped
<1>8. CASE UNCHANGED vars
  BY <1>8, QuietTyped DEF vars, callerVars, TypeOK
<1> QED BY <1>1, <1>2, <1>3, <1>4, <1>5, <1>6, <1>7, <1>8 DEF Next, TurnStep

(* Type correctness: no handler, whatever it is called with and whatever     *)
(* chaos does, takes the shared state out of its domain; no field leaves     *)
(* 0 .. Top, and begin_turn never counts past its third attempt.             *)
THEOREM RefereeTyped == Spec => []TypeOK
<1>1. Typed /\ [Next]_vars => Typed'
  <2> SUFFICES ASSUME TypeOK, IInv, [Next]_vars PROVE (TypeOK /\ IInv)'
    BY DEF Typed
  <2>1. IInv'
    BY StepPreserves
  <2>2. TypeOK'
    BY <2>1, StepTyped
  <2> QED BY <2>1, <2>2
<1>2. Init => Typed
  BY InitTyped, InitIInv DEF Typed
<1>3. Typed => TypeOK
  BY DEF Typed
<1> QED BY <1>1, <1>2, <1>3, PTL DEF Spec
=============================================================================
