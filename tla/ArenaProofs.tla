---------------------------- MODULE ArenaProofs ----------------------------
(***************************************************************************)
(* What the referee guarantees survives the death of the process: a match  *)
(* that is only ever resumed keeps its counters, its index, its diary and  *)
(* its leases in step with its log, and what a resume brings back is the   *)
(* boundary that was saved last (the refinement of Checkpointing).         *)
(*                                                                         *)
(* Everything is about matches that were never run again over their own    *)
(* files: for those the code gives no such guarantee.                      *)
(***************************************************************************)
EXTENDS Arena, RefereeLogProofs

\* The clock never runs past the first turn after the last: no phase is
\* opened, and so none is closed, in a turn that is not played.
InTime(t, phase) == t <= MaxTurn + 1 /\ (phase # -1 => t <= MaxTurn)

Clocked == InTime(turn, phasePlayer) /\ (pc = "begin" => turn <= MaxTurn)

\* A process that has not been told to resume has no lease and no ledgers.
Fresh ==
  /\ pc = "idle" /\ lease.released
  /\ allowed = NoRows /\ actual = NoRows /\ acknowledged = NoRows
  /\ rogue = NoRows /\ flagged = NoRows

\* A checkpoint vouches for a prefix of the log with all that holds of a log.
Sound(c) ==
  /\ c \in SnapshotSet /\ c.seq = Len(c.prefix)
  /\ Counted(c.violations, c.blame, c.prefix)
  /\ Once(c.prefix) /\ Leased(c.prefix)
  /\ DiaryFrom(c.prefix) \in [Player -> Note \cup {NoArg}]
  /\ InTime(c.clock[1], c.clock[2])

\* The match a resume makes of a checkpoint.
Restored(c) ==
  [log |-> c.prefix, world |-> c.world, clock |-> c.clock, chaos |-> c.chaos,
   violations |-> c.violations, blame |-> c.blame,
   dedupe |-> DedupeFrom(c.prefix), diary |-> DiaryFrom(c.prefix)]

\* The files lie under their own turns, none in a turn still to be finished.
FilesSound ==
  /\ DOMAIN ckpts = 1 .. MaxTurn
  /\ \A t \in Files : Sound(ckpts[t]) /\ ckpts[t].turn = t /\ (up => t <= completed)
  /\ Files # {} => boundary = Restored(Latest) /\ boundary # NoCheckpoint

-----------------------------------------------------------------------------
(* The inductive invariant *)
Resumable ==
  /\ TypeOK /\ IInv /\ Clocked
  /\ leg \in {"down", "begun", "resumed"} /\ completed \in Nat /\ flushed \in Nat
  /\ config \in Seq(ChaosEvent)
  /\ IF up THEN LogInv ELSE Fresh
  /\ FilesSound

AInv == reruns \in Nat /\ (reruns = 0 => Resumable)

(* The newest file is a file. *)
LEMMA LatestIsAFile ==
  ASSUME FilesSound, Files # {}
  PROVE  \E t \in Files : Latest = ckpts[t] /\ \A u \in Files : u <= t
<1>1. MaxTurn \in Nat
  BY RefereeAssumption
<1>2. Files \subseteq 0 .. MaxTurn
  BY <1>1 DEF FilesSound, Files
<1>3. \E t \in Files : \A u \in Files : u <= t
  BY <1>1, <1>2, Last
<1> DEFINE t == CHOOSE t \in Files : \A u \in Files : u <= t
<1>4. t \in Files /\ \A u \in Files : u <= t
  BY <1>3
<1> QED BY <1>4 DEF Latest

\* The clock stays at most one past the last turn.
LEMMA StepClocked ==
  ASSUME TypeOK, Clocked, [Next]_vars
  PROVE  Clocked'
<1>0. /\ turn \in Nat /\ MaxTurn \in Nat /\ lease.player # -1
  BY RefereeAssumption DEF TypeOK
<1>1. ASSUME NEW p \in Player, GrantLease(p) PROVE Clocked'
  BY <1>1 DEF GrantLease, Clocked, InTime, engineVars
<1>2. CASE BeginAttempt
  BY <1>0, <1>2 DEF BeginAttempt, Clocked, InTime
<1>quiet. ASSUME UNCHANGED <<turn, phasePlayer>>, pc' = pc \/ pc' # "begin"
          PROVE  Clocked'
  BY <1>quiet DEF Clocked, InTime
<1>close. ASSUME ClosePhase, phasePlayer # -1, pc' # "begin" PROVE Clocked'
  BY <1>0, <1>close DEF Clocked, InTime, ClosePhase
<1>3. ASSUME NEW p \in Player, Call(p) PROVE Clocked'
  BY <1>3, <1>quiet
  DEF Call, Order, RefuseOrder, RefuseOther, Observe, WriteDiary, OrderNotYours,
      OrderDuplicate, OrderIllegal, OrderApplied, gameVars, engineVars
<1>4. ASSUME NEW p \in Player, BounceEndTurn(p) PROVE Clocked'
  BY <1>4, <1>quiet DEF BounceEndTurn, gameVars, engineVars
<1>5. ASSUME NEW p \in Player, EndTurn(p) PROVE Clocked'
  BY <1>0, <1>5, <1>close DEF EndTurn, Valid
<1>6. CASE Return \/ RuntimeAborts
  BY <1>6, <1>quiet DEF Return, RuntimeAborts, engineVars
<1>7. CASE AbortCleanup
  BY <1>7, <1>quiet, <1>close DEF AbortCleanup, engineVars
<1>8. CASE UNCHANGED vars
  BY <1>8, <1>quiet DEF vars, engineVars, callerVars
<1> QED BY <1>1, <1>2, <1>3, <1>4, <1>5, <1>6, <1>7, <1>8 DEF Next, TurnStep

(* Files are judged by nothing that the referee touches. *)
LEMMA FilesKept ==
  ASSUME FilesSound, UNCHANGED <<ckpts, boundary>>, ~up' \/ (up /\ completed' = completed)
  PROVE  FilesSound'
BY DEF FilesSound, Files, Latest

\* A step of the referee while the process is up.
LEMMA PlayKeeps ==
  ASSUME Resumable, Play
  PROVE  Resumable'
<1>1. [Next]_vars /\ UNCHANGED arenaVars /\ up
  BY DEF Play, Next
<1>2. IInv'
  BY <1>1, StepPreserves DEF Resumable
<1>3. TypeOK'
  BY <1>1, <1>2, StepTyped DEF Resumable
<1>4. Clocked'
  BY <1>1, StepClocked DEF Resumable
<1>5. LogInv'
  BY <1>1, StepKeepsLog DEF Resumable
<1>6. FilesSound' /\ up'
  BY <1>1, FilesKept DEF Resumable, arenaVars, up
<1> QED BY <1>1, <1>2, <1>3, <1>4, <1>5, <1>6 DEF Resumable, arenaVars

(* A process that stops leaves its files, and a log it can be told from. *)
LEMMA StopKeeps ==
  ASSUME Resumable, FreshProcess, leg' = "down", log' \in Seq(Record),
         UNCHANGED <<config, ckpts, flushed, boundary>>
  PROVE  Resumable'
<1>1. TypeOK'
  BY RefereeAssumption, TopAssumption, LedgerTypes
  DEF FreshProcess, Resumable, TypeOK, Val
<1>2. IInv' /\ Fresh'
  BY LedgerTypes, AddNothing
  DEF FreshProcess, IInv, Fresh, LedgersBalance, FlagsExactlyTheRogueRows
<1>3. Clocked'
  BY RefereeAssumption DEF FreshProcess, Clocked, InTime
<1>4. FilesSound' /\ ~up'
  BY FilesKept DEF Resumable, up
<1> QED BY <1>1, <1>2, <1>3, <1>4 DEF Resumable, FreshProcess

\* The end of the match.
LEMMA FinishKeeps ==
  ASSUME Resumable, Finish
  PROVE  Resumable'
<1>1. log \in Seq(Record) /\ Event("MATCH_END", 0, turn) \in Record
  BY RefereeAssumption, RecordTypes DEF Resumable, TypeOK, Kind
<1>2. log' \in Seq(Record)
  BY <1>1 DEF Finish
<1> QED BY <1>2, StopKeeps DEF Finish

\* A kill loses what was not flushed, and no snapshot vouches for that.
LEMMA CrashKeeps ==
  ASSUME Resumable, Crash
  PROVE  Resumable'
<1>1. PICK n \in flushed .. Len(log) : log' = SubSeq(log, 1, n)
  BY DEF Crash
<1>2. log \in Seq(Record) /\ n \in Nat /\ n <= Len(log) /\ Len(log) \in Nat
  BY DEF Resumable, TypeOK
<1>3. log' \in Seq(Record)
  BY <1>1, <1>2, SubSeqProperties
<1> QED BY <1>3, StopKeeps DEF Crash

(* What the coordinator writes at a boundary is all that a resume needs. *)
LEMMA SnapshotIsSound ==
  ASSUME Resumable, up, turn - 1 \in Nat
  PROVE  Sound(Snapshot) /\ Match = Restored(Snapshot) /\ Match \in MatchSet
<1>1. TypeOK /\ LogInv /\ Clocked
  BY DEF Resumable
<1>2. Len(log) \in Nat /\ log \in Seq(Record)
  BY <1>1 DEF TypeOK
<1>3. Snapshot \in SnapshotSet
  BY <1>1, <1>2 DEF Snapshot, SnapshotSet, TypeOK
<1>4. dedupe = DedupeFrom(log) /\ diary = DiaryFrom(log)
  BY <1>1 DEF LogInv, DerivedStateMatchesLog
<1>5. /\ Snapshot.prefix = log /\ Snapshot.seq = Len(log)
      /\ Snapshot.violations = violations /\ Snapshot.blame = blame
      /\ Snapshot.clock[1] = turn /\ Snapshot.clock[2] = phasePlayer
  BY DEF Snapshot
<1>6. Counted(violations, blame, log) /\ Once(log) /\ Leased(log)
  BY <1>1, <1>2, CountedIsCounters, OfTheLog DEF LogInv
<1>7. diary \in [Player -> Note \cup {NoArg}]
  BY <1>1 DEF TypeOK
<1>8. Sound(Snapshot)
  <2>1. InTime(Snapshot.clock[1], Snapshot.clock[2])
    BY <1>1, <1>5 DEF Clocked
  <2> HIDE DEF Snapshot
  <2> QED BY <1>3, <1>4, <1>5, <1>6, <1>7, <2>1 DEF Sound
<1>9. Match = Restored(Snapshot)
  BY <1>4 DEF Match, Restored, Snapshot
<1>10. Match \in MatchSet
  BY <1>1 DEF Match, MatchSet, TypeOK
<1> QED BY <1>8, <1>9, <1>10

\* A turn boundary flushes the log and writes the file of the turn.
LEMMA BoundaryKeeps ==
  ASSUME Resumable, TurnBoundary
  PROVE  Resumable'
<1>0. /\ turn \in Nat /\ completed \in Nat /\ turn > completed + 1 /\ MaxTurn \in Nat
      /\ turn <= MaxTurn + 1
  BY RefereeAssumption DEF Resumable, TypeOK, TurnBoundary, AtBoundary, Clocked, InTime
<1>1. turn - 1 \in 1 .. MaxTurn /\ turn - 1 > completed /\ turn - 1 \in Nat
  BY <1>0
<1>2. up /\ UNCHANGED <<vars, config, leg>> /\ completed' = turn - 1
  BY DEF TurnBoundary
<1>3. UNCHANGED vars
  BY <1>2
<1>4. /\ TypeOK' /\ IInv' /\ Clocked' /\ LogInv'
  <2>1. IInv'
    BY <1>3, StepPreserves DEF Resumable
  <2>2. TypeOK'
    BY <1>3, <2>1, StepTyped DEF Resumable
  <2>3. Clocked'
    BY <1>3, StepClocked DEF Resumable
  <2>4. LogInv'
    BY <1>2, <1>3, StepKeepsLog DEF Resumable
  <2> QED BY <2>1, <2>2, <2>3, <2>4
<1>5. up' /\ leg' \in {"down", "begun", "resumed"} /\ completed' \in Nat
      /\ config' \in Seq(ChaosEvent)
  BY <1>1, <1>2 DEF Resumable, up
<1>6. flushed' \in Nat
  BY DEF TurnBoundary, Resumable, TypeOK
<1>7. FilesSound'
  <2>1. CASE ~IsDue(turn - 1)
    BY <1>1, <1>2, <2>1 DEF TurnBoundary, Resumable, FilesSound, Files, Latest, up
  <2>2. CASE IsDue(turn - 1)
    <3>1. ckpts' = [ckpts EXCEPT ![turn - 1] = Snapshot] /\ boundary' = Match
      BY <2>2 DEF TurnBoundary
    <3>2. /\ Sound(Snapshot) /\ Match = Restored(Snapshot) /\ Match \in MatchSet
          /\ Snapshot.turn = turn - 1
      BY <1>1, <1>2, SnapshotIsSound DEF Snapshot
    <3>3. Snapshot # NoCheckpoint /\ Match # NoCheckpoint
      BY <3>2, NoCheckpointAssumption DEF Sound
    <3>4. /\ DOMAIN ckpts = 1 .. MaxTurn
          /\ \A t \in Files : Sound(ckpts[t]) /\ ckpts[t].turn = t /\ t <= completed
      BY <1>2 DEF Resumable, FilesSound
    <3> DEFINE s == Snapshot
               m == Match
    <3> HIDE DEF s, m
    <3>5. DOMAIN ckpts' = 1 .. MaxTurn /\ ckpts'[turn - 1] = s
          /\ \A t \in 1 .. MaxTurn : t # turn - 1 => ckpts'[t] = ckpts[t]
      BY <1>1, <3>1, <3>4 DEF s
    <3>6. /\ turn - 1 \in Files'
          /\ \A t \in Files' : t = turn - 1 \/ (t \in Files /\ ckpts'[t] = ckpts[t])
      BY <1>1, <3>3, <3>4, <3>5 DEF Files, s
    <3>7. \A t \in Files' : Sound(ckpts'[t]) /\ ckpts'[t].turn = t /\ t <= turn - 1
      <4> TAKE t \in Files'
      <4>1. CASE t = turn - 1
        BY <1>1, <3>2, <3>5, <4>1 DEF s
      <4>2. CASE t \in Files /\ ckpts'[t] = ckpts[t]
        <5>1. t \in Nat /\ t <= completed
          BY <3>4, <4>2 DEF Files
        <5> QED BY <1>0, <1>1, <3>4, <4>2, <5>1
      <4> QED BY <3>6, <4>1, <4>2
    <3>8. Latest' = s
      <4> DEFINE c == CHOOSE t \in Files' : \A u \in Files' : u <= t
      <4>1. \A u \in Files' : u \in Nat /\ u <= turn - 1
        BY <3>5, <3>7 DEF Files
      <4>2. c \in Files' /\ \A u \in Files' : u <= c
        BY <3>6, <4>1
      <4>3. c = turn - 1
        <5> HIDE DEF c
        <5> QED BY <1>1, <3>6, <4>1, <4>2
      <4> QED BY <3>5, <4>3 DEF Latest
    <3>9. boundary' = Restored(Latest') /\ boundary' # NoCheckpoint
      BY <3>1, <3>2, <3>3, <3>8 DEF s
    <3> QED BY <1>2, <3>5, <3>7, <3>9 DEF FilesSound
  <2> QED BY <2>1, <2>2
<1> QED BY <1>4, <1>5, <1>6, <1>7 DEF Resumable

(* A resume brings back the match of the newest checkpoint, whatever of the  *)
(* log had been written behind it.                                           *)
LEMMA ResumeRestores ==
  ASSUME Resumable, Resume
  PROVE  /\ Resumable'
         /\ Match' = boundary /\ boundary # NoCheckpoint
<1> DEFINE c == Latest
<1>1. Files # {} /\ Verified(c) /\ ~up /\ FilesSound /\ Fresh
  BY DEF Resume, Resumable
<1>2. Sound(c) /\ c.turn \in Nat /\ \A t \in Files : t <= c.turn
  <2>1. PICK t \in Files : Latest = ckpts[t] /\ \A u \in Files : u <= t
    BY <1>1, LatestIsAFile
  <2>2. Sound(ckpts[t]) /\ ckpts[t].turn = t /\ t \in Nat
    BY <1>1, <2>1 DEF FilesSound, Files
  <2> QED BY <2>1, <2>2
<1>3. boundary = Restored(c) /\ boundary # NoCheckpoint
  BY <1>1 DEF FilesSound
<1>4. /\ log' = SubSeq(log, 1, c.seq)
      /\ world' = c.world
      /\ turn' = c.clock[1] /\ phasePlayer' = c.clock[2] /\ phaseIndex' = c.clock[3]
      /\ chaos' = c.chaos
      /\ violations' = c.violations /\ blame' = c.blame
      /\ dedupe' = DedupeFrom(SubSeq(log, 1, c.seq))
      /\ diary' = DiaryFrom(SubSeq(log, 1, c.seq))
      /\ completed' = c.turn /\ flushed' = c.seq /\ leg' = "resumed"
      /\ UNCHANGED <<lease, allowed, actual, acknowledged, rogue, flagged, bounced,
                     held, pc, attempt, calls, config, ckpts, boundary>>
  BY DEF Resume, Count, Index, ledgerVars, callerVars
<1> HIDE DEF c
<1>5. SubSeq(log, 1, c.seq) = c.prefix
  BY <1>1 DEF Verified
<1>6. /\ c.prefix \in Seq(Record) /\ c.seq \in Nat /\ c.world \in [Entity -> Val]
      /\ c.clock \in Nat \X (Player \cup {-1}) \X Nat
      /\ c.chaos \in Seq(ChaosEvent) /\ c.violations \in Nat /\ c.blame \in [Player -> Nat]
      /\ Counted(c.violations, c.blame, c.prefix) /\ Once(c.prefix) /\ Leased(c.prefix)
      /\ DiaryFrom(c.prefix) \in [Player -> Note \cup {NoArg}]
      /\ InTime(c.clock[1], c.clock[2])
  BY <1>2 DEF Sound, SnapshotSet
<1>7. DedupeFrom(c.prefix) \subseteq Key
  <2>1. \A i \in DOMAIN c.prefix : c.prefix[i] \in Record
    BY <1>6
  <2>2. \A r \in Record : r.key \in Key \cup {NoKey}
    BY DEF Record
  <2> QED BY <2>1, <2>2 DEF DedupeFrom
<1>8. TypeOK'
  <2>1. /\ world' \in [Entity -> Val] /\ turn' \in Nat
        /\ phasePlayer' \in Player \cup {-1} /\ phaseIndex' \in Nat
        /\ chaos' \in Seq(ChaosEvent) /\ violations' \in Nat /\ blame' \in [Player -> Nat]
        /\ dedupe' \subseteq Key /\ diary' \in [Player -> Note \cup {NoArg}]
        /\ log' \in Seq(Record)
    BY <1>4, <1>5, <1>6, <1>7
  <2> QED BY <1>4, <2>1 DEF Resumable, TypeOK
<1>9. IInv'
  BY <1>4 DEF Resumable, IInv, LedgersBalance, FlagsExactlyTheRogueRows
<1>10. Clocked'
  BY <1>1, <1>4, <1>6 DEF Clocked, Fresh
<1>11. LogInv'
  <2>1. CountersMatchLog'
    BY <1>4, <1>5, <1>6, CountedIsCounters
  <2>2. DerivedStateMatchesLog'
    BY <1>4 DEF DerivedStateMatchesLog
  <2>3. AtMostOnce' /\ AcceptedUnderOwnLease'
    BY <1>4, <1>5, <1>6, OfTheLog
  <2>4. lease'.released
    BY <1>1, <1>4 DEF Fresh
  <2> QED BY <2>1, <2>2, <2>3, <2>4 DEF LogInv
<1>12. FilesSound'
  BY <1>1, <1>2, <1>4 DEF FilesSound, Files, Latest
<1>13. up' /\ leg' \in {"down", "begun", "resumed"} /\ completed' \in Nat /\ flushed' \in Nat
       /\ config' \in Seq(ChaosEvent)
  BY <1>2, <1>4, <1>6 DEF up, Resumable
<1>14. Match' = boundary
  <2>1. c.clock = <<c.clock[1], c.clock[2], c.clock[3]>>
    BY <1>6
  <2> QED BY <1>3, <1>4, <1>5, <2>1 DEF Match, Restored
<1> QED BY <1>3, <1>8, <1>9, <1>10, <1>11, <1>12, <1>13, <1>14 DEF Resumable

\* A match that begins has no file and promises none.
LEMMA InitArena == ArenaInit => AInv /\ reruns = 0 /\ Promise!Init
<1> SUFFICES ASSUME ArenaInit PROVE AInv /\ reruns = 0 /\ Promise!Init
  OBVIOUS
<1>1. Init /\ leg = "begun" /\ reruns = 0 /\ completed = 0 /\ flushed = 1
      /\ config = chaos /\ boundary = NoCheckpoint
      /\ ckpts = [t \in 1 .. MaxTurn |-> NoCheckpoint]
  BY DEF ArenaInit
<1>2. TypeOK /\ IInv /\ LogInv
  BY <1>1, InitTyped, InitIInv, InitLog
<1>3. Clocked
  BY <1>1, RefereeAssumption DEF Init, Clocked, InTime
<1>4. FilesSound
  BY <1>1 DEF FilesSound, Files
<1>5. Resumable
  BY <1>1, <1>2, <1>3, <1>4 DEF Resumable, TypeOK, up
<1> QED BY <1>1, <1>5 DEF AInv, Promise!Init

\* Every step of the coordinator keeps the invariant.
LEMMA ArenaStep ==
  ASSUME AInv, [ArenaNext]_allVars
  PROVE  AInv'
<1>1. CASE UNCHANGED allVars
  <2>1. UNCHANGED vars /\ UNCHANGED arenaVars
    BY <1>1 DEF allVars
  <2>2. reruns' = reruns
    BY <2>1 DEF arenaVars
  <2>3. Resumable => Resumable'
    BY <2>1 DEF vars, engineVars, ledgerVars, countVars, callerVars, arenaVars, Resumable,
       TypeOK, IInv, LedgersBalance, FlagsExactlyTheRogueRows, Clocked, LogInv,
       CountersMatchLog, Positions, DerivedStateMatchesLog, AtMostOnce,
       AcceptedUnderOwnLease, Fresh, FilesSound, Files, Latest, up
  <2> QED BY <2>2, <2>3 DEF AInv
<1>2. CASE Play
  <2>1. reruns' = reruns
    BY <1>2 DEF Play, arenaVars
  <2> QED BY <1>2, <2>1, PlayKeeps DEF AInv
<1>3. CASE TurnBoundary
  <2>1. reruns' = reruns
    BY <1>3 DEF TurnBoundary
  <2> QED BY <1>3, <2>1, BoundaryKeeps DEF AInv
<1>4. CASE Finish
  <2>1. reruns' = reruns
    BY <1>4 DEF Finish
  <2> QED BY <1>4, <2>1, FinishKeeps DEF AInv
<1>5. CASE Crash
  <2>1. reruns' = reruns
    BY <1>5 DEF Crash
  <2> QED BY <1>5, <2>1, CrashKeeps DEF AInv
<1>6. CASE RunAgain
  BY <1>6 DEF RunAgain, AInv
<1>7. CASE Resume
  <2>1. reruns' = reruns
    BY <1>7 DEF Resume
  <2> QED BY <1>7, <2>1, ResumeRestores DEF AInv
<1> QED BY <1>1, <1>2, <1>3, <1>4, <1>5, <1>6, <1>7 DEF ArenaNext

\* The invariant holds in every reachable state.
LEMMA ArenaInvHolds == ArenaSpec => []AInv
BY InitArena, ArenaStep, PTL DEF ArenaSpec

-----------------------------------------------------------------------------
(* Theorems *)

(* After any number of deaths and resumes, and all the while the rest is     *)
(* played again, the index and the diary are what the log says and every     *)
(* violation on record is counted once.                                      *)
THEOREM DerivedStateOutlivesTheProcess == ArenaSpec => []DerivedStateSurvives
<1>1. AInv => DerivedStateSurvives
  BY DEF AInv, Resumable, LogInv, DerivedStateSurvives
<1> QED BY <1>1, ArenaInvHolds, PTL

(* So do the guarantees about calls: a key whose order was carried out before *)
(* the process died is not carried out again by the process that resumes,    *)
(* and no call is accepted on a lease of the process before.                 *)
THEOREM CallsOutliveTheProcess ==
  ArenaSpec => [](up /\ reruns = 0 => AtMostOnce /\ AcceptedUnderOwnLease)
<1>1. AInv => (up /\ reruns = 0 => AtMostOnce /\ AcceptedUnderOwnLease)
  BY DEF AInv, Resumable, LogInv
<1> QED BY <1>1, ArenaInvHolds, PTL

(* Every step of the coordinator is a step of Checkpointing, or none of its  *)
(* business: only the save of a boundary changes what a resume brings back.  *)
LEMMA StepRefines ==
  ASSUME AInv, [ArenaNext]_allVars
  PROVE  [Promise!Next]_(Promise!vars)
<1> DEFINE mapped == IF reruns = 0 THEN leg ELSE "begun"
<1>0. reruns \in Nat /\ "begun" # "down"
  BY DEF AInv
<1>1. CASE UNCHANGED allVars
  BY <1>1 DEF allVars, vars, engineVars, countVars, arenaVars, Match, Promise!vars
<1>2. CASE Play
  <2>1. UNCHANGED <<boundary, reruns, leg>> /\ leg # "down"
    BY <1>2 DEF Play, arenaVars, up
  <2> QED BY <2>1 DEF Promise!Next, Promise!Work
<1>3. CASE TurnBoundary
  <2>1. UNCHANGED <<vars, reruns, leg>> /\ leg # "down"
        /\ (UNCHANGED boundary \/ boundary' = Match)
    BY <1>3 DEF TurnBoundary, up
  <2>2. Match' = Match
    BY <2>1 DEF vars, engineVars, countVars, Match
  <2> HIDE DEF Match
  <2>3. CASE UNCHANGED boundary
    BY <2>1, <2>3 DEF Promise!Next, Promise!Work
  <2>4. CASE boundary' = Match
    BY <2>1, <2>2, <2>4 DEF Promise!Next, Promise!Save
  <2> QED BY <2>1, <2>3, <2>4
<1>4. CASE Finish \/ Crash
  <2>1. UNCHANGED <<boundary, reruns>> /\ leg # "down" /\ leg' = "down"
    BY <1>4 DEF Finish, Crash, up
  <2> QED BY <1>0, <2>1 DEF Promise!Next, Promise!Stop, Promise!Work
<1>5. CASE RunAgain
  <2>1. /\ UNCHANGED boundary /\ reruns' = reruns + 1 /\ leg = "down" /\ leg' = "begun"
    BY <1>5 DEF RunAgain, up
  <2>2. reruns' # 0
    BY <1>0, <2>1
  <2> QED BY <1>0, <2>1, <2>2 DEF Promise!Next, Promise!Begin, Promise!Work
<1>6. CASE Resume
  <2>1. UNCHANGED <<boundary, reruns>> /\ leg = "down" /\ leg' = "resumed"
    BY <1>6 DEF Resume, up
  <2>2. CASE reruns = 0
    <3>1. Match' = boundary /\ boundary # NoCheckpoint
      BY <1>6, <2>2, ResumeRestores DEF AInv
    <3> HIDE DEF Match
    <3> QED BY <2>1, <2>2, <3>1 DEF Promise!Next, Promise!Resume
  <2>3. CASE reruns # 0
    BY <1>0, <2>1, <2>3 DEF Promise!Next, Promise!Work
  <2> QED BY <2>2, <2>3
<1> QED BY <1>1, <1>2, <1>3, <1>4, <1>5, <1>6 DEF ArenaNext

(* The coordinator implements Checkpointing: a match that is only resumed    *)
(* comes back, wherever it was killed, as it was at the boundary saved last. *)
THEOREM CoordinatorRefinesCheckpointing == ArenaSpec => RestoresTheLastBoundary
<1>1. ArenaInit => Promise!Init
  BY InitArena
<1>2. AInv /\ [ArenaNext]_allVars => [Promise!Next]_(Promise!vars)
  BY StepRefines
<1> QED BY <1>1, <1>2, ArenaInvHolds, PTL DEF ArenaSpec, RestoresTheLastBoundary, Promise!Spec
=============================================================================
