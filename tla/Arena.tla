------------------------------- MODULE Arena -------------------------------
(***************************************************************************)
(* The coordinator of src/src/civ_arena/arena/coordinator.py around the    *)
(* referee: the turn loop, the checkpoint at a turn boundary               *)
(* (arena/checkpoints.py), the death of the process at any point, and the  *)
(* resume from the latest checkpoint (match.py).                           *)
(*                                                                         *)
(* Of a process that dies only its files remain: the event log, up to some *)
(* record, and the checkpoints.                                            *)
(***************************************************************************)
EXTENDS Referee

CONSTANTS
  CheckpointEvery,  \* checkpoint_every
  MaxReruns,        \* bound: how often the match is run again, not resumed
  MaxCrashes,       \* bound: how often the process dies
  NoCheckpoint      \* model value: no file for that turn

ASSUME ArenaAssumption ==
  /\ CheckpointEvery \in Nat \ {0} /\ MaxReruns \in Nat /\ MaxCrashes \in Nat

VARIABLES
  config,     \* the chaos schedule of the configuration file
  leg,        \* the process is down, or how it was started
  completed,  \* the last turn the loop has finished
  ckpts,      \* the checkpoint file of each turn
  flushed,    \* records known to be on disk when the last boundary was saved
  crashes, reruns,
  boundary    \* history: the match as it was when it was last saved

arenaVars == <<config, leg, completed, ckpts, flushed, crashes, reruns, boundary>>
allVars   == <<vars, arenaVars>>

up == leg # "down"

-----------------------------------------------------------------------------
(* Checkpoints *)

\* _checkpoint_state: the world and its clock, the counters and the chaos
\* queue, and of the log its length and the hash of what it holds so far.
Snapshot ==
  [turn |-> turn - 1, seq |-> Len(log), prefix |-> log, world |-> world,
   clock |-> <<turn, phasePlayer, phaseIndex>>, chaos |-> chaos,
   violations |-> violations, blame |-> blame]

\* What a match is to its players and its judge, at a boundary.
Match ==
  [log |-> log, world |-> world, clock |-> <<turn, phasePlayer, phaseIndex>>,
   chaos |-> chaos, violations |-> violations, blame |-> blame,
   dedupe |-> dedupe, diary |-> diary]

\* What such records hold, whatever match they are of.
SnapshotSet ==
  [turn : Nat, seq : Nat, prefix : Seq(Record), world : [Entity -> Val],
   clock : Nat \X (Player \cup {-1}) \X Nat, chaos : Seq(ChaosEvent),
   violations : Nat, blame : [Player -> Nat]]

MatchSet ==
  [log : Seq(Record), world : [Entity -> Val],
   clock : Nat \X (Player \cup {-1}) \X Nat, chaos : Seq(ChaosEvent),
   violations : Nat, blame : [Player -> Nat],
   dedupe : SUBSET Key, diary : [Player -> Note \cup {NoArg}]]

\* A turn without a file is told from one with a file.
ASSUME NoCheckpointAssumption == NoCheckpoint \notin SnapshotSet \cup MatchSet

Files == {t \in DOMAIN ckpts : ckpts[t] # NoCheckpoint}

Latest_Earliest == ckpts[CHOOSE t \in Files : \A u \in Files : t <= u]  \* mutant

\* CheckpointManager.latest: the file with the highest turn in its name.
Latest == ckpts[CHOOSE t \in Files : \A u \in Files : u <= t]

Verified_Strict(c) ==  \* mutant: nothing after the boundary, no resume
  Len(log) > c.seq /\ SubSeq(log, 1, c.seq) = c.prefix

\* verify_log_prefix
Verified(c) == Len(log) >= c.seq /\ SubSeq(log, 1, c.seq) = c.prefix

IsDue(t) == t % CheckpointEvery = 0

-----------------------------------------------------------------------------
\* A turn is over once its last seat has ended it and returned.
AtBoundary == pc = "idle" /\ phaseIndex = 0 /\ turn > completed + 1

\* The turn loop: the referee and the runtimes at work.
Play ==
  /\ up
  /\ TurnStep \/ (~AtBoundary /\ \E p \in Player : GrantLease(p))
  /\ UNCHANGED arenaVars

\* maybe_save, at the end of the loop's body; the file is moved into place.
TurnBoundary ==
  /\ up /\ AtBoundary
  /\ completed' = turn - 1
  /\ IF IsDue(turn - 1)
     THEN /\ ckpts' = [ckpts EXCEPT ![turn - 1] = Snapshot]
          /\ flushed' = Len(log) /\ boundary' = Match
     ELSE UNCHANGED <<ckpts, flushed, boundary>>
  /\ UNCHANGED <<vars, config, leg, crashes, reruns>>

\* What a process starts with, before it is told to resume.
FreshProcess ==
  /\ world' = [e \in Entity |-> Top]
  /\ turn' = 1 /\ phasePlayer' = -1 /\ phaseIndex' = 0 /\ chaos' = config
  /\ lease' = [id |-> NoLease, player |-> 0, turn |-> 0, released |-> TRUE]
  /\ allowed' = NoRows /\ actual' = NoRows /\ acknowledged' = NoRows
  /\ bounced' = {}
  /\ violations' = 0 /\ blame' = [p \in Player |-> 0]
  /\ dedupe' = {} /\ diary' = [p \in Player |-> NoArg]
  /\ held' = [p \in Player |-> NoLease]
  /\ pc' = "idle" /\ attempt' = 0 /\ UNCHANGED calls
  /\ rogue' = NoRows /\ flagged' = NoRows
  /\ completed' = 0

MatchOver ==
  \/ pc = "over"
  \/ pc = "idle" /\ phaseIndex = 0 /\ turn > MaxTurn /\ ~AtBoundary

\* The match ends, aborted or not, and the process exits.
Finish ==
  /\ up /\ MatchOver
  /\ log' = Append(log, Event("MATCH_END", 0, turn))
  /\ leg' = "down"
  /\ FreshProcess
  /\ UNCHANGED <<config, ckpts, flushed, crashes, reruns, boundary>>

\* The process is killed.  A kill inside a handler leaves the records the
\* handler had written by then: some prefix of the log, which holds at least
\* what the last boundary saved.
Crash ==
  /\ up /\ crashes < MaxCrashes
  /\ \E n \in flushed .. Len(log) : log' = SubSeq(log, 1, n)
  /\ leg' = "down" /\ crashes' = crashes + 1
  /\ FreshProcess
  /\ UNCHANGED <<config, ckpts, flushed, reruns, boundary>>

\* run without --resume: the constructor continues the log that is there.
RunAgain ==
  /\ ~up /\ reruns < MaxReruns
  /\ leg' = "begun" /\ reruns' = reruns + 1
  /\ log' = Append(log, Event("MATCH_START", 0, 0))
  /\ flushed' = Len(log)
  /\ UNCHANGED <<world, turn, phasePlayer, phaseIndex, chaos, lease, ledgerVars,
                 bounced, countVars, dedupe, diary, callerVars, config,
                 completed, ckpts, crashes, boundary>>

Index_Empty(recs) == {k \in {} : recs = recs}  \* mutant: the index is not rebuilt

Index(recs) == DedupeFrom(recs)


Count(n) == n

\* _resume_from: state and counters from the checkpoint, the index and the
\* diary from the records it vouches for; everything else is new.
Resume ==
  /\ ~up /\ Files # {} /\ Verified(Latest)
  /\ LET c == Latest IN
     /\ log' = SubSeq(log, 1, c.seq)
     /\ world' = c.world
     /\ turn' = c.clock[1] /\ phasePlayer' = c.clock[2] /\ phaseIndex' = c.clock[3]
     /\ chaos' = c.chaos
     /\ violations' = Count(c.violations) /\ blame' = c.blame
     /\ dedupe' = Index(SubSeq(log, 1, c.seq))
     /\ diary' = DiaryFrom(SubSeq(log, 1, c.seq))
     /\ completed' = c.turn
     /\ flushed' = c.seq
  /\ leg' = "resumed"
  /\ UNCHANGED <<lease, ledgerVars, bounced, callerVars, config, ckpts,
                 crashes, reruns, boundary>>

-----------------------------------------------------------------------------
ArenaInit ==
  /\ Init
  /\ config = chaos /\ leg = "begun" /\ completed = 0
  /\ ckpts = [t \in 1 .. MaxTurn |-> NoCheckpoint]
  /\ flushed = 1 /\ crashes = 0 /\ reruns = 0 /\ boundary = NoCheckpoint

ArenaNext == Play \/ TurnBoundary \/ Finish \/ Crash \/ RunAgain \/ Resume

ArenaSpec == ArenaInit /\ [][ArenaNext]_allVars

-----------------------------------------------------------------------------
(* Properties *)

(* Everything the coordinator keeps stays in its domain, a checkpoint lies    *)
(* under its own turn, and a kill never leaves less of the log on disk than  *)
(* was flushed at the last boundary.                                         *)
ArenaTypeOK ==
  /\ TypeOK
  /\ leg \in {"down", "begun", "resumed"} /\ completed \in 0 .. MaxTurn
  /\ crashes \in 0 .. MaxCrashes /\ reruns \in 0 .. MaxReruns
  /\ flushed \in 0 .. Len(log)
  /\ \A t \in Files : ckpts[t].seq \in Nat /\ ckpts[t].turn = t

(* After a resume the index and the diary hold what the kept records say,    *)
(* no more and no less, and stay so while the rest is played again; and the  *)
(* violations its log records are counted, none twice and none lost with the *)
(* records that were cut off (coordinator.py:353-357).                       *)
DerivedStateSurvives == up /\ reruns = 0 => DerivedStateMatchesLog /\ CountersMatchLog

Promise == INSTANCE Checkpointing
           WITH now <- Match, saved <- boundary,
                leg <- IF reruns = 0 THEN leg ELSE "begun",
                Nothing <- NoCheckpoint

(* Crash-resume restores to the last turn-boundary checkpoint, of a match    *)
(* that is only ever resumed: however far it had gone and wherever it was    *)
(* killed, log, world, clock, chaos queue, counters, index and diary come    *)
(* back as they were when the last boundary was saved.  Once it is run again *)
(* nothing more is claimed.                                                  *)
RestoresTheLastBoundary == Promise!Spec

PromiseRunAgain == INSTANCE Checkpointing
                   WITH now <- Match, saved <- boundary, leg <- leg,
                        Nothing <- NoCheckpoint

(* design-notes.md:89-90 says it of every match, with no word of one that is *)
(* run again over its own log and checkpoints.                               *)
RestoresAfterARunToo == PromiseRunAgain!Spec

(* A match whose first checkpoint is on disk is played to its end, however   *)
(* it dies, as long as it is resumed.                                        *)
ArenaFairness ==
  /\ WF_allVars(up /\ (BeginAttempt \/ Return \/ AbortCleanup) /\ UNCHANGED arenaVars)
  /\ WF_allVars(up /\ ~AtBoundary /\ (\E p \in Player : GrantLease(p)) /\ UNCHANGED arenaVars)
  /\ WF_allVars(up /\ (\E p \in Player : BounceEndTurn(p) \/ EndTurn(p)) /\ UNCHANGED arenaVars)
  /\ WF_allVars(TurnBoundary) /\ WF_allVars(Finish) /\ WF_allVars(Resume)

FairArena == ArenaSpec /\ ArenaFairness

Ended == ~up /\ log[Len(log)].kind = "MATCH_END"

SavedMatchEnds == Files # {} ~> Ended
=============================================================================
