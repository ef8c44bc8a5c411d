------------------------------- MODULE Replay -------------------------------
(***************************************************************************)
(* Replay of src/src/civ_arena/replay.py: a match is played and leaves its *)
(* log, the calls recorded there are issued again through a new referee    *)
(* with the same seed and chaos schedule, and the two logs are compared    *)
(* record by record.  The log that is replayed is the one the match left,  *)
(* the one a kill cut short, or one that was altered afterwards.           *)
(*                                                                         *)
(* Of a record's state hash the model keeps what it is a hash of, the      *)
(* world when the record was written.                                      *)
(***************************************************************************)
EXTENDS Referee

CONSTANT MaxSpoiltCalls   \* bound: calls of a match whose log is torn or altered

VARIABLES
  stage,      \* live, replay, over
  config,     \* the chaos schedule of the configuration file
  hashes,     \* the world of each record of the log
  gaveUp,     \* a runtime aborted the match
  whole,      \* the log is what a match that ended by itself left
  torn,       \* calls may be missing at its end
  recorded,   \* what the comparison keeps of the log
  queue,      \* the recorded calls of each seat, still to be issued
  outcome

replayVars == <<config, gaveUp, whole, torn, recorded, queue, outcome>>
allVars == <<vars, stage, hashes, replayVars>>

-----------------------------------------------------------------------------
(* What is read from a log *)

\* load_calls: the calls of a seat, with the key the log gives them.
Calls(recs, p) == SelectSeq(recs, LAMBDA r : r.kind = "TOOL_CALL" /\ r.player = p)

Compared == {"TOOL_CALL", "TOOL_RESULT", "VIOLATION", "AMBIENT", "TURN_END"}

\* The records that carry a state hash: what the engine was asked, and a
\* turn's end.
Hashed(r) ==
  \/ r.kind = "TURN_END"
  \/ r.kind = "TOOL_RESULT" /\ r.tool = "order" /\ r.key # NoKey /\ ~r.duplicate

\* _strip: neither the keys nor the mark of a duplicate are compared.
Stripped(r, w) ==
  [rec |-> [r EXCEPT !.key = NoKey, !.duplicate = FALSE],
   hash |-> IF Hashed(r) THEN w ELSE <<>>]
Strip(recs, ws) ==
  SelectSeq([i \in DOMAIN recs |-> Stripped(recs[i], ws[i])],
            LAMBDA row : row.rec.kind \in Compared)

-----------------------------------------------------------------------------
(* The match *)

Noticed == hashes' = hashes \o [i \in 1 .. Len(log') - Len(log) |-> world']

MatchDone == pc = "over" \/ (pc = "idle" /\ phaseIndex = 0 /\ turn > MaxTurn)

\* No runtime of the repository calls a tool, or gives up, after its turn.
Orderly == \A i \in DOMAIN log : log[i].kind # "UNAUTHORIZED_TOOL_CALL"

Live ==
  /\ stage = "live" /\ Next /\ Noticed /\ (RuntimeAborts => ~lease.released)
  /\ gaveUp' = (gaveUp \/ RuntimeAborts)
  /\ UNCHANGED <<stage, config, whole, torn, recorded, queue, outcome>>

\* The new arena, over a directory that is wiped first, and a runtime for each
\* seat that holds its calls.
Start(recs, ws, asLeft, cut) ==
  /\ stage = "live" /\ stage' = "replay" /\ Orderly
  /\ recorded' = Strip(recs, ws) /\ queue' = [p \in Player |-> Calls(recs, p)]
  /\ whole' = asLeft /\ torn' = cut /\ gaveUp' = FALSE
  /\ world' = [e \in Entity |-> Top]
  /\ turn' = 1 /\ phasePlayer' = -1 /\ phaseIndex' = 0 /\ chaos' = config
  /\ lease' = [id |-> NoLease, player |-> 0, turn |-> 0, released |-> TRUE]
  /\ allowed' = NoRows /\ actual' = NoRows /\ acknowledged' = NoRows
  /\ bounced' = {} /\ violations' = 0 /\ blame' = [p \in Player |-> 0]
  /\ dedupe' = {} /\ diary' = [p \in Player |-> NoArg]
  /\ log' = <<Event("MATCH_START", 0, 0)>> /\ hashes' = <<world'>>
  /\ held' = [p \in Player |-> NoLease]
  /\ pc' = "idle" /\ attempt' = 0 /\ calls' = 0
  /\ rogue' = NoRows /\ flagged' = NoRows
  /\ UNCHANGED <<config, outcome>>

ReplayLeft == MatchDone /\ Start(log, hashes, ~gaveUp, gaveUp)

\* The process was killed and the match not resumed: the log is a prefix of
\* the one the match would have left, and lacks a record that is compared.
ReplayTorn ==
  /\ MatchDone /\ calls <= MaxSpoiltCalls
  /\ \E n \in DOMAIN log :
      /\ \E i \in n + 1 .. Len(log) : log[i].kind \in Compared
      /\ Start(SubSeq(log, 1, n), SubSeq(hashes, 1, n), FALSE, TRUE)

Without(s, i) == SubSeq(s, 1, i - 1) \o SubSeq(s, i + 1, Len(s))

\* A record is taken out of the log, or the argument of an order is replaced.
ReplayAltered ==
  /\ MatchDone /\ ~gaveUp /\ calls <= MaxSpoiltCalls
  /\ \E i \in DOMAIN log :
       /\ log[i].kind \in Compared
       /\ Start(Without(log, i), Without(hashes, i), FALSE, log[i].kind = "TOOL_CALL")

-----------------------------------------------------------------------------
(* The replay *)

Reissued_WithoutKey(c) == NoKey  \* mutant: the recorded key is not passed on

\* A recorded key is a digest, passed on as the caller's own key.
Reissued(c) == c.key

\* getattr(facade, tool) with the recorded arguments.
Issue(p, c) ==
  CASE c.tool = "end_turn" -> BounceEndTurn(p) \/ EndTurn(p)
    [] c.tool = "write_diary" -> WriteDiary(p, c.arg)
    [] c.tool \in Read -> Observe(p, c.tool)
    [] c.tool = "order" ->
         \/ OrderNotYours(p, c.arg)
         \/ OrderDuplicate(p, c.arg, Reissued(c)) \/ OrderIllegal(p, c.arg, Reissued(c))
         \/ OrderApplied(p, c.arg, Reissued(c))

InTurn(p) == stage = "replay" /\ pc = "turn" /\ lease.player = p /\ ~lease.released

\* take_turn, one recorded call at a time until an end_turn is accepted.
Reissue(p) ==
  /\ InTurn(p) /\ queue[p] # <<>>
  /\ Issue(p, Head(queue[p]))
  /\ queue' = [queue EXCEPT ![p] = Tail(@)]
  /\ UNCHANGED <<stage, outcome>>

\* Nothing recorded is left: the runtime ends the turn by itself.
EndsByItself(p) ==
  /\ InTurn(p) /\ queue[p] = <<>> /\ EndTurn(p)
  /\ UNCHANGED <<stage, queue, outcome>>

LastSeat == phaseIndex + 1 = Len(SeatOrder)

\* The gate turns that end_turn away and the runtime returns all the same:
\* the next begin_turn finds the phase open and raises.
EndTurnedAway(p) ==
  /\ InTurn(p) /\ queue[p] = <<>>
  /\ Gate /\ <<p, turn>> \notin bounced /\ Unmoved(p) # {}
  /\ pc' = "over" /\ stage' = "over"
  /\ outcome' = IF turn = MaxTurn /\ LastSeat THEN "diverged" ELSE "crashed"
  /\ log' = log \o Pair("end_turn", p, NoArg, NoKey, "rejected", FALSE)
  /\ bounced' = bounced \cup {<<p, turn>>}
  /\ UNCHANGED <<engineVars, lease, ledgerVars, countVars, dedupe, diary, held, attempt, calls,
                 queue>>

\* The coordinator's own steps.
Carry ==
  /\ stage = "replay"
  /\ BeginAttempt \/ Return \/ AbortCleanup \/ \E p \in Player : GrantLease(p)
  /\ UNCHANGED <<stage, queue, outcome>>

Compare ==
  /\ stage = "replay" /\ MatchDone
  /\ stage' = "over"
  /\ outcome' = IF Strip(log, hashes) = recorded THEN "identical" ELSE "diverged"
  /\ UNCHANGED <<vars, queue>>

Replayed ==
  /\ \/ Carry \/ Compare
     \/ \E p \in Player : Reissue(p) \/ EndsByItself(p) \/ EndTurnedAway(p)
  /\ Noticed /\ UNCHANGED <<config, gaveUp, whole, torn, recorded>>

-----------------------------------------------------------------------------
ReplayInit ==
  /\ Init
  /\ stage = "live" /\ config = chaos /\ hashes = <<world>> /\ gaveUp = FALSE
  /\ whole = FALSE /\ torn = FALSE /\ recorded = <<>>
  /\ queue = [p \in Player |-> <<>>] /\ outcome = "none"

ReplayNext == Live \/ ReplayLeft \/ ReplayTorn \/ ReplayAltered \/ Replayed

ReplaySpec == ReplayInit /\ [][ReplayNext]_allVars

\* Fair as the referee is, and the replay waits for nobody.
ReplayFairness ==
  /\ WF_allVars(stage = "live" /\ (BeginAttempt \/ Return \/ AbortCleanup) /\ Live)
  /\ WF_allVars((\E p \in Player : GrantLease(p)) /\ Live)
  /\ WF_allVars((\E p \in Player : BounceEndTurn(p) \/ EndTurn(p)) /\ Live)
  /\ WF_allVars(Replayed)

FairReplay == ReplaySpec /\ ReplayFairness

-----------------------------------------------------------------------------
(* A replay certifies exactly the log of a match that came to its own end    *)
(* and that nobody touched: bounced and rolled-back calls, repeated keys,    *)
(* chaos and violations come again as they did, up to an abort for too many  *)
(* violations; and what a kill cut short, a runtime gave up or somebody      *)
(* altered is told apart (replay.py:3-7).  One that cannot go on diverges    *)
(* and does not raise (replay.py:85-86), but for a log without its last      *)
(* calls when the completeness gate is on.                                   *)
CertificateIsHonest ==
  /\ stage = "over" => (outcome = "identical" <=> whole)
  /\ outcome = "crashed" => Gate /\ torn
=============================================================================
