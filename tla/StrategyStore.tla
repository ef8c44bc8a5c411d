--------------------------- MODULE StrategyStore ---------------------------
(***************************************************************************)
(* What a player has said and seen: the goals, predictions, lessons, facts  *)
(* and beliefs of src/src/civ_arena/strategy, as the referee keeps them     *)
(* live, and as they are rebuilt from the event log on a resume and for the *)
(* labels of a finished match.  One player: the players' stores are keyed   *)
(* by player and share nothing.                                             *)
(*                                                                         *)
(* One metric, gold, with one target; a text or a number is good or bad.    *)
(* Goals and predictions are numbered from 1 and never removed, so a claim  *)
(* is a position in a sequence of revision histories.                       *)
(***************************************************************************)
EXTENDS Integers, Sequences, FiniteSets, SequencesExt

CONSTANTS
  MaxGoals, MaxPredictions, MaxLessons,  \* 32, 64, 64 in the code
  BeliefCap,   \* entities of a kind that are remembered
  ReviewCap,   \* claims under review that the header shows in full: 6
  Foreign,     \* entities of others
  Calls,       \* bound: the claim calls that are tried, [tool, args]
  LastTurn,    \* bound: turns
  MaxRecords   \* bound: records of the log

VARIABLES
  now,      \* the turn
  store,    \* [goals, preds, lessons, facts, beliefs]
  records,  \* the event log, as far as the store can tell
  leased,   \* the player holds the lease
  saved,    \* records at the last checkpoint
  shown     \* history: verdicts shown in a header after the deadline

storeVars == <<now, store, records, leased, saved, shown>>

Gold == 0..1
Target == 1
NoSample == -1
EmptyStore ==
  [goals |-> <<>>, preds |-> <<>>, lessons |-> <<>>,
   facts |-> [t \in 1..LastTurn |-> NoSample], beliefs |-> <<>>]

-----------------------------------------------------------------------------
(* Claims *)
Statuses == {"active", "done", "dropped"}

\* An amendment closes the last revision at the turn before, at the earliest
\* at its own first turn, and opens the next.
ClosedAt(c, t) == [c EXCEPT !.to = IF c.from > t - 1 THEN c.from ELSE t - 1]
CloseLast(h, t) == [h EXCEPT ![Len(h)] = ClosedAt(Last(h), t)]

Revision(args, t, seq) ==
  [due |-> args.due, metric |-> args.metric, status |-> args.status, seq |-> seq,
   from |-> t, to |-> 0]

Living(goals) == {i \in DOMAIN goals : Last(goals[i]).status # "dropped"}

\* The reasons apply_goal has to reject a call, in any order: all are rejections.
GoalIsBad(s, args, t) ==
  \/ ~args.good
  \/ args.due # 0 /\ args.due < t
  \/ args.id \notin 0..Len(s.goals)
  \/ /\ args.id = 0
     /\ Cardinality(Living(s.goals)) >= MaxGoals
  \/ /\ args.id \in DOMAIN s.goals /\ Last(s.goals[args.id]).status = "dropped"
     /\ args.status # "dropped" /\ Cardinality(Living(s.goals)) >= MaxGoals

PredictionIsBad(s, args, t) ==
  \/ ~args.good
  \/ args.due < t
  \/ args.id \notin 0..Len(s.preds)
  \/ args.id = 0 /\ Len(s.preds) >= MaxPredictions

LessonIsBad(s, args) ==
  \/ ~args.good
  \/ args.about.kind = "goal" /\ args.about.id \notin DOMAIN s.goals
  \/ args.about.kind = "prediction" /\ args.about.id \notin DOMAIN s.preds
  \/ Len(s.lessons) >= MaxLessons

Amended(histories, args, t, seq) ==
  IF args.id = 0 THEN Append(histories, <<Revision(args, t, seq)>>)
  ELSE [histories EXCEPT ![args.id] = Append(CloseLast(@, t), Revision(args, t, seq))]

ApplyGoal(s, args, t, seq) ==
  IF GoalIsBad(s, args, t) THEN s ELSE [s EXCEPT !.goals = Amended(@, args, t, seq)]

ApplyPrediction(s, args, t, seq) ==
  IF PredictionIsBad(s, args, t) THEN s ELSE [s EXCEPT !.preds = Amended(@, args, t, seq)]

\* A lesson about a prediction that is due is its verdict and closes it.
Resolves(s, args, t) ==
  /\ args.about.kind = "prediction"
  /\ LET p == Last(s.preds[args.about.id]) IN p.to = 0 /\ p.due <= t

ApplyLesson(s, args, t, seq) ==
  IF LessonIsBad(s, args) THEN s
  ELSE LET kept == [s EXCEPT !.lessons = Append(@, [about |-> args.about, from |-> t,
                                                     seq |-> seq])]
       IN  IF Resolves(s, args, t)
           THEN [kept EXCEPT !.preds[args.about.id] = CloseLast(@, t)]
           ELSE kept

IsBad(s, tool, args, t) ==
  \/ tool = "set_goal" /\ GoalIsBad(s, args, t)
  \/ tool = "record_prediction" /\ PredictionIsBad(s, args, t)
  \/ tool = "record_lesson" /\ LessonIsBad(s, args)

ApplyClaim(s, tool, args, t, seq) ==
  CASE tool = "set_goal"          -> ApplyGoal(s, args, t, seq)
    [] tool = "record_prediction" -> ApplyPrediction(s, args, t, seq)
    [] tool = "record_lesson"     -> ApplyLesson(s, args, t, seq)

-----------------------------------------------------------------------------
(* Observations: a sample of the own gold, or the foreign units in sight.  *)

\* Seen again moves to the end; over the cap the one seen longest ago goes.
See(beliefs, e, t, seq) ==
  LET Others(b) == b.entity # e
      all == Append(SelectSeq(beliefs, Others), [entity |-> e, turn |-> t, seq |-> seq])
  IN  IF Len(all) > BeliefCap THEN Tail(all) ELSE all

NoteObservation(s, digest, t, seq) ==
  IF digest.kind = "gold" THEN [s EXCEPT !.facts[t] = digest.value]
  ELSE [s EXCEPT !.beliefs = See(@, digest.entity, t, seq)]

-----------------------------------------------------------------------------
(* The log.  Every handler writes its pair of records without a break.     *)
Call(tool, args) ==
  [kind |-> "TOOL_CALL", tool |-> tool, status |-> "", turn |-> now, doc |-> args]
Result(tool, status, doc) ==
  [kind |-> "TOOL_RESULT", tool |-> tool, status |-> status, turn |-> now, doc |-> doc]
EmitPair(tool, args, status, doc) ==
  records' = records \o <<Call(tool, args), Result(tool, status, doc)>>

ClaimTools == {"set_goal", "record_prediction", "record_lesson"}
None == [kind |-> "none"]

IsObservation(recs, i) ==
  recs[i].kind = "TOOL_RESULT" /\ recs[i].tool = "observe" /\ recs[i].status = "accepted"

\* A claim counts when the very next record is its accepted result.
IsClaim_AnyResult(recs, i) ==  \* mutant
  recs[i].kind = "TOOL_CALL" /\ recs[i].tool \in ClaimTools /\ i < Len(recs)
IsClaim(recs, i) ==
  /\ recs[i].kind = "TOOL_CALL" /\ recs[i].tool \in ClaimTools
  /\ i < Len(recs)
  /\ recs[i + 1].kind = "TOOL_RESULT" /\ recs[i + 1].tool = recs[i].tool
  /\ recs[i + 1].status = "accepted" /\ recs[i + 1].turn = recs[i].turn

\* from_log; a record's seq is its position less one.
FromLog(recs) ==
  LET Step(s, i) ==
        IF IsObservation(recs, i)
        THEN NoteObservation(s, recs[i].doc, recs[i].turn, i - 1)
        ELSE IF IsClaim(recs, i)
        THEN ApplyClaim(s, recs[i].tool, recs[i].doc, recs[i].turn, i - 1)
        ELSE s
  IN  FoldLeftDomain(Step, EmptyStore, recs)

-----------------------------------------------------------------------------
(* Reviews *)

\* The latest sample at or before a turn.
MetricValue(s, t) ==
  LET turns == {u \in 1..t : s.facts[u] # NoSample}
  IN  IF turns = {} THEN NoSample ELSE s.facts[Max(turns)]

\* A claim is judged as of its deadline, whatever was seen later.
JudgedAt(c, t) == IF t < c.due THEN t ELSE c.due

Verdict(s, c, t) ==
  LET value == MetricValue(s, JudgedAt(c, t))
  IN  IF ~c.metric \/ c.due = 0 \/ value = NoSample THEN "self_assess"
      ELSE IF value >= Target THEN "met" ELSE "missed"

Due(s, t) ==
  {[kind |-> "goal", id |-> i, rev |-> Len(s.goals[i]), due |-> Last(s.goals[i]).due] :
     i \in {j \in DOMAIN s.goals : LET g == Last(s.goals[j]) IN
                                    g.status = "active" /\ g.due # 0 /\ g.due <= t}}
  \cup
  {[kind |-> "prediction", id |-> i, rev |-> Len(s.preds[i]), due |-> Last(s.preds[i]).due] :
     i \in {j \in DOMAIN s.preds : LET p == Last(s.preds[j]) IN p.to = 0 /\ p.due <= t}}

\* By deadline, goals before predictions; the rest is named without a verdict.
Before(x, y) ==
  \/ x.due < y.due
  \/ x.due = y.due /\ x.kind = "goal" /\ y.kind = "prediction"
  \/ x.due = y.due /\ x.kind = y.kind /\ x.id < y.id
InFull(s, t) == {x \in Due(s, t) : Cardinality({y \in Due(s, t) : Before(y, x)}) < ReviewCap}

RevisionOf(s, x) == IF x.kind = "goal" THEN s.goals[x.id][x.rev] ELSE s.preds[x.id][x.rev]

\* The verdicts of a header that can no longer change: the deadline is over.
Final(s, t) ==
  {[kind |-> x.kind, id |-> x.id, rev |-> x.rev, verdict |-> Verdict(s, RevisionOf(s, x), t)] :
     x \in {y \in InFull(s, t) : y.due < t}}

\* labels.py: one row for each claim, from the log of the match.
LabelVerdict(x) == LET s == FromLog(records) IN Verdict(s, RevisionOf(s, x), now)

-----------------------------------------------------------------------------
Room == Len(records) < MaxRecords

\* _claim: the lease, then the store's own validation and mutation, then the pair.
Claim(tool, args) ==
  /\ Room
  /\ \/ /\ ~leased
        /\ EmitPair(tool, args, "rejected", None)
        /\ UNCHANGED store
     \/ /\ leased
        /\ store' = ApplyClaim(store, tool, args, now, Len(records))
        /\ EmitPair(tool, args, IF IsBad(store, tool, args, now) THEN "rejected"
                                ELSE "accepted", None)
  /\ UNCHANGED <<now, leased, saved, shown>>

\* observe: the digest of what was shown rides on the result.
Observe(digest) ==
  /\ Room
  /\ \/ /\ ~leased
        /\ EmitPair("observe", None, "rejected", None)
        /\ UNCHANGED store
     \/ /\ leased
        /\ EmitPair("observe", None, "accepted", digest)
        /\ store' = NoteObservation(store, digest, now, Len(records) + 1)
  /\ UNCHANGED <<now, leased, saved, shown>>

\* The header of the turn is rendered before the first call of the turn.
GrantLease ==
  /\ ~leased
  /\ leased' = TRUE
  /\ shown' = shown \cup Final(store, now)
  /\ UNCHANGED <<now, store, records, saved>>

EndTurn ==
  /\ leased /\ now < LastTurn
  /\ leased' = FALSE /\ now' = now + 1
  /\ saved' = [records |-> records, now |-> now + 1, shown |-> shown]
  /\ UNCHANGED <<store, records, shown>>

\* The process dies anywhere and is resumed from the last checkpoint.
Resume ==
  /\ records # saved.records
  /\ records' = saved.records /\ now' = saved.now /\ shown' = saved.shown
  /\ store' = FromLog(saved.records)
  /\ leased' = FALSE
  /\ UNCHANGED saved

StrategyInit ==
  /\ now = 1 /\ store = EmptyStore /\ records = <<>> /\ leased = FALSE
  /\ saved = [records |-> <<>>, now |-> 1, shown |-> {}] /\ shown = {}

StrategyNext ==
  \/ \E c \in Calls : Claim(c.tool, c.args)
  \/ \E v \in Gold : Observe([kind |-> "gold", value |-> v])
  \/ \E e \in Foreign : Observe([kind |-> "units", entity |-> e])
  \/ GrantLease \/ EndTurn \/ Resume

StrategySpec == StrategyInit /\ [][StrategyNext]_storeVars

-----------------------------------------------------------------------------
\* The store that the log rebuilds is the one that the calls built, whatever
\* calls were refused, by the lease or by the store, and wherever a resume
\* cut the log: same claims, revisions, intervals, provenance, facts and
\* beliefs ("rebuild == live", from_log).
RebuiltIsLive == FromLog(records) = store

\* A verdict shown after the deadline stands: no later sample and no resume
\* turns it, and the labels of the match repeat it ("a goal missed at its
\* deadline stays missed", scoring.verdict).
VerdictsStick == \A x \in shown : LabelVerdict(x) = x.verdict
=============================================================================
