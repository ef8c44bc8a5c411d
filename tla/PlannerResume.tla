---------------------------- MODULE PlannerResume ----------------------------
(* What the planner carries from turn to turn and gets back after a kill:   *)
(* planner/journal.py, the journal's part of planner/runtime.py and         *)
(* planner/bandit.py, under the turns and checkpoints of the coordinator.   *)
(* A foe is all that the belief keeps here; the option a search would       *)
(* choose is any.  The planner acts through PlannerTurn.                    *)
EXTENDS Integers, Sequences, FiniteSets, SequencesExt, FiniteSetsExt, Functions

CONSTANTS None, Artifact, Option,
          Looks,                            \* what a look at the game can show: foes, context, value
          PostCap, MaxContexts, Reselect,
          Every,                            \* turns from one checkpoint to the next
          LastTurn, MaxKills                \* bounds of a behaviour

VARIABLES
  up, stage,        \* the process; waiting, restored, acting or done with the turn
  turn, saved,      \* the turn under way, the turn of the latest checkpoint
  mind,             \* PlannerRuntime
  journal,          \* the file
  stood,            \* history: the mind at the end of each turn played
  made, undone,     \* history: requests answered to the proposer; turns taken back
  kills

vars == <<up, stage, turn, saved, mind, journal, stood, made, undone, kills>>

-----------------------------------------------------------------------------
(* The bandit: trials and summed advantage of an option in a context.       *)
Known(arms) == {key[1] : key \in DOMAIN arms}
Trials(arms, c) == MapThenSumSet(LAMBDA key : IF key[1] = c THEN arms[key].n ELSE 0, DOMAIN arms)
Bounded(arms) ==
  LET least == CHOOSE c \in Known(arms) : \A d \in Known(arms) :
                  <<Trials(arms, c), c>> = <<Trials(arms, d), d>>
                  \/ Trials(arms, c) < Trials(arms, d) \/ (Trials(arms, c) = Trials(arms, d) /\ c < d)
  IN IF Cardinality(Known(arms)) <= MaxContexts THEN arms
     ELSE [key \in {k \in DOMAIN arms : k[1] # least} |-> arms[key]]
Update(arms, c, option, advantage) ==
  LET old == IF <<c, option>> \in DOMAIN arms THEN arms[<<c, option>>] ELSE [n |-> 0, sum |-> 0]
      new == [n |-> old.n + 1, sum |-> old.sum + advantage]
  IN Bounded([key \in DOMAIN arms \cup {<<c, option>>} |-> IF key = <<c, option>> THEN new ELSE arms[key]])

Untaught == [arms |-> <<>>, pending |-> None]   \* the constructor's initial state
\* The decision that waits for its advantage is settled at the next one.
Settled(bandit, look) ==
  IF bandit.pending = None THEN bandit
  ELSE [arms |-> Update(bandit.arms, bandit.pending.ctx, bandit.pending.option,
                        look.value - bandit.pending.value), pending |-> None]

-----------------------------------------------------------------------------
(* The journal: a leg reads what was written before its turn, and writes     *)
(* after that.                                                              *)
ReplayUpto(recs, t) ==
  LET kept[i \in 0..Len(recs)] ==
        IF i = 0 THEN <<>>
        ELSE IF recs[i].turn < t THEN Append(kept[i - 1], recs[i]) ELSE kept[i - 1]
  IN kept[Len(recs)]
Recorded_KeepsLater(recs, t, doc) ==  \* mutant: what a lost leg wrote stays
  Append(SelectSeq(recs, LAMBDA r : r.turn # t), [turn |-> t, doc |-> doc])
Recorded(recs, t, doc) == Append(ReplayUpto(recs, t), [turn |-> t, doc |-> doc])
Loads(recs) == \A i \in 1..Len(recs) - 1 : recs[i].turn < recs[i + 1].turn

Doc(m) ==
  [seen |-> m.seen, day |-> m.day, active |-> m.active, chosenAt |-> m.chosenAt, posts |-> m.posts,
   digest |-> m.art, mismatch |-> m.mismatch, bandit |-> m.bandit]

\* artifact and armed are what the leg's configuration gives the constructor.
Blank(artifact, armed) ==
  [seen |-> {}, day |-> 0, active |-> "", chosenAt |-> 0, posts |-> 0, art |-> artifact,
   mismatch |-> FALSE, bandit |-> IF armed THEN Untaught ELSE None, through |-> 0]

\* The latest snapshot of an earlier turn, for a blank runtime and for one that
\* is taken back to a turn it has processed.
Restored(m, t) ==
  LET docs == ReplayUpto(journal, t)
      last == docs[Len(docs)].doc
      swapped == last.digest # None /\ last.digest # m.art
      taught == IF m.bandit = None THEN None ELSE IF last.bandit = None THEN Untaught ELSE last.bandit
  IN IF (m.day # 0 /\ t > m.through) \/ docs = <<>> THEN m
     ELSE [seen |-> last.seen, day |-> last.day, active |-> last.active, chosenAt |-> last.chosenAt,
           posts |-> last.posts, art |-> IF swapped THEN None ELSE m.art,
           mismatch |-> m.mismatch \/ swapped, bandit |-> taught, through |-> m.through]

-----------------------------------------------------------------------------
Init ==
  /\ up = FALSE /\ stage = "waiting" /\ turn = 1 /\ saved = 0
  /\ mind = Blank(None, FALSE) /\ journal = <<>>
  /\ stood = <<>> /\ made = 0 /\ undone = 0 /\ kills = 0

\* A leg of the match: a new process goes on from the latest checkpoint.
Start(artifact, armed) ==
  /\ ~up /\ Loads(journal)
  /\ up' = TRUE /\ stage' = "waiting" /\ turn' = saved + 1
  /\ mind' = Blank(artifact, armed)
  /\ UNCHANGED <<saved, journal, stood, made, undone, kills>>

\* The turns in which the planner has decided, of those that the match counts.
Played == IF stage \in {"waiting", "restored"} THEN turn - 1 ELSE turn

\* A runtime used again goes on from an earlier checkpoint.
Reuse(t) ==
  /\ up /\ stage = "waiting" /\ t % Every = 0 /\ 0 < t /\ t < saved
  /\ kills < MaxKills /\ kills' = kills + 1
  /\ saved' = t /\ turn' = t + 1 /\ undone' = undone + Played - t
  /\ UNCHANGED <<up, stage, mind, journal, stood, made>>

Restore ==
  /\ up /\ stage = "waiting" /\ turn <= LastTurn
  /\ mind' = Restored(mind, turn)
  /\ stage' = "restored"
  /\ UNCHANGED <<up, turn, saved, journal, stood, made, undone, kills>>

\* The sight of the turn, and its option: the one at work, or another when it is
\* over or its time is up.  Only a choice asks the proposer and the bandit.
PostsLeft(m) == m.posts < PostCap
MustChoose(over) == mind.active = "" \/ over \/ turn - mind.chosenAt >= Reselect
Choose(m, look, option, answered) ==
  [m EXCEPT !.active = option, !.chosenAt = turn, !.posts = @ + (IF answered THEN 1 ELSE 0),
            !.bandit = IF @ = None THEN None
                       ELSE [Settled(@, look) EXCEPT !.pending =
                               [turn |-> turn, ctx |-> look.ctx, option |-> option, value |-> look.value]]]
Decide(look, over, option, answered) ==
  LET sees == [mind EXCEPT !.seen = @ \cup look.foes, !.day = turn]
  IN /\ up /\ stage = "restored"
     /\ answered => MustChoose(over) /\ PostsLeft(mind)
     /\ ~MustChoose(over) => option = mind.active
     /\ mind' = IF MustChoose(over) THEN Choose(sees, look, option, answered) ELSE sees
     /\ made' = made + (IF answered THEN 1 ELSE 0)
     /\ stage' = "acting"
     /\ UNCHANGED <<up, turn, saved, journal, stood, undone, kills>>

\* The plan is carried out, which may retire a foe; then the turn is journaled.
Complete(dead) ==
  LET after == [mind EXCEPT !.seen = @ \ dead, !.through = turn]
  IN /\ up /\ stage = "acting"
     /\ mind' = after
     /\ journal' = Recorded(journal, turn, Doc(after))
     /\ stood' = [t \in 1..turn |-> IF t = turn THEN Doc(after) ELSE stood[t]]
     /\ stage' = "done"
     /\ UNCHANGED <<up, turn, saved, made, undone, kills>>

Boundary ==
  /\ up /\ stage = "done"
  /\ saved' = IF turn % Every = 0 THEN turn ELSE saved
  /\ turn' = turn + 1 /\ stage' = "waiting"
  /\ UNCHANGED <<up, mind, journal, stood, made, undone, kills>>

Kill ==
  /\ up /\ kills < MaxKills
  /\ up' = FALSE /\ kills' = kills + 1 /\ undone' = undone + Played - saved
  /\ UNCHANGED <<stage, turn, saved, mind, journal, stood, made>>

Next ==
  \/ \E artifact \in Artifact \cup {None}, armed \in BOOLEAN : Start(artifact, armed)
  \/ \E t \in 1..LastTurn : Reuse(t)
  \/ Restore
  \/ \E look \in Looks, over \in BOOLEAN, option \in Option, answered \in BOOLEAN :
       Decide(look, over, option, answered)
  \/ \E dead \in SUBSET mind.seen : Complete(dead)
  \/ Boundary \/ Kill

-----------------------------------------------------------------------------
\* Whatever was killed or taken back, and however far the journal is ahead of the
\* checkpoint, a turn begins with the mind that the turn before it ended with;
\* what the bandit had learned stays unless a leg went without it.  And the
\* journal is always one that the next leg's constructor accepts.
ResumesWhereItStood ==
  /\ Loads(journal)
  /\ stage = "restored" /\ turn > 1 =>
       LET was == stood[turn - 1]
       IN /\ <<mind.seen, mind.day, mind.active, mind.chosenAt, mind.posts>>
               = <<was.seen, was.day, was.active, was.chosenAt, was.posts>>
          /\ mind.bandit # None => mind.bandit = IF was.bandit = None THEN Untaught ELSE was.bandit
          /\ was.digest # None => mind.art \in {None, was.digest}

\* runtime.py PROPOSER_POST_CAP: a resume does not reset the match's budget for the
\* proposer.  It goes over the cap by the turns that were taken back at most.
PostsStayCapped == made <= PostCap + undone

\* runtime.py _restore_from_journal: once a swapped artifact has degraded the
\* runtime, it is unprimed for the rest of the match.
NeverReprimed ==
  stage = "acting" /\ (\E i \in DOMAIN journal : journal[i].turn < turn /\ journal[i].doc.mismatch)
    => mind.art = None
=============================================================================
