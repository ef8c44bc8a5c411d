----------------------------- MODULE MCParts -----------------------------
(* For TLC: what a match keeps and rebuilds, and four components at the      *)
(* game.  The components below share no state, so a behaviour belongs to    *)
(* one of them and the others rest in an initial state.                     *)
EXTENDS EventLog

CONSTANTS
  b1, b2,
  Player, Budget, MaxCrashes,                     \* of SpendLedger
  Entity, Top, RowPool, MaxRows,                  \* of LedgerDiff
  MaxGoals, MaxPredictions, MaxLessons, BeliefCap, ReviewCap, Foreign, Calls,
  LastTurn, MaxRecords,                           \* of StrategyStore
  Attempts, MaxCalls, LinkRows, MaxBreaks,        \* of TunerLink
  RingSize, Turns, MaxHook, MaxLost,              \* of Spectate
  Rounds, SweepLimit, MaxTurn, MaxPopups, MaxFaults,  \* of Hotseat
  Tries, MaxOrders, MaxTrouble, Nothing           \* of Production

ASSUME LinkAssumption == Attempts \in Nat \ {0} /\ MaxCalls \in Nat /\ LinkRows \in Nat

VARIABLES
  which,
  spendFile, up, posts, spendSaved, exists, sent, tears, crashes,
  actual, allowed, looked, remaining, unauthorized, deviations,
  now, store, records, leased, saved, shown,
  linkPc, cmd, lines, inbox, wire, answer, tokens, runs, breaks,
  fired, born, step, statusTurn, trace, prev, batch, drained, attach, gap, active,
  opened, rounds, reported, lost,
  engine, lease, used, armed, pc, target, status, rows, sweeps, ended, asked, faults,
  city, requests, scripts, reply, conn, buildPc, order, copy, seenConn, trouble, copies,
  requested, results

spendVars == <<spendFile, up, posts, spendSaved, exists, sent, tears, crashes>>
diffVars == <<actual, allowed, looked, remaining, unauthorized, deviations>>
storeVars == <<now, store, records, leased, saved, shown>>
linkVars == <<linkPc, cmd, lines, inbox, wire, answer, tokens, runs, breaks>>
recVars == <<fired, born, step, statusTurn, trace, prev, batch, drained, attach, gap,
             active, opened, rounds, reported, lost>>
seatVars == <<engine, lease, used, armed, pc, target, status, rows, sweeps, ended, asked, faults>>
buildVars == <<city, requests, scripts, reply, conn, buildPc, order, copy, seenConn, trouble,
               copies, requested, results>>
fileVars == <<vars, spendVars, diffVars, storeVars>>
gameVars == <<linkVars, recVars, seatVars, buildVars>>

Spend == INSTANCE SpendLedger
  WITH file <- spendFile, saved <- spendSaved, Cuts <- {"part", "text"}
Diff == INSTANCE LedgerDiff WITH i <- looked
Store == INSTANCE StrategyStore
Link == INSTANCE TunerLink WITH pc <- linkPc, MaxRows <- LinkRows
Watch == INSTANCE Spectate
Seats == INSTANCE Hotseat
Build == INSTANCE Production WITH asked <- requests, pc <- buildPc

-----------------------------------------------------------------------------
Bodies == {b1, b2}

R(e, b, a) == [entity |-> e, before |-> b, after |-> a]
MCRowPool == {R("gold", 1, 0), R("gold", 0, 1), R("gold", 0, 0), R("moves", 0, 1)}

Goal(id, due, as) ==
  [tool |-> "set_goal",
   args |-> [id |-> id, due |-> due, metric |-> due # 0, status |-> as, good |-> TRUE]]
Prediction(id, due) ==
  [tool |-> "record_prediction",
   args |-> [id |-> id, due |-> due, metric |-> TRUE, status |-> "active", good |-> TRUE]]
Lesson(kind, id) ==
  [tool |-> "record_lesson", args |-> [about |-> [kind |-> kind, id |-> id], good |-> TRUE]]
MCCalls ==
  {Goal(0, 2, "active"), Goal(1, 3, "active"), Goal(1, 0, "dropped"), Prediction(0, 2),
   Prediction(1, 3), Lesson("prediction", 1)}

-----------------------------------------------------------------------------
MCInit ==
  /\ which \in {"log", "spend", "diff", "strategy", "link", "spectate", "hotseat",
               "production"}
  /\ Init /\ Spend!Init /\ Store!StrategyInit
  /\ Diff!Init /\ (which # "diff" => actual = <<>> /\ allowed = <<>>)
  /\ Link!Init /\ Seats!Init
  /\ Build!Init /\ (which # "production" => city.item = Nothing)
  /\ Watch!Init /\ (which # "spectate" => born = 0 /\ fired = 0)

FilesNext ==
  \/ which = "log" /\ Next /\ UNCHANGED <<spendVars, diffVars, storeVars>>
  \/ which = "spend" /\ Spend!Next /\ UNCHANGED <<vars, diffVars, storeVars>>
  \/ which = "diff" /\ Diff!Next /\ UNCHANGED <<vars, spendVars, storeVars>>
  \/ which = "strategy" /\ Store!StrategyNext /\ UNCHANGED <<vars, spendVars, diffVars>>
GameNext ==
  \/ which = "link" /\ Link!Next /\ UNCHANGED <<seatVars, recVars, buildVars>>
  \/ which = "spectate" /\ Watch!Next /\ UNCHANGED <<seatVars, linkVars, buildVars>>
  \/ which = "hotseat" /\ Seats!Next /\ UNCHANGED <<linkVars, recVars, buildVars>>
  \/ which = "production" /\ Build!Next /\ UNCHANGED <<linkVars, recVars, seatVars>>
MCNext ==
  /\ UNCHANGED which
  /\ (FilesNext /\ UNCHANGED gameVars) \/ (GameNext /\ UNCHANGED fileVars)

Hotseat(action) == which = "hotseat" /\ action
MCSpec ==
  /\ MCInit /\ [][MCNext]_<<which, fileVars, gameVars>>
  /\ WF_seatVars(Hotseat(Seats!Driver)) /\ WF_seatVars(Hotseat(Seats!Engine))
  /\ SF_seatVars(Hotseat(Seats!SweepInput \/ Seats!SweepsExhausted))

\* SpendLedger!ForgetsOnePerTear.
ForgetsOnePerTear == Spend!ForgetsOnePerTear

\* LedgerDiff!FindsTheExcess and LedgerDiff!FindsTheKinds.
DiffIsExact == Diff!DiffIsExact

\* StrategyStore!RebuiltIsLive and StrategyStore!VerdictsStick.
StrategyIsSettled == Store!RebuiltIsLive /\ Store!VerdictsStick

\* TunerLink!OwnRowsOnly and TunerLink!OnceIsOnce; and Production!SentOnce,
\* Production!AnswersAreTrue and Production!LastOrderStands.
AnswersAreSound ==
  /\ Link!OwnRowsOnly /\ Link!OnceIsOnce
  /\ which = "production" => Build!SentOnce /\ Build!AnswersAreTrue /\ Build!LastOrderStands

\* Spectate!NothingSilentlyMissed, Spectate!ClaimsAreTrue, Spectate!EligibleIsWhole
\* and Spectate!PrefixesValidate.
RecordIsHonest ==
  /\ Watch!NothingSilentlyMissed /\ Watch!ClaimsAreTrue
  /\ Watch!EligibleIsWhole /\ Watch!PrefixesValidate

\* Hotseat!LedgerIsWhatHappened and Hotseat!EndsOnlyItsOwn; and Hotseat!PlaysOn,
\* of the behaviours that are the hotseat's.
HandoffIsSound ==
  /\ [](Seats!LedgerIsWhatHappened /\ Seats!EndsOnlyItsOwn)
  /\ which = "hotseat" => Seats!PlaysOn
=============================================================================
