---------------------------- MODULE MCRecords ----------------------------
(* For TLC: the match of MCArena that dies and is resumed, and what is made *)
(* of a match's records afterwards.  They share no state, so a behaviour    *)
(* belongs to one of them and the others rest in an initial state.          *)
EXTENDS MCArena

CONSTANTS
  Agents, Decision, LogRecords, MaxPosts,         \* of Dataset
  Rounds, Land, Invocations, Options, MaxMishaps  \* of Recording

VARIABLES
  which,
  events, ledger, failed, seat, client, posted, begun,
  stage, recorded, played, summary, broken, inv, disk, lock, mishaps

dataVars == <<events, ledger, failed, seat, client, posted, begun>>
verdictVars == <<stage, recorded, played, summary, broken, inv, disk, lock, mishaps>>

Data == INSTANCE Dataset WITH log <- events, now <- seat, MaxRecords <- LogRecords
Verdict == INSTANCE Recording WITH pc <- stage, log <- recorded

\* What the harness is called with: the usual, the wrong number of rounds, other
\* samples, samples on the matrix, in the run, a report on the samples' manifest.
Qualify(samples, report, rounds) ==
  [export |-> samples, report |-> report, json |-> <<"json">>, matrix |-> <<"matrix">>,
   rounds |-> rounds]
MCOptions ==
  {Qualify(<<"samples">>, <<"report">>, 2), Qualify(<<"samples">>, <<"report">>, 1),
   Qualify(<<"other">>, <<"report">>, 2), Qualify(<<"matrix">>, <<"report">>, 2),
   Qualify(<<"run", "events">>, <<"report">>, 2), Qualify(<<"samples">>, <<"samples", "manifest">>, 2)}

MCInit ==
  /\ which \in {"arena", "dataset", "verdict"}
  /\ ArenaInit /\ (which # "arena" => config = <<>>)
  /\ Data!Init /\ Verdict!Init

MCNext ==
  /\ UNCHANGED which
  /\ \/ which = "arena" /\ ArenaNext /\ UNCHANGED <<dataVars, verdictVars>>
     \/ which = "dataset" /\ Data!Next /\ UNCHANGED <<allVars, verdictVars>>
     \/ which = "verdict" /\ Verdict!Next /\ UNCHANGED <<allVars, dataVars>>

\* The fairness is the arena's: nothing is claimed to happen in the other two.
MCSpec ==
  MCInit /\ [][MCNext]_<<which, allVars, dataVars, verdictVars>> /\ ArenaFairness

\* Dataset!UsageClaimsAreTrue and Dataset!CallsFollowDecisions.
SamplesAreTrue == which = "dataset" => Data!UsageClaimsAreTrue /\ Data!CallsFollowDecisions

\* Recording!QualifiedRunsAreWhole and Recording!VerdictNamesItsArtifacts.
QualificationIsHonest ==
  which = "verdict" => Verdict!QualifiedRunsAreWhole /\ Verdict!VerdictNamesItsArtifacts
=============================================================================
