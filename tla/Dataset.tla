------------------------------ MODULE Dataset ------------------------------
(***************************************************************************)
(* What a driven match leaves of its decisions, and the samples that       *)
(* research/export_dataset.py makes of it: one sample per decision         *)
(* boundary, with the tool calls the decision commanded, what was observed *)
(* before it, and the rows of the cost ledger.  Seats play in turn; a turn *)
(* holds calls and decisions in any order, and each decision its posts.    *)
(* The position of a record is its seq.  Boundaries without an agent,      *)
(* which old logs have, and rows without token counts are left out.        *)
(***************************************************************************)
EXTENDS Integers, Sequences, FiniteSets

CONSTANTS
  Agents,      \* the number of seats; an agent is 1..Agents
  Decision,    \* decision ids; a new decision may take one that was used before
  MaxRecords, MaxPosts   \* bounds

VARIABLES
  log,         \* the event log: [kind, turn, agent, decision, requests]
  ledger,      \* llm_costs.jsonl: [agent, decision]
  failed,      \* the sinks that have failed: [agent, name]
  now,         \* whose turn it is
  client,      \* the decision its client books on, and the posts of it
  posted,      \* every post that was made
  begun        \* decisions begun, by id

vars == <<log, ledger, failed, now, client, posted, begun>>

NoDecision == 0

Init ==
  /\ log = <<>> /\ ledger = <<>> /\ failed = {} /\ posted = <<>>
  /\ begun = [d \in Decision |-> 0]
  /\ now = [turn |-> 1, agent |-> 1] /\ client = [decision |-> NoDecision, asked |-> 0]

-----------------------------------------------------------------------------
Write(kind, decision, requests) ==
  /\ Len(log) < MaxRecords
  /\ log' = Append(log, [kind |-> kind, turn |-> now.turn, agent |-> now.agent,
                         decision |-> decision, requests |-> requests])

\* A tool call; while the controller decides it only observes.
Call(kind) ==
  /\ kind = "act" => client.decision = NoDecision
  /\ Write(kind, NoDecision, 0)
  /\ UNCHANGED <<ledger, failed, now, client, posted, begun>>

Seat == IF now.agent = Agents THEN [turn |-> now.turn + 1, agent |-> 1]
                              ELSE [now EXCEPT !.agent = @ + 1]
NextSeat ==
  /\ client.decision = NoDecision /\ Len(log) < MaxRecords
  /\ \E i \in DOMAIN log : log[i].turn = now.turn /\ log[i].agent = now.agent
  /\ now' = Seat /\ UNCHANGED <<log, ledger, failed, client, posted, begun>>

\* client.decision_id, set when the turn begins, and for another decision in it.
Begin(d) ==
  /\ client.decision = NoDecision /\ \A e \in 1..(d - 1) : begun[e] > 0
  /\ client' = [decision |-> d, asked |-> 0] /\ begun' = [begun EXCEPT ![d] = @ + 1]
  /\ UNCHANGED <<log, ledger, failed, now, posted>>

Attempted ==
  /\ client.decision # NoDecision /\ Len(posted) < MaxPosts
  /\ client' = [client EXCEPT !.asked = @ + 1]
  /\ posted' = Append(posted, [agent |-> now.agent, decision |-> client.decision])
  /\ UNCHANGED <<now, begun>>

Sink(name) == [agent |-> now.agent, name |-> name]
Noted ==
  IF Sink("costs") \in failed THEN ledger
  ELSE Append(ledger, [agent |-> now.agent, decision |-> client.decision])

\* on_attempt: a sink that has failed once is not tried again.
Post == Attempted /\ ledger' = Noted /\ UNCHANGED <<log, failed>>

\* The row cannot be written to the ledger, or the transcript to the wire log. The
\* request goes on, and the fault is audited, if the log can be written.
SinkFails(name) ==
  /\ Sink(name) \notin failed /\ Attempted /\ failed' = failed \cup {Sink(name)}
  /\ UNCHANGED log \/ Write(name, NoDecision, 0)
  /\ ledger' = IF name = "costs" THEN ledger ELSE Noted

\* The decision_boundary audit, with the number of posts it took.
Decide ==
  /\ client.decision # NoDecision /\ Write("boundary", client.decision, client.asked)
  /\ client' = [decision |-> NoDecision, asked |-> 0]
  /\ UNCHANGED <<ledger, failed, now, posted, begun>>

Next ==
  \/ \E kind \in {"observe", "act"} : Call(kind)
  \/ NextSeat \/ Post \/ Decide
  \/ \E name \in {"costs", "wire"} : SinkFails(name)
  \/ \E d \in Decision : Begin(d)

Spec == Init /\ [][Next]_vars

-----------------------------------------------------------------------------
(* The export.  A sample is a segment, the calls of an agent in a turn,     *)
(* with the number of its boundary in it, or 0 if it has none.              *)

Of(seg) == {i \in DOMAIN log : log[i].turn = seg.turn /\ log[i].agent = seg.agent}
Segments ==
  {[turn |-> log[i].turn, agent |-> log[i].agent] :
     i \in {j \in DOMAIN log : log[j].kind \in {"observe", "act"}}}
Numbers == [i \in DOMAIN log |-> i]
Boundaries(seg) == SelectSeq(Numbers, LAMBDA i : i \in Of(seg) /\ log[i].kind = "boundary")

Occurrences == UNION {{[seg |-> s, k |-> k] : k \in DOMAIN Boundaries(s)} : s \in Segments}
Samples == Occurrences \cup {[seg |-> s, k |-> 0] : s \in {t \in Segments : Boundaries(t) = <<>>}}

At(o) == Boundaries(o.seg)[o.k]

\* The occurrence a row of the ledger goes to: of those of its decision and
\* its agent, in the whole run, the last.
Takers(row) ==
  {o \in Occurrences : log[At(o)].decision = row.decision /\ o.seg.agent = row.agent}
Recipient(row) == CHOOSE o \in Takers(row) : \A p \in Takers(row) : At(p) <= At(o)
RowsOf(o) == {r \in DOMAIN ledger : Takers(ledger[r]) # {} /\ Recipient(ledger[r]) = o}

\* The window of a decision's orders opens at its boundary, that of what it
\* observed at the one before; both close at the next one.
From(s) == IF s.k = 0 THEN 0 ELSE At(s)
Before(s) == IF s.k <= 1 THEN 0 ELSE Boundaries(s.seg)[s.k - 1]
Until_Open(s) == Len(log) + 1
Until(s) == IF s.k < Len(Boundaries(s.seg)) THEN Boundaries(s.seg)[s.k + 1] ELSE Len(log) + 1
Ordered(s) == {i \in Of(s.seg) : log[i].kind = "act" /\ From(s) < i /\ i < Until(s)}
Observed(s) == {i \in Of(s.seg) : log[i].kind = "observe" /\ Before(s) < i /\ i < Until(s)}

\* usage_complete: there are rows, as many as the boundary names, and no row of
\* the agent is known to be lost.
UsageComplete(o) ==
  /\ RowsOf(o) # {}
  /\ ~\E i \in DOMAIN log : log[i].kind = "costs" /\ log[i].agent = o.seg.agent
  /\ Cardinality(RowsOf(o)) >= log[At(o)].requests

-----------------------------------------------------------------------------
\* A sample that claims the usage of its decision to be complete has a row for
\* every post that was booked on the decision, although rows are lost and the
\* audits of the loss are lost too. (An id used twice is flagged as ambiguous.)
UsageClaimsAreTrue ==
  \A o \in Occurrences :
    UsageComplete(o) /\ begun[log[At(o)].decision] = 1 =>
      Cardinality(RowsOf(o)) =
        Cardinality({p \in DOMAIN posted : /\ posted[p].decision = log[At(o)].decision
                                           /\ posted[p].agent = o.seg.agent})

\* Every order is in the sample of the latest decision of its seat in its turn,
\* and in no other; every observation is in the sample of the decision that came
\* next, or of the last one if none did.
CallsFollowDecisions ==
  LET samples == Samples
      boundaries(i) == {b \in Of([turn |-> log[i].turn, agent |-> log[i].agent]) :
                          log[b].kind = "boundary"}
  IN \A i \in DOMAIN log :
       /\ log[i].kind = "act" =>
            LET before == {b \in boundaries(i) : b < i}
                takers == {s \in samples : i \in Ordered(s)}
            IN /\ Cardinality(takers) <= 1
               /\ before # {} => \E s \in takers : s.k > 0 /\ \A b \in before : b <= At(s)
       /\ log[i].kind = "observe" =>
            \E s \in samples :
              /\ i \in Observed(s)
              /\ s.k > 0 => ~\E b \in boundaries(i) : i < b /\ b < At(s)
=============================================================================
