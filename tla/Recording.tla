----------------------------- MODULE Recording -----------------------------
(***************************************************************************)
(* A recorded match and the verdict on it: the captures that               *)
(* phase_dispatch_hotseat of game/civ6/live_driver.py takes after each     *)
(* seat's turn, what game/civ6/world_capture.py accepts of an answer, the  *)
(* audit of the log (game/civ6/validate_run.py, scripts/qualify_recording) *)
(* and the publication of its verdict, by several invocations, each of     *)
(* which may die or fail at any step.                                      *)
(*                                                                         *)
(* A log is reduced to the records the audit looks at; the records of a    *)
(* seat's turn (grant, calls, release, end, completed_seat_turn) are one.  *)
(* A mangled log is one a faulty recorder could have left.                 *)
(***************************************************************************)
EXTENDS Integers, Sequences, FiniteSets, SequencesExt

CONSTANTS
  Rounds,      \* rounds the match is played for
  Land,        \* owned tiles on the map
  Invocations, \* of the harness
  Options,     \* what it is called with: [export, report, json, matrix, rounds]
  MaxMishaps   \* bound: cuts, failures, deaths and mangled records

VARIABLES
  pc,          \* of the driver
  log, played, \* the records; the seats' turns that were completed
  summary,     \* summary.json, or NoSummary
  broken,      \* violations the referee has flagged
  inv,         \* per invocation: [pc, opt, verdict, todo]
  disk,        \* the generation of each file outside the run directory, 0 none
  lock,        \* per verdict document, the invocation that holds its lock file
  mishaps

runVars == <<pc, log, played, summary, broken>>
vars == <<runVars, inv, disk, lock, mishaps>>

NoSummary == <<>>

-----------------------------------------------------------------------------
(* The run. *)
Record(kind, seat, turn) ==
  [kind |-> kind, seat |-> seat, turn |-> turn, seq |-> Len(log) + 1, ok |-> TRUE, tiles |-> 0]
Write(rec) == log' = Append(log, rec)
Mishap == mishaps < MaxMishaps /\ mishaps' = mishaps + 1
Fine == UNCHANGED mishaps
NotPublishing == UNCHANGED <<inv, disk, lock>>

Latest == played[Len(played)]
Done == Len(played) = 2 * Rounds

\* MATCH_START, the run's identity, and setup up to the attachment.
Setup ==
  /\ pc = "setup" /\ Write(Record("start", -1, 1)) /\ pc' = "capture"
  /\ UNCHANGED <<played, summary, broken>> /\ Fine /\ NotPublishing

\* The answer to the read of the owned tiles, and what is left of it when lines
\* are cut off or one is lost.
Answer ==
  <<[tag |-> "header", n |-> 0], [tag |-> "GRID", n |-> 0]>>
    \o [i \in 1..Land |-> [tag |-> "OWNEDROW", n |-> 0]] \o <<[tag |-> "TILES_END", n |-> Land]>>
Damaged ==
  {SubSeq(Answer, 1, k) : k \in 0..(Len(Answer) - 1)}
    \cup {RemoveAt(Answer, i) : i \in DOMAIN Answer}

Tagged(lines, tag) == {i \in DOMAIN lines : lines[i].tag = tag}

\* parse_owned_tiles raises unless a header comes first, one grid before the rows,
\* and one end after them that names their number.
Parses(lines) ==
  /\ lines # <<>> /\ lines[1].tag = "header"
  /\ \E g \in Tagged(lines, "GRID") :
       Tagged(lines, "GRID") = {g} /\ \A i \in Tagged(lines, "OWNEDROW") : g < i
  /\ Tagged(lines, "TILES_END") = {Len(lines)}
  /\ lines[Len(lines)].n = Cardinality(Tagged(lines, "OWNEDROW"))

After == IF played = <<>> THEN [seat |-> -1, turn |-> 1] ELSE Latest

\* _spectator_capture, outside the budget of the turn. A read that fails, times
\* out or does not parse is audited, and the match goes on.
Captured(lines) ==
  IF Parses(lines)
  THEN [Record("world", After.seat, After.turn) EXCEPT !.tiles = Cardinality(Tagged(lines, "OWNEDROW"))]
  ELSE Record("world_failed", After.seat, After.turn)
Capture ==
  /\ pc = "capture" /\ pc' = IF Done THEN "finishing" ELSE "seat"
  /\ \/ Write(Captured(Answer)) /\ Fine
     \/ Mishap /\ \E lines \in Damaged : Write(Captured(lines))
  /\ UNCHANGED <<played, summary, broken>> /\ NotPublishing

\* A seat's turn: the seats take turns, and the ledger admits no other order.
Coming == IF played = <<>> THEN [seat |-> 0, turn |-> 1]
         ELSE [seat |-> 1 - Latest.seat, turn |-> Latest.turn + Latest.seat]
SeatTurn ==
  /\ pc = "seat" /\ pc' = "capture" /\ played' = Append(played, Coming)
  /\ \/ Write(Record("row", Coming.seat, Coming.turn)) /\ UNCHANGED broken /\ Fine
     \/ \* The watchdog flags a row, and the match continues.
        /\ Mishap /\ broken' = broken + 1
        /\ log' = log \o <<Record("violation", Coming.seat, Coming.turn),
                           [Record("row", Coming.seat, Coming.turn) EXCEPT !.seq = @ + 1]>>
  /\ UNCHANGED summary /\ NotPublishing

\* The summary and MATCH_END: clean when nothing failed and all was played.
Close(ok) ==
  /\ summary' = [clean |-> ok, rows |-> played, violations |-> broken]
  /\ log' = log \o (IF ok THEN <<Record("complete", -1, After.turn)>> ELSE <<>>)
                \o <<[Record("end", -1, After.turn) EXCEPT !.seq = IF ok THEN @ + 1 ELSE @]>>
  /\ pc' = "over" /\ UNCHANGED <<played, broken>> /\ NotPublishing
Finish == pc = "finishing" /\ Close(TRUE) /\ Fine
Fail == pc \in {"capture", "seat", "finishing"} /\ Mishap /\ Close(FALSE)
Kill ==
  /\ pc \in {"capture", "seat", "finishing"} /\ Mishap /\ pc' = "over"
  /\ UNCHANGED <<log, played, summary, broken>> /\ NotPublishing

\* A recorder at fault: a record that names another turn or seat, is not
\* what a capture should be, is written late, or is missing.
Mangled(i) ==
  {[log EXCEPT ![i].turn = t] : t \in 1..Rounds} \cup {[log EXCEPT ![i].seat = s] : s \in {-1, 0, 1}}
    \cup {[log EXCEPT ![i].ok = FALSE], RemoveAt(log, i)}
    \cup {[log EXCEPT ![i] = [log[j] EXCEPT !.seq = i], ![j] = [log[i] EXCEPT !.seq = j]] :
            j \in {i + 1} \cap DOMAIN log}
Mangle ==
  /\ pc = "over" /\ \A i \in Invocations : inv[i].pc = "idle"
  /\ Mishap /\ \E i \in Tagged([j \in DOMAIN log |-> [tag |-> log[j].kind]], "world") \cup
                        Tagged([j \in DOMAIN log |-> [tag |-> log[j].kind]], "row") : log' \in Mangled(i)
  /\ UNCHANGED <<pc, played, summary, broken>> /\ NotPublishing

-----------------------------------------------------------------------------
(* The audit. *)
Kind(k) == {i \in DOMAIN log : log[i].kind = k}
InOrder(k) == SelectSeq([i \in DOMAIN log |-> i], LAMBDA i : log[i].kind = k)
Place(i) == [seat |-> log[i].seat, turn |-> log[i].turn]
Contiguous == \A i \in DOMAIN log : log[i].seq = i
Expected(rounds) ==
  [n \in 1..(2 * rounds) |-> [seat |-> (n - 1) % 2, turn |-> summary.rows[1].turn + (n - 1) \div 2]]

\* validate, of a run that was asked for as many rounds as it is audited for.
Valid(rounds) ==
  /\ Contiguous /\ summary # NoSummary
  /\ Kind("start") = {1} /\ Kind("end") = {Len(log)} /\ Kind("complete") # {}
  /\ summary.clean /\ summary.violations = 0 /\ Kind("violation") = {}
  /\ rounds = Rounds /\ Len(summary.rows) = 2 * rounds
  /\ summary.rows = Expected(rounds)
  /\ [n \in DOMAIN InOrder("row") |-> Place(InOrder("row")[n])] = summary.rows

\* world_envelope_reasons, but for the order of the turns.
EnvelopeHolds(i) == log[i].ok

\* The completed-seat row a capture follows, 0 if none.
RowBefore(i) == Cardinality({r \in Kind("row") : r < i})

\* bind_capture_reasons: the row a capture follows is its own, and backs no other.
Binds(i, bound) ==
  IF log[i].seat = -1 THEN RowBefore(i) = 0
  ELSE RowBefore(i) \notin bound \cup {0} /\ Place(InOrder("row")[RowBefore(i)]) = Place(i)

\* The captures that count, one after the other.
Take(so, i) ==
  IF EnvelopeHolds(i) /\ log[i].turn >= so.turn /\ Binds(i, so.bound)
  THEN [so EXCEPT !.counted = Append(@, log[i].seat), !.turn = log[i].turn,
                  !.bound = @ \cup (IF log[i].seat = -1 THEN {} ELSE {RowBefore(i)})]
  ELSE [so EXCEPT !.rejected = TRUE]
Census ==
  FoldLeft(Take, [counted |-> <<>>, turn |-> 0, bound |-> {}, rejected |-> FALSE], InOrder("world"))

Contract(rounds) == <<-1>> \o [n \in 1..(2 * rounds) |-> (n - 1) % 2]

\* stage_audit.
Audited(rounds) ==
  /\ Valid(rounds) /\ ~Census.rejected /\ Kind("world_failed") = {}
  /\ Census.counted = Contract(rounds)

\* stage_viewer: the run is shown as completed and without a warning.
Viewed == Contiguous /\ Kind("start") = {1} /\ Kind("end") = {Len(log)} /\ summary.clean

\* stage_export: what export refuses.
Exportable == Contiguous /\ summary # NoSummary /\ Kind("start") # {}

-----------------------------------------------------------------------------
(* The publication.  A path is a tuple of names. *)
Sibling(path) == Append(path, "manifest")
Outputs(o) == <<o.export, Sibling(o.export), o.report, o.json>>
InRunDir(path) == path[1] = "run"

\* guard_outputs: no output in the run directory or on the matrix that is
\* hashed into the verdict, and no two on one file.
Guarded(o) ==
  /\ \A k \in 1..4 : ~InRunDir(Outputs(o)[k]) /\ Outputs(o)[k] # o.matrix
  /\ Cardinality({Outputs(o)[k] : k \in 1..4}) = 4

Idle == [pc |-> "idle", opt |-> CHOOSE o \in Options : TRUE, verdict |-> "FAIL", todo |-> <<>>]
Set(i, fields) == inv' = [inv EXCEPT ![i] = fields]
SameRun == UNCHANGED runVars

\* main, up to the staging area, which holds every artifact before any is
\* published. The samples or their manifest may fail to be written (n of them
\* are), and are then left out. A run without a summary is refused.
Stage(i, o, n) ==
  /\ pc = "over" /\ inv[i].pc = "idle"
  /\ LET samples == IF Exportable THEN SubSeq(<<o.export, Sibling(o.export)>>, 1, n) ELSE <<>>
         passes == Len(samples) = 2 /\ Audited(o.rounds) /\ Viewed
     IN Set(i, IF summary = NoSummary \/ ~Guarded(o) THEN [Idle EXCEPT !.pc = "refused"]
               ELSE [pc |-> "staged", opt |-> o, verdict |-> IF passes THEN "PASS" ELSE "FAIL",
                     todo |-> samples \o <<o.report, o.json>>])
  /\ IF n = 2 THEN Fine ELSE Mishap
  /\ SameRun /\ UNCHANGED <<disk, lock>>

\* _publication_lock: the loser is refused.
Lock(i) ==
  /\ inv[i].pc = "staged"
  /\ IF lock[inv[i].opt.json] = 0
     THEN lock' = [lock EXCEPT ![inv[i].opt.json] = i] /\ Set(i, [inv[i] EXCEPT !.pc = "locked"])
     ELSE UNCHANGED lock /\ Set(i, [inv[i] EXCEPT !.pc = "refused"])
  /\ SameRun /\ UNCHANGED disk /\ Fine

Removed_Kept(path) == disk
Removed(path) == [disk EXCEPT ![path] = 0]

\* publish: each document that states a verdict is removed before anything is
\* replaced, the verdict's own first; then the members take their places in order.
Unlink(i, at, path, then) ==
  /\ inv[i].pc = at
  /\ disk' = Removed(path) /\ Set(i, [inv[i] EXCEPT !.pc = then])
  /\ SameRun /\ UNCHANGED lock /\ Fine
Invalidate(i) ==
  \/ Unlink(i, "locked", inv[i].opt.json, "unreported")
  \/ Unlink(i, "unreported", inv[i].opt.report, "committing")
Commit(i) ==
  /\ inv[i].pc = "committing" /\ inv[i].todo # <<>>
  /\ disk' = [disk EXCEPT ![Head(inv[i].todo)] = i]
  /\ Set(i, [inv[i] EXCEPT !.todo = Tail(@)])
  /\ SameRun /\ UNCHANGED lock /\ Fine

Unlocked(i) == lock' = [lock EXCEPT ![inv[i].opt.json] = 0]
Publishing(i) == inv[i].pc \in {"locked", "unreported", "committing"}
Published(i) ==
  /\ inv[i].pc = "committing" /\ inv[i].todo = <<>>
  /\ Unlocked(i) /\ Set(i, [inv[i] EXCEPT !.pc = "done"])
  /\ SameRun /\ UNCHANGED disk /\ Fine

\* A file cannot be removed or replaced; or the process is killed, and leaves
\* its lock file.
Interrupted(i) ==
  /\ Publishing(i) /\ Mishap /\ SameRun /\ UNCHANGED disk
  /\ \/ Unlocked(i) /\ Set(i, [inv[i] EXCEPT !.pc = "failed"])
     \/ UNCHANGED lock /\ Set(i, [inv[i] EXCEPT !.pc = "dead"])

\* The operator removes the lock file of a process that is no more.
RemoveStaleLock(p) ==
  /\ lock[p] # 0 /\ inv[lock[p]].pc = "dead"
  /\ lock' = [lock EXCEPT ![p] = 0]
  /\ SameRun /\ UNCHANGED <<inv, disk, mishaps>>

-----------------------------------------------------------------------------
Paths == UNION {{Outputs(o)[k] : k \in 1..4} \cup {o.matrix} : o \in Options}

Init ==
  /\ pc = "setup" /\ log = <<>> /\ played = <<>> /\ summary = NoSummary /\ broken = 0
  /\ inv = [i \in Invocations |-> Idle] /\ disk = [p \in Paths |-> 0] /\ lock = disk
  /\ mishaps = 0

Next ==
  \/ Setup \/ Capture \/ SeatTurn \/ Finish \/ Fail \/ Kill \/ Mangle
  \/ \E i \in Invocations :
       \/ \E o \in Options, n \in 0..2 : Stage(i, o, n)
       \/ Lock(i) \/ Invalidate(i) \/ Commit(i) \/ Published(i) \/ Interrupted(i)
  \/ \E p \in Paths : RemoveStaleLock(p)

Spec == Init /\ [][Next]_vars

-----------------------------------------------------------------------------
Passed(i) == inv[i].verdict = "PASS"

\* A run that qualifies was played to its end without a violation, and the
\* turn of every seat in it has one capture in the log, of the whole map, after
\* that turn and before the next: none failed, is missing, is used for
\* two turns or belongs to another.  (A roster that was cut short is not noticed.)
QualifiedRunsAreWhole ==
  \A i \in Invocations : Passed(i) =>
    /\ Done /\ broken = 0
    /\ \A n \in DOMAIN played :
         \E w \in Kind("world") :
           /\ Place(w) = played[n] /\ log[w].ok /\ log[w].tiles = Land
           /\ {v \in Kind("world") : RowBefore(v) = n} = {w}

\* Where a verdict document says PASS, its report, its samples and their
\* manifest are those of the same invocation, whichever invocations overlap,
\* die or fail on the way; and nothing is written to the run directory or to the
\* matrix that the verdict names.
VerdictNamesItsArtifacts ==
  /\ \A i \in Invocations :
       Passed(i) /\ disk[inv[i].opt.json] = i =>
         /\ \A k \in 1..4 : disk[Outputs(inv[i].opt)[k]] = i
         /\ disk[inv[i].opt.matrix] = 0
  /\ \A p \in Paths : InRunDir(p) => disk[p] = 0
=============================================================================
