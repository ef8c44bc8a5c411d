----------------------------- MODULE TunerLink -----------------------------
(***************************************************************************)
(* One connection to the game: game/civ6/vendor/connection.py, the proxy   *)
(* of read_correlation.py over it, and the receipts of human_handoff.py,   *)
(* which use the same connection without the proxy.                        *)
(*                                                                         *)
(* The game runs the scripts it is sent in order and prints rows; the rows *)
(* arrive in order but as late as they please.  A command collects rows    *)
(* until a sentinel, two seconds of silence or its deadline, so the rows   *)
(* of a command that gave up are found by a later one.                     *)
(***************************************************************************)
EXTENDS Naturals, Sequences, FiniteSets, SequencesExt

CONSTANTS
  Attempts,   \* _ATTEMPTS, and _VERIFY_ATTEMPTS of the handoff
  MaxCalls,   \* bound: commands
  MaxRows,    \* bound: rows of data a script prints
  MaxBreaks   \* bound: how often the socket dies or a caller cancels

\* "read" has a marker, "plain" no sentinel to put one before; "verify" and
\* "once" are the handoff's observation and its mutating operations.
Kind     == {"read", "plain", "verify", "once"}
Receipts == {"verify", "once"}

VARIABLES
  pc,       \* idle, ready (to drain and send), collect, settle, closed
  cmd,      \* the command under way: [id, kind, attempt, token, again]
  lines,    \* the rows it has collected
  inbox,    \* scripts sent and not yet run: [id, token, kind]
  wire,     \* rows printed and not yet read: [token, what, n]
  answer,   \* what the last command returned: [id, kind, status, token, rows]
  tokens,   \* tokens given out
  runs,     \* history: how often each command's script was run
  breaks

vars == <<pc, cmd, lines, inbox, wire, answer, tokens, runs, breaks>>

Row(t, what, n) == [token |-> t, what |-> what, n |-> n]
Data(t, n) == [i \in 1..n |-> Row(t, "row", i)]

-----------------------------------------------------------------------------
(* What a script prints: its marker, which goes first, rows with perhaps a *)
(* sentinel of the mod's own among them, and the sentinel; or an error.    *)
Marker(s) == IF s.kind = "read" THEN <<Row(s.token, "mark", 0)>> ELSE <<>>
End(t) == <<Row(t, "end", 0)>>

Prints(s, n, k) ==
  Marker(s) \o Data(s.token, k) \o (IF k < n THEN End(s.token) ELSE <<>>) \o
  [i \in 1..(n - k) |-> Row(s.token, "row", k + i)]

Printed(s) ==
  IF s.kind \in Receipts
  THEN {<<Row(s.token, "row", 1)>> \o End(s.token), <<Row(s.token, "err", 0)>>}
  ELSE {Prints(s, n, k) \o End(s.token) : n \in 0..MaxRows, k \in 0..MaxRows}
         \cup {Prints(s, n, n) \o <<Row(s.token, "err", 0)>> : n \in 0..MaxRows}

\* The game runs the oldest script; one that fails has changed nothing when
\* it is the handoff's, whose assertions all come before its first change.
RunScript ==
  /\ inbox # <<>>
  /\ \E rows \in Printed(Head(inbox)) :
       /\ wire' = wire \o rows
       /\ runs' = IF Last(rows).what = "err" /\ Head(inbox).kind \in Receipts
                  THEN runs ELSE [runs EXCEPT ![Head(inbox).id] = @ + 1]
  /\ inbox' = Tail(inbox)
  /\ UNCHANGED <<pc, cmd, lines, answer, tokens, breaks>>

-----------------------------------------------------------------------------
(* Rows after my marker; rows before it belong to a late answer. *)
IsMine(row)       == row.what = "mark" /\ row.token = cmd.token
HasMarker(rows)   == \E i \in DOMAIN rows : IsMine(rows[i])
AfterMarker_Everything(rows) == rows  \* mutant
AfterMarker(rows) ==
  LET i == SelectInSeq(rows, IsMine) IN SubSeq(rows, i + 1, Len(rows))

AllAttempts == IF cmd.kind \in {"read", "verify"} THEN Attempts ELSE 1

\* Any number of the rows on the wire may have arrived in time to be drained.
Drain(k) == wire' = SubSeq(wire, k + 1, Len(wire))

Return(status, rows) ==
  /\ answer' = [id |-> cmd.id, kind |-> cmd.kind, status |-> status,
                token |-> cmd.token, rows |-> rows]
  /\ pc' = IF status = "ok" \/ cmd.kind \notin Receipts THEN "idle" ELSE "closed"

Retry ==
  /\ cmd' = [cmd EXCEPT !.attempt = @ + 1, !.token = tokens + 1, !.again = FALSE]
  /\ tokens' = tokens + 1
  /\ pc' = "ready"
  /\ UNCHANGED answer

-----------------------------------------------------------------------------
Begin(kind) ==
  /\ pc = "idle" /\ cmd.id < MaxCalls
  /\ cmd' = [id |-> cmd.id + 1, kind |-> kind, attempt |-> 1,
             token |-> tokens + 1, again |-> FALSE]
  /\ tokens' = tokens + 1
  /\ pc' = "ready"
  /\ UNCHANGED <<lines, inbox, wire, answer, runs, breaks>>

\* _locked_execute: drain what is stale, then send.
Send ==
  /\ pc = "ready"
  /\ \E k \in 0..Len(wire) : Drain(k)
  /\ inbox' = Append(inbox, [id |-> cmd.id, token |-> cmd.token, kind |-> cmd.kind])
  /\ lines' = <<>>
  /\ pc' = "collect"
  /\ UNCHANGED <<cmd, answer, tokens, runs, breaks>>

Collect ==
  /\ pc = "collect" /\ wire # <<>>
  /\ wire' = Tail(wire)
  /\ LET row == Head(wire) IN
       \/ /\ row.what = "err"
          /\ Return("LuaError", <<>>)
          /\ UNCHANGED lines
       \/ /\ row.what = "end"
          /\ pc' = "settle"
          /\ UNCHANGED <<lines, answer>>
       \/ /\ row.what \in {"mark", "row"}
          /\ lines' = Append(lines, row)
          /\ UNCHANGED <<pc, answer>>
  /\ UNCHANGED <<cmd, inbox, tokens, runs, breaks>>

\* Two seconds of silence, or the deadline of the command.
GiveUp ==
  /\ pc = "collect"
  /\ pc' = "settle"
  /\ UNCHANGED <<cmd, lines, inbox, wire, answer, tokens, runs, breaks>>

\* A command without a marker is answered with whatever was collected.
SettlePlain ==
  /\ cmd.kind = "plain"
  /\ Return("ok", lines)
  /\ UNCHANGED <<cmd, tokens>>

SettleRead ==
  /\ cmd.kind = "read"
  /\ \/ /\ HasMarker(lines)
        /\ Return("ok", AfterMarker(lines))
        /\ UNCHANGED <<cmd, tokens>>
     \/ /\ ~HasMarker(lines)
        /\ cmd.attempt < AllAttempts
        /\ Retry
     \/ /\ ~HasMarker(lines)
        /\ cmd.attempt = AllAttempts
        /\ Return("ok", <<>>)
        /\ UNCHANGED <<cmd, tokens>>

\* _rpc: the exact receipt, or silence to an observation, or the end.
SettleReceipt ==
  /\ cmd.kind \in Receipts
  /\ \/ /\ lines = Data(cmd.token, 1)
        /\ Return("ok", lines)
        /\ UNCHANGED <<cmd, tokens>>
     \/ /\ lines = <<>>
        /\ cmd.attempt < AllAttempts
        /\ Retry
     \/ /\ lines # Data(cmd.token, 1)
        /\ lines # <<>> \/ cmd.attempt >= AllAttempts
        /\ Return("missing or mismatched", <<>>)
        /\ UNCHANGED <<cmd, tokens>>

Settle ==
  /\ pc = "settle"
  /\ \E k \in 0..Len(wire) : Drain(k)
  /\ SettlePlain \/ SettleRead \/ SettleReceipt
  /\ UNCHANGED <<lines, inbox, runs, breaks>>

-----------------------------------------------------------------------------
(* The socket dies: its rows are gone, the scripts the game has received   *)
(* still run.  A command is sent again once, on a new connection, with the *)
(* same text; the handoff takes no second connection.                      *)
RunsWith(m) ==
  [i \in DOMAIN runs |-> runs[i] + Cardinality({k \in 1..m : inbox[k].id = i})]

SendsAgain == ~cmd.again /\ cmd.kind \notin Receipts

SocketDies ==
  /\ pc \in {"ready", "collect", "settle"} /\ breaks < MaxBreaks
  /\ breaks' = breaks + 1
  /\ wire' = <<>> /\ inbox' = <<>> /\ lines' = <<>>
  /\ \E m \in 0..Len(inbox) : runs' = RunsWith(m)
  /\ \/ /\ SendsAgain
        /\ cmd' = [cmd EXCEPT !.again = TRUE]
        /\ pc' = "ready"
        /\ UNCHANGED answer
     \/ /\ ~SendsAgain
        /\ Return("ConnectionError", <<>>)
        /\ UNCHANGED cmd
  /\ UNCHANGED tokens

\* The caller's own timeout ends the command; what it sent stays sent.
Cancel ==
  /\ pc \in {"ready", "collect", "settle"} /\ breaks < MaxBreaks
  /\ breaks' = breaks + 1
  /\ Return("cancelled", <<>>)
  /\ UNCHANGED <<cmd, lines, inbox, wire, tokens, runs>>

-----------------------------------------------------------------------------
Init ==
  /\ pc = "idle"
  /\ cmd = [id |-> 0, kind |-> "plain", attempt |-> 1, token |-> 0, again |-> FALSE]
  /\ lines = <<>> /\ inbox = <<>> /\ wire = <<>>
  /\ answer = [id |-> 0, kind |-> "plain", status |-> "none", token |-> 0, rows |-> <<>>]
  /\ tokens = 0
  /\ runs = [i \in 1..MaxCalls |-> 0]
  /\ breaks = 0

Client == \/ Send \/ Collect \/ GiveUp \/ Settle
Next ==
  \/ \E kind \in Kind : Begin(kind)
  \/ Client
  \/ RunScript
  \/ SocketDies
  \/ Cancel

Spec == Init /\ [][Next]_vars

-----------------------------------------------------------------------------
\* Whatever a command with a marker or a receipt is answered, however late
\* the rows of the commands before it arrive, it is the beginning of what its
\* own last attempt printed, with nothing missing before or between: the rows
\* of another command never pass for its answer (extract_correlated, _rpc).
OwnRowsOnly ==
  answer.kind # "plain" => answer.rows = Data(answer.token, Len(answer.rows))

\* A mutating operation of the handoff reaches the game at most once, and one
\* that is reported as observed exactly once: neither a reconnect nor a
\* retry repeats it (_rpc, "exactly one dispatch").
OnceIsOnce ==
  /\ cmd.kind = "once" => runs[cmd.id] <= 1
  /\ answer.kind = "once" /\ answer.status = "ok" => runs[answer.id] = 1

=============================================================================
