---------------------------- MODULE SpendLedger ----------------------------
(***************************************************************************)
(* The durable spend ledger of src/src/civ_arena/arena/spend.py, with the  *)
(* request counter of the LLM client that writes it (agents/llm/client.py) *)
(* and the restoration of that counter by a resume (arena/coordinator.py). *)
(*                                                                         *)
(* A counted attempt is one line for the seat, made durable before the     *)
(* request goes out.  The file is only ever appended to.                   *)
(***************************************************************************)
EXTENDS JsonLines, FiniteSets

CONSTANTS
  Player,     \* the seats that a model plays
  Budget,     \* max_requests_per_match
  MaxCrashes  \* bound: how often the process dies

VARIABLES
  file,   \* spend.jsonl
  up,     \* the process is running
  posts,  \* posts_sent of each seat's client
  saved,  \* llm_posts of the checkpoint a resume would load
  exists, \* there is such a checkpoint
  sent,   \* history: requests that went out
  tears,  \* history: kills inside a ledger line
  crashes

vars == <<file, up, posts, saved, exists, sent, tears, crashes>>

None == [p \in Player |-> 0]

-----------------------------------------------------------------------------
(* counts: lines that do not decode are skipped, wherever they are. *)
Counts(f, p) == Cardinality({i \in DOMAIN Lines(f) : Lines(f)[i] = p})

\* _budget_check
Exhausted(p) == posts[p] >= Budget

Largest(S) == CHOOSE n \in S : \A m \in S : m <= n

\* Mutant: the ledger is left out of the restoration.
Restored_CheckpointOnly(p) == saved[p]

\* _resume_from: the largest of what the fresh client, the checkpoint and
\* the ledger say.
Restored(p) == Largest({0, saved[p], Counts(file, p)})

-----------------------------------------------------------------------------
Init ==
  /\ file = EmptyFile /\ up = TRUE
  /\ posts = None /\ saved = None /\ sent = None
  /\ exists = FALSE /\ tears = 0 /\ crashes = 0

\* One attempt, retries included: count it, note it, send it.
Attempt(p) ==
  /\ up /\ ~Exhausted(p)
  /\ posts' = [posts EXCEPT ![p] = @ + 1]
  /\ file' = AppendLine(file, p)
  /\ sent' = [sent EXCEPT ![p] = @ + 1]
  /\ UNCHANGED <<up, saved, exists, tears, crashes>>

\* The turn-boundary checkpoint.
Save ==
  /\ up
  /\ saved' = posts /\ exists' = TRUE
  /\ UNCHANGED <<file, up, posts, sent, tears, crashes>>

Dies ==
  /\ up /\ crashes < MaxCrashes
  /\ up' = FALSE /\ posts' = None /\ crashes' = crashes + 1
  /\ UNCHANGED <<saved, exists, sent>>

\* The process dies between two attempts.
Crash == Dies /\ UNCHANGED <<file, tears>>

\* It dies between the ledger line and the request.
CrashBeforePost(p) ==
  /\ ~Exhausted(p)
  /\ Dies
  /\ file' = AppendLine(file, p)
  /\ UNCHANGED tears

\* It dies inside the ledger line.
CrashInNote(p, cut) ==
  /\ ~Exhausted(p)
  /\ Dies
  /\ file' = CutLine(file, p, cut)
  /\ tears' = tears + 1

\* match.py refuses to resume without a checkpoint.
Resume ==
  /\ ~up /\ exists
  /\ up' = TRUE
  /\ posts' = [p \in Player |-> Restored(p)]
  /\ UNCHANGED <<file, saved, exists, sent, tears, crashes>>

Next ==
  \/ \E p \in Player :
       Attempt(p) \/ CrashBeforePost(p) \/ \E cut \in Cuts : CrashInNote(p, cut)
  \/ Save \/ Crash \/ Resume

Spec == Init /\ [][Next]_vars

-----------------------------------------------------------------------------
(* Properties *)

(* A resumed counter forgets at most one request per kill inside a ledger    *)
(* line, and none otherwise: not those after the checkpoint, not those whose *)
(* answer never came.                                                        *)
ForgetsOnePerTear == up => \A p \in Player : sent[p] <= posts[p] + tears
=============================================================================
