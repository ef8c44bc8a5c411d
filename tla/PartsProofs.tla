----------------------------- MODULE PartsProofs -----------------------------
(***************************************************************************)
(* What is proved of the components that MCParts runs side by side: the    *)
(* spend ledger, the connection to the game, the two seats of a hotseat,   *)
(* the production orders and the loop of diff.  Each has an invariant of   *)
(* its own; a step of another component leaves its variables alone.        *)
(***************************************************************************)
EXTENDS MCParts, FiniteSetTheorems, SequenceTheorems, WellFoundedInduction, TLAPS

-----------------------------------------------------------------------------
(* The spend ledger. *)

Marked(s, p) == {i \in DOMAIN s : s[i] = p}
Lined(s, p) == Cardinality(Marked(s, p))
SpendText == Player \cup {Junk, Empty}

(* Of a sequence that is one element longer, one more position may hold p. *)
LEMMA MarkedGrows ==
  ASSUME NEW s \in Seq(SpendText), NEW x \in SpendText, NEW p
  PROVE  /\ IsFiniteSet(Marked(s, p)) /\ Lined(s, p) \in Nat
         /\ Lined(Append(s, x), p) = Lined(s, p) + (IF x = p THEN 1 ELSE 0)
<1> DEFINE n == Len(s)
           a == Append(s, x)
<1>1. n \in Nat /\ Marked(s, p) \subseteq 1 .. n
  BY DEF Marked
<1>2. IsFiniteSet(Marked(s, p)) /\ Lined(s, p) \in Nat
  <2>1. IsFiniteSet(1 .. n)
    BY <1>1, FS_Interval
  <2> QED BY <1>1, <2>1, FS_Subset, FS_CardinalityType DEF Lined
<1>3. CASE x = p
  <2>1. Marked(a, p) = Marked(s, p) \cup {n + 1}
    BY <1>3 DEF Marked
  <2>2. n + 1 \notin Marked(s, p)
    BY <1>1
  <2> QED BY <1>2, <1>3, <2>1, <2>2, FS_AddElement DEF Lined
<1>4. CASE x # p
  <2>1. Marked(a, p) = Marked(s, p)
    BY <1>4 DEF Marked
  <2> QED BY <1>2, <1>4, <2>1 DEF Lined
<1> QED BY <1>2, <1>3, <1>4

(* What is left of the file by a torn write is owed one request, by the seat *)
(* whose text it is even two: the next line makes both of them unreadable.   *)
Owed(p) == IF spendFile.tail = Empty THEN 0 ELSE IF spendFile.tail = p THEN 2 ELSE 1

SpendInv ==
  /\ spendFile \in [lines : Seq(SpendText), tail : SpendText]
  /\ posts \in [Player -> Nat] /\ spendSaved \in [Player -> Nat]
  /\ sent \in [Player -> Nat] /\ tears \in Nat
  /\ \A p \in Player : sent[p] + Owed(p) <= Spend!Counts(spendFile, p) + tears
  /\ ForgetsOnePerTear

(* What the ledger's file counts for a seat is what its lines count, and one more if *)
(* the torn tail is a whole request of the seat's (SpendLedger.Counts).              *)
LEMMA CountsOfFile ==
  ASSUME spendFile \in [lines : Seq(SpendText), tail : SpendText], NEW p
  PROVE  /\ Lined(spendFile.lines, p) \in Nat
         /\ Spend!Counts(spendFile, p) =
              Lined(spendFile.lines, p) +
                (IF spendFile.tail # Empty /\ spendFile.tail = p THEN 1 ELSE 0)
<1>1. spendFile.lines \in Seq(SpendText) /\ spendFile.tail \in SpendText
  OBVIOUS
<1>2. Spend!Counts(spendFile, p) = Lined(Spend!Lines(spendFile), p)
  BY DEF Spend!Counts, Lined, Marked, Spend!Cardinality, Cardinality
<1> QED BY <1>1, <1>2, MarkedGrows DEF Spend!Lines

(* An empty ledger owes nothing. *)
LEMMA SpendStarts == MCInit => SpendInv
<1> SUFFICES ASSUME MCInit PROVE SpendInv
  OBVIOUS
<1>1. Spend!Init
  BY DEF MCInit
<1>2. /\ spendFile = [lines |-> <<>>, tail |-> Empty] /\ up = TRUE /\ tears = 0
      /\ posts = [p \in Player |-> 0] /\ spendSaved = [p \in Player |-> 0]
      /\ sent = [p \in Player |-> 0]
  BY <1>1 DEF Spend!Init, Spend!None, Spend!EmptyFile
<1>3. spendFile \in [lines : Seq(SpendText), tail : SpendText]
  BY <1>2 DEF SpendText
<1>4. \A p \in Player : sent[p] + Owed(p) <= Spend!Counts(spendFile, p) + tears
  BY <1>2, <1>3, CountsOfFile DEF Owed
<1> QED BY <1>2, <1>3, <1>4 DEF SpendInv, ForgetsOnePerTear, Spend!ForgetsOnePerTear

(* A line that is written whole counts one more of its seat, unless it runs   *)
(* into what a torn write left; a torn one leaves what it owes.               *)
LEMMA SpendLine ==
  ASSUME spendFile \in [lines : Seq(SpendText), tail : SpendText], NEW q \in Player,
         spendFile' = Spend!AppendLine(spendFile, q), NEW p \in Player
  PROVE  /\ spendFile' \in [lines : Seq(SpendText), tail : SpendText]
         /\ Owed(p)' = 0
         /\ Spend!Counts(spendFile', p) \in Nat /\ Spend!Counts(spendFile, p) \in Nat
         /\ Spend!Counts(spendFile', p) + Owed(p)
              >= Spend!Counts(spendFile, p) + (IF p = q THEN 1 ELSE 0)
<1> DEFINE rec == Spend!Joined(spendFile.tail, q)
<1>1. rec \in SpendText /\ rec = (IF spendFile.tail = Empty THEN q ELSE Junk)
  BY DEF Spend!Joined, SpendText
<1>2. spendFile' = [lines |-> Append(spendFile.lines, rec), tail |-> Empty]
  BY DEF Spend!AppendLine
<1>3. /\ spendFile.lines \in Seq(SpendText) /\ spendFile.tail \in SpendText
      /\ Append(spendFile.lines, rec) \in Seq(SpendText)
  BY <1>1
<1>4. spendFile' \in [lines : Seq(SpendText), tail : SpendText]
  BY <1>2, <1>3 DEF SpendText
<1>5. Spend!Counts(spendFile', p) = Lined(spendFile.lines, p) + (IF rec = p THEN 1 ELSE 0)
  <2>1. Spend!Lines(spendFile') = Append(spendFile.lines, rec)
    BY <1>2 DEF Spend!Lines
  <2>2. Spend!Counts(spendFile', p) = Lined(Append(spendFile.lines, rec), p)
    BY <2>1 DEF Spend!Counts, Lined, Marked, Spend!Cardinality, Cardinality
  <2> QED BY <1>1, <1>3, <2>2, MarkedGrows
<1>6. /\ Lined(spendFile.lines, p) \in Nat
      /\ Spend!Counts(spendFile, p) =
           Lined(spendFile.lines, p) +
             (IF spendFile.tail # Empty /\ spendFile.tail = p THEN 1 ELSE 0)
  BY CountsOfFile
<1> HIDE DEF rec
<1> QED BY <1>1, <1>2, <1>4, <1>5, <1>6 DEF Owed

(* A line that is torn adds one tear, and what it leaves is owed no more than that. *)
LEMMA SpendTear ==
  ASSUME spendFile \in [lines : Seq(SpendText), tail : SpendText], NEW q \in Player,
         NEW cut, spendFile' = Spend!CutLine(spendFile, q, cut), NEW p \in Player
  PROVE  /\ spendFile' \in [lines : Seq(SpendText), tail : SpendText]
         /\ Spend!Counts(spendFile', p) \in Nat /\ Spend!Counts(spendFile, p) \in Nat
         /\ Owed(p) \in Nat /\ Owed(p)' \in Nat
         /\ Spend!Counts(spendFile', p) + 1 + Owed(p) >= Spend!Counts(spendFile, p) + Owed(p)'
<1> DEFINE tail == IF cut = "text" THEN Spend!Joined(spendFile.tail, q) ELSE Junk
<1>1. /\ tail \in SpendText
      /\ tail = Junk \/ (tail = q /\ spendFile.tail = Empty)
  BY DEF Spend!Joined, SpendText
<1>2. /\ spendFile' = [lines |-> spendFile.lines, tail |-> tail]
      /\ spendFile' = [spendFile EXCEPT !.tail = tail]
  BY DEF Spend!CutLine
<1> HIDE DEF tail
<1>3. spendFile.lines \in Seq(SpendText) /\ spendFile.tail \in SpendText
  OBVIOUS
<1>4. spendFile' \in [lines : Seq(SpendText), tail : SpendText]
  BY <1>1, <1>2, <1>3
<1>5. /\ Lined(spendFile.lines, p) \in Nat
      /\ Spend!Counts(spendFile, p) =
           Lined(spendFile.lines, p) +
             (IF spendFile.tail # Empty /\ spendFile.tail = p THEN 1 ELSE 0)
  BY CountsOfFile
<1>6. Spend!Counts(spendFile', p) =
        Lined(spendFile.lines, p) + (IF tail # Empty /\ tail = p THEN 1 ELSE 0)
  <2>1. Spend!Lines(spendFile') =
          IF tail = Empty THEN spendFile.lines ELSE Append(spendFile.lines, tail)
    BY <1>2 DEF Spend!Lines
  <2>2. Spend!Counts(spendFile', p) = Lined(Spend!Lines(spendFile'), p)
    BY DEF Spend!Counts, Lined, Marked, Spend!Cardinality, Cardinality
  <2> QED BY <1>1, <1>3, <2>1, <2>2, MarkedGrows
<1> QED BY <1>1, <1>2, <1>4, <1>5, <1>6 DEF Owed

(* Posting, saving, a crash between the two and a resume keep what is owed in bounds. *)
LEMMA SpendSteps == SpendInv /\ [Spend!Next]_(Spend!vars) => SpendInv'
<1> SUFFICES ASSUME SpendInv, [Spend!Next]_(Spend!vars) PROVE SpendInv'
  OBVIOUS
<1> USE DEF SpendInv
<1>file. spendFile \in [lines : Seq(SpendText), tail : SpendText]
  OBVIOUS
<1>counts. \A p \in Player : Spend!Counts(spendFile, p) \in Nat /\ Owed(p) \in Nat
  <2>1. ASSUME NEW p PROVE Spend!Counts(spendFile, p) \in Nat
    <3> HIDE DEF SpendInv
    <3> QED BY <1>file, CountsOfFile
  <2> QED BY <2>1 DEF Owed
<1>sent. \A p \in Player : /\ sent[p] \in Nat /\ posts[p] \in Nat /\ spendSaved[p] \in Nat
                           /\ tears \in Nat
                           /\ sent[p] + Owed(p) <= Spend!Counts(spendFile, p) + tears
  OBVIOUS
<1>same. ASSUME UNCHANGED spendFile, sent' = sent, tears' = tears
         PROVE  \A p \in Player : sent'[p] + Owed(p)' <= Spend!Counts(spendFile', p) + tears'
  <2>1. \A p : Owed(p)' = Owed(p) /\ Spend!Counts(spendFile', p) = Spend!Counts(spendFile, p)
    BY <1>same DEF Owed, Spend!Counts, Spend!Lines
  <2> QED BY <2>1, <1>same
<1>1. ASSUME NEW q \in Player, Spend!Attempt(q) PROVE SpendInv'
  <2>1. /\ up /\ up' = up /\ tears' = tears /\ spendSaved' = spendSaved
        /\ posts' = [posts EXCEPT ![q] = @ + 1] /\ sent' = [sent EXCEPT ![q] = @ + 1]
        /\ spendFile' = Spend!AppendLine(spendFile, q)
    BY <1>1 DEF Spend!Attempt
  <2>2. ASSUME NEW p \in Player
        PROVE  sent'[p] + Owed(p)' <= Spend!Counts(spendFile', p) + tears'
    <3>1. /\ Owed(p)' = 0 /\ Owed(p) \in Nat
          /\ Spend!Counts(spendFile', p) \in Nat /\ Spend!Counts(spendFile, p) \in Nat
          /\ Spend!Counts(spendFile', p) + Owed(p)
               >= Spend!Counts(spendFile, p) + (IF p = q THEN 1 ELSE 0)
      BY <2>1, <1>file, <1>counts, SpendLine
    <3> QED BY <2>1, <3>1, <1>sent
  <2>3. posts' \in [Player -> Nat] /\ sent' \in [Player -> Nat]
    BY <2>1
  <2>4. spendFile' \in [lines : Seq(SpendText), tail : SpendText]
    BY <2>1, SpendLine
  <2>5. ForgetsOnePerTear'
    BY <2>1 DEF ForgetsOnePerTear, Spend!ForgetsOnePerTear
  <2> QED BY <2>1, <2>2, <2>3, <2>4, <2>5
<1>2. CASE Spend!Save
  <2>1. /\ UNCHANGED <<spendFile, up, posts, sent, tears>> /\ spendSaved' = posts
    BY <1>2 DEF Spend!Save
  <2> QED BY <2>1, <1>same DEF ForgetsOnePerTear, Spend!ForgetsOnePerTear
<1>dies. ASSUME Spend!Dies,
                spendFile' \in [lines : Seq(SpendText), tail : SpendText], tears' \in Nat,
                \A p \in Player : sent[p] + Owed(p)' <= Spend!Counts(spendFile', p) + tears'
         PROVE  SpendInv'
  BY <1>dies DEF Spend!Dies, Spend!None, ForgetsOnePerTear, Spend!ForgetsOnePerTear
<1>3. CASE Spend!Crash
  BY <1>3, <1>same, <1>dies DEF Spend!Crash, Spend!Dies
<1>4. ASSUME NEW q \in Player, Spend!CrashBeforePost(q) PROVE SpendInv'
  <2>1. Spend!Dies /\ spendFile' = Spend!AppendLine(spendFile, q) /\ tears' = tears
    BY <1>4 DEF Spend!CrashBeforePost
  <2>2. ASSUME NEW p \in Player
        PROVE  sent[p] + Owed(p)' <= Spend!Counts(spendFile', p) + tears'
    <3>1. /\ Owed(p)' = 0 /\ Owed(p) \in Nat
          /\ Spend!Counts(spendFile', p) \in Nat /\ Spend!Counts(spendFile, p) \in Nat
          /\ Spend!Counts(spendFile', p) + Owed(p)
               >= Spend!Counts(spendFile, p) + (IF p = q THEN 1 ELSE 0)
      BY <2>1, <1>file, <1>counts, SpendLine
    <3> QED BY <2>1, <3>1, <1>sent
  <2>3. spendFile' \in [lines : Seq(SpendText), tail : SpendText]
    BY <2>1, SpendLine
  <2> QED BY <2>1, <2>2, <2>3, <1>dies
<1>5. ASSUME NEW q \in Player, NEW cut, Spend!CrashInNote(q, cut) PROVE SpendInv'
  <2>1. Spend!Dies /\ spendFile' = Spend!CutLine(spendFile, q, cut) /\ tears' = tears + 1
    BY <1>5 DEF Spend!CrashInNote
  <2>2. ASSUME NEW p \in Player
        PROVE  sent[p] + Owed(p)' <= Spend!Counts(spendFile', p) + tears'
    <3>1. /\ Owed(p)' \in Nat /\ Owed(p) \in Nat
          /\ Spend!Counts(spendFile', p) \in Nat /\ Spend!Counts(spendFile, p) \in Nat
          /\ Spend!Counts(spendFile', p) + 1 + Owed(p) >= Spend!Counts(spendFile, p) + Owed(p)'
      BY <2>1, <1>file, SpendTear
    <3>2. /\ sent[p] \in Nat /\ tears \in Nat /\ tears' = tears + 1
          /\ sent[p] + Owed(p) <= Spend!Counts(spendFile, p) + tears
      BY <2>1, <1>sent
    <3> HIDE DEF SpendInv
    <3> QED BY <3>1, <3>2
  <2>3. spendFile' \in [lines : Seq(SpendText), tail : SpendText]
    BY <2>1, SpendTear
  <2> QED BY <2>1, <2>2, <2>3, <1>dies
<1>6. CASE Spend!Resume
  <2>1. /\ UNCHANGED <<spendFile, spendSaved, sent, tears>> /\ up'
        /\ posts' = [p \in Player |-> Spend!Restored(p)]
    BY <1>6 DEF Spend!Resume
  <2>2. ASSUME NEW p \in Player
        PROVE  /\ Spend!Restored(p) \in Nat
               /\ Spend!Counts(spendFile, p) <= Spend!Restored(p)
    <3>1. spendSaved[p] \in Nat /\ Spend!Counts(spendFile, p) \in Nat
      BY <1>counts
    <3>2. \E n \in {0, spendSaved[p], Spend!Counts(spendFile, p)} :
             \A m \in {0, spendSaved[p], Spend!Counts(spendFile, p)} : m <= n
      BY <3>1
    <3> QED BY <3>1, <3>2 DEF Spend!Restored, Spend!Largest
  <2>3. ASSUME NEW p \in Player PROVE sent'[p] <= posts'[p] + tears'
    BY <2>1, <2>2, <1>counts
  <2>4. posts' \in [Player -> Nat]
    BY <2>1, <2>2
  <2> QED BY <2>1, <2>3, <2>4, <1>same DEF ForgetsOnePerTear, Spend!ForgetsOnePerTear
<1>7. CASE UNCHANGED Spend!vars
  <2>1. UNCHANGED <<spendFile, up, posts, spendSaved, sent, tears>>
    BY <1>7 DEF Spend!vars
  <2> QED BY <2>1, <1>same DEF ForgetsOnePerTear, Spend!ForgetsOnePerTear
<1> QED BY <1>1, <1>2, <1>3, <1>4, <1>5, <1>6, <1>7 DEF Spend!Next

(* A step of a behaviour is one of the ledger's or leaves it alone. *)
LEMMA SpendOnly == [MCNext]_<<which, fileVars, gameVars>> => [Spend!Next]_(Spend!vars)
BY DEF MCNext, FilesNext, GameNext, fileVars, gameVars, spendVars, Spend!vars

(* SpendLedger: after any number of crashes a seat's ledger has forgotten at most one *)
(* request for every line that was torn, however often it was resumed.                *)
THEOREM SpendForgetsOnePerTear == MCSpec => []ForgetsOnePerTear
<1>1. SpendInv => ForgetsOnePerTear
  BY DEF SpendInv
<1> QED BY <1>1, SpendStarts, SpendSteps, SpendOnly, PTL DEF MCSpec

-----------------------------------------------------------------------------
(* The connection to the game. *)

WireRow == [token : Nat, what : {"mark", "row", "end", "err"}, n : Nat]
DataRow == [token : Nat, what : {"mark", "row"}, n : Nat]
Script == [id : 1 .. MaxCalls, token : Nat, kind : Link!Kind]

Mark(row, t) == row.what = "mark" /\ row.token = t
Mute(rows_, t) == \A k \in DOMAIN rows_ : rows_[k].token # t

(* Behind the marker t come the rows of its script, in order and none left    *)
(* out, up to the first end.                                                  *)
Heard(full, t) ==
  \A i \in DOMAIN full, n \in 1 .. Len(full) :
        /\ Mark(full[i], t) /\ i + n <= Len(full)
        /\ \A j \in i + 1 .. i + n : full[j].what \in {"mark", "row"}
     => full[i + n] = [token |-> t, what |-> "row", n |-> n]

LinkTypes ==
  /\ linkPc \in {"idle", "ready", "collect", "settle", "closed"}
  /\ cmd \in [id : 0 .. MaxCalls, kind : Link!Kind, attempt : Nat \ {0}, token : Nat,
              again : BOOLEAN]
  /\ lines \in Seq(DataRow) /\ wire \in Seq(WireRow) /\ inbox \in Seq(Script)
  /\ runs \in [1 .. MaxCalls -> Nat]
  /\ tokens = cmd.token
  /\ linkPc \in {"ready", "collect", "settle"} \/ cmd.kind = "once" => cmd.id # 0
  /\ answer.kind \in Link!Kind /\ answer.id \in 0 .. cmd.id
  /\ linkPc \in {"ready", "collect", "settle"} => answer.id # cmd.id

(* What is under way is of this command or an earlier one, and before the     *)
(* command is sent of an earlier attempt.                                     *)
OldNews ==
  /\ \A k \in DOMAIN inbox : inbox[k].id <= cmd.id /\ inbox[k].token <= cmd.token
  /\ \A k \in DOMAIN wire : wire[k].token <= cmd.token
  /\ linkPc = "ready" => Mute(inbox, cmd.token) /\ Mute(wire, cmd.token)
  /\ \A i \in 1 .. MaxCalls : cmd.id < i => runs[i] = 0

(* The game has run everything, or the last script it has is the command's    *)
(* and nothing of it has been heard.                                          *)
Waiting == linkPc \in {"collect", "settle"}
LastSent ==
  Waiting =>
    \/ inbox = <<>>
    \/ /\ inbox[Len(inbox)] = [id |-> cmd.id, token |-> cmd.token, kind |-> cmd.kind]
       /\ \A k \in 1 .. Len(inbox) - 1 : inbox[k].token # cmd.token
       /\ Mute(lines, cmd.token) /\ Mute(wire, cmd.token)

OwnAnswer ==
  Waiting /\ cmd.kind = "read" =>
    /\ Heard(lines, cmd.token)
    /\ linkPc = "collect" => Heard(lines \o wire, cmd.token)

SentOf(id) == {k \in DOMAIN inbox : inbox[k].id = id}
OnceSent ==
  cmd.kind = "once" =>
    /\ runs[cmd.id] <= 1
    /\ SentOf(cmd.id) # {} => runs[cmd.id] = 0
    /\ \A j, k \in SentOf(cmd.id) : j = k
    /\ linkPc = "ready" => SentOf(cmd.id) = {} /\ runs[cmd.id] = 0
    /\ Waiting =>
         /\ \A k \in DOMAIN lines :
              lines[k].token = cmd.token /\ lines[k].what = "row" => runs[cmd.id] = 1
         /\ \A k \in DOMAIN wire :
              wire[k].token = cmd.token /\ wire[k].what = "row" => runs[cmd.id] = 1

OnceAnswered ==
  answer.kind = "once" /\ answer.status = "ok" =>
    /\ answer.id \in 1 .. cmd.id /\ runs[answer.id] = 1 /\ SentOf(answer.id) = {}

LinkInv ==
  LinkTypes /\ OldNews /\ LastSent /\ OwnAnswer /\ OnceSent /\ OnceAnswered /\ Link!OwnRowsOnly

(* Nothing has been sent or heard. *)
LEMMA LinkStarts == MCInit => LinkInv
<1> SUFFICES ASSUME MCInit PROVE LinkInv
  OBVIOUS
<1>1. Link!Init
  BY DEF MCInit
<1>2. /\ linkPc = "idle" /\ lines = <<>> /\ inbox = <<>> /\ wire = <<>> /\ tokens = 0
      /\ cmd = [id |-> 0, kind |-> "plain", attempt |-> 1, token |-> 0, again |-> FALSE]
      /\ answer.kind = "plain" /\ answer.id = 0 /\ runs = [i \in 1 .. MaxCalls |-> 0]
  BY <1>1 DEF Link!Init
<1>3. LinkTypes
  BY <1>2, LinkAssumption DEF LinkTypes, Link!Kind
<1>4. OldNews
  BY <1>2, LinkAssumption DEF OldNews, Mute
<1> QED BY <1>2, <1>3, <1>4
     DEF LinkInv, LastSent, Waiting, OwnAnswer, OnceSent, OnceAnswered, Link!OwnRowsOnly

(* What a script prints. *)
Shaped(rows_, t) ==
  \E k \in Nat :
     /\ k + 2 <= Len(rows_) /\ Mark(rows_[1], t) /\ rows_[k + 2].what \in {"end", "err"}
     /\ \A j \in 1 .. k : rows_[1 + j] = [token |-> t, what |-> "row", n |-> j]
     /\ \A j \in 2 .. Len(rows_) : rows_[j].what # "mark"

(* The rows of a script are numbered from one. *)
LEMMA DataRows ==
  ASSUME NEW t \in Nat, NEW n \in Nat
  PROVE  /\ Link!Data(t, n) \in Seq(DataRow) /\ Link!Data(t, n) \in Seq(WireRow)
         /\ Len(Link!Data(t, n)) = n
         /\ \A i \in 1 .. n : Link!Data(t, n)[i] = [token |-> t, what |-> "row", n |-> i]
<1>1. Link!Data(t, n) = [i \in 1 .. n |-> [token |-> t, what |-> "row", n |-> i]]
  BY DEF Link!Data, Link!Row
<1>2. \A i \in 1 .. n : /\ [token |-> t, what |-> "row", n |-> i] \in DataRow
                        /\ [token |-> t, what |-> "row", n |-> i] \in WireRow
  BY DEF DataRow, WireRow
<1>3. /\ Link!Data(t, n) \in [1 .. n -> DataRow]
      /\ Link!Data(t, n) \in [1 .. n -> WireRow]
  BY <1>1, <1>2
<1> QED BY <1>1, <1>3

(* Where an element of two joined sequences comes from. *)
LEMMA Concatenated ==
  ASSUME NEW S, NEW a \in Seq(S), NEW b \in Seq(S)
  PROVE  /\ a \o b \in Seq(S) /\ Len(a \o b) = Len(a) + Len(b)
         /\ \A j \in 1 .. Len(a) : (a \o b)[j] = a[j]
         /\ \A j \in 1 .. Len(b) : (a \o b)[Len(a) + j] = b[j]
         /\ \A j \in DOMAIN (a \o b) :
              \/ j \in 1 .. Len(a) /\ (a \o b)[j] = a[j]
              \/ j - Len(a) \in 1 .. Len(b) /\ (a \o b)[j] = b[j - Len(a)]
OBVIOUS

(* Rows of the script t that begin with one that is not its marker. *)
Late(x, t) ==
  /\ x \in Seq(WireRow)
  /\ \A j \in DOMAIN x : x[j].token = t /\ x[j].what # "mark"

Tailed(x, t) == Late(x, t) /\ x # <<>> /\ x[1].what \in {"end", "err"}
AnswerOf(s, k, x, out) ==
  /\ s \in Script /\ k \in Nat /\ Tailed(x, s.token)
  /\ out = (Link!Marker(s) \o Link!Data(s.token, k)) \o x

(* Two runs of rows without a marker make one, that begins with the first of them. *)
LEMMA LateJoins ==
  ASSUME NEW t, NEW a, NEW b, Late(a, t), Late(b, t)
  PROVE  /\ Late(a \o b, t)
         /\ a # <<>> => a \o b # <<>> /\ (a \o b)[1] = a[1]
<1>1. a \in Seq(WireRow) /\ b \in Seq(WireRow)
  BY DEF Late
<1>2. /\ a \o b \in Seq(WireRow) /\ Len(a \o b) = Len(a) + Len(b)
      /\ \A j \in DOMAIN (a \o b) :
           \/ j \in DOMAIN a /\ (a \o b)[j] = a[j]
           \/ j - Len(a) \in DOMAIN b /\ (a \o b)[j] = b[j - Len(a)]
  BY <1>1
<1>3. a # <<>> => a \o b # <<>> /\ (a \o b)[1] = a[1]
  BY <1>1
<1> HIDE <1>1
<1> QED BY <1>2, <1>3 DEF Late

(* The rows after the first end, the end and a late error of a script are no marker. *)
LEMMA LateRows ==
  ASSUME NEW t \in Nat, NEW n \in Nat, NEW k \in Nat
  PROVE  /\ Late(<<>>, t) /\ Late(<<Link!Row(t, "err", 0)>>, t) /\ Late(Link!End(t), t)
         /\ Late(<<Link!Row(t, "row", 1)>>, t) /\ Late(Link!Data(t, n), t)
         /\ Late([i \in 1 .. (n - k) |-> Link!Row(t, "row", k + i)], t)
         /\ k >= n => [i \in 1 .. (n - k) |-> Link!Row(t, "row", k + i)] = <<>>
<1>1. \A what \in {"row", "end", "err"}, m \in Nat :
        Link!Row(t, what, m) = [token |-> t, what |-> what, n |-> m]
        /\ Link!Row(t, what, m) \in WireRow
  BY DEF Link!Row, WireRow
<1>2. ASSUME NEW row \in WireRow, row.token = t, row.what # "mark" PROVE Late(<<row>>, t)
  BY <1>2 DEF Late
<1>3. Late(<<>>, t)
  BY DEF Late
<1>4. Late(Link!Data(t, n), t)
  <2> DEFINE d == Link!Data(t, n)
  <2>1. d \in Seq(WireRow) /\ Len(d) = n
        /\ \A j \in 1 .. n : d[j] = [token |-> t, what |-> "row", n |-> j]
    BY DataRows
  <2> HIDE DEF d
  <2>2. \A j \in DOMAIN d : d[j].token = t /\ d[j].what = "row"
    BY <2>1
  <2>3. Late(d, t)
    BY <2>1, <2>2 DEF Late
  <2> QED BY <2>3 DEF d
<1> DEFINE more == [i \in 1 .. (n - k) |-> Link!Row(t, "row", k + i)]
<1>5. Late(more, t) /\ (k >= n => more = <<>>)
  <2>1. CASE n - k > 0
    <3>1. n - k \in Nat /\ ~(k >= n)
      BY <2>1
    <3>2. \A i \in 1 .. (n - k) : k + i \in Nat
      OBVIOUS
    <3>3. more \in [1 .. (n - k) -> WireRow]
      BY <1>1, <3>2
    <3>4. more \in Seq(WireRow) /\ DOMAIN more = 1 .. (n - k)
      BY <3>1, <3>3
    <3>5. \A j \in 1 .. (n - k) : more[j].token = t /\ more[j].what = "row"
      BY <1>1, <3>2
    <3>6. Late(more, t)
      BY <3>4, <3>5 DEF Late
    <3> QED BY <3>1, <3>6
  <2>2. CASE ~(n - k > 0)
    <3>1. 1 .. (n - k) = {}
      BY <2>2
    <3>2. more = <<>>
      BY <3>1
    <3> QED BY <1>3, <3>2
  <2> QED BY <2>1, <2>2
<1>8. /\ Late(<<Link!Row(t, "err", 0)>>, t) /\ Late(Link!End(t), t)
      /\ Late(<<Link!Row(t, "row", 1)>>, t)
  BY <1>1, <1>2 DEF Link!End
<1> QED BY <1>3, <1>4, <1>5, <1>8

(* Only a read prints its marker (firetuner.py, the wrapped script). *)
LEMMA MarkerRows ==
  ASSUME NEW s \in Script
  PROVE  /\ s.token \in Nat /\ s.kind \in Link!Kind
         /\ Link!Marker(s) = IF s.kind = "read"
                             THEN <<[token |-> s.token, what |-> "mark", n |-> 0]>> ELSE <<>>
         /\ Link!Marker(s) \in Seq(WireRow)
<1>1. s.token \in Nat /\ s.kind \in Link!Kind
  BY DEF Script
<1>2. [token |-> s.token, what |-> "mark", n |-> 0] \in WireRow
  BY <1>1 DEF WireRow
<1>3. Link!Marker(s) = IF s.kind = "read"
                      THEN <<[token |-> s.token, what |-> "mark", n |-> 0]>> ELSE <<>>
  BY DEF Link!Marker, Link!Row
<1> QED BY <1>1, <1>2, <1>3

(* What a read prints is its marker, its rows in order and an end or an error. *)
LEMMA MarkedAnswer ==
  ASSUME NEW s, NEW k, NEW x, NEW out, AnswerOf(s, k, x, out), s.kind = "read"
  PROVE  /\ out \in Seq(WireRow) /\ \A j \in DOMAIN out : out[j].token = s.token
         /\ Shaped(out, s.token) /\ out # <<>>
<1> DEFINE t == s.token
           rest == x
           all == out
           head == <<[token |-> t, what |-> "mark", n |-> 0]>>
           d == Link!Data(t, k)
           f == head \o d
<1>0. /\ t \in Nat /\ k \in Nat /\ rest \in Seq(WireRow) /\ Len(rest) >= 1
      /\ rest[1].what \in {"end", "err"}
      /\ \A j \in DOMAIN rest : rest[j].token = t /\ rest[j].what # "mark"
      /\ all = (head \o Link!Data(t, k)) \o rest
  <2>1. /\ s \in Script /\ k \in Nat /\ Late(x, t) /\ x # <<>>
        /\ x[1].what \in {"end", "err"}
        /\ out = (Link!Marker(s) \o Link!Data(t, k)) \o x
    BY DEF AnswerOf, Tailed
  <2>2. t \in Nat /\ Link!Marker(s) = head
    BY <2>1, MarkerRows
  <2>3. /\ x \in Seq(WireRow) /\ Len(x) >= 1
        /\ \A j \in DOMAIN x : x[j].token = t /\ x[j].what # "mark"
    BY <2>1 DEF Late
  <2> QED BY <2>1, <2>2, <2>3
<1> HIDE DEF t, rest, all
<1>1. d \in Seq(WireRow) /\ Len(d) = k
      /\ \A i \in 1 .. k : d[i] = [token |-> t, what |-> "row", n |-> i]
  BY <1>0, DataRows
<1>2. head \in Seq(WireRow) /\ Len(head) = 1
  BY <1>0 DEF WireRow
<1> HIDE DEF d
<1>3. f \in Seq(WireRow) /\ Len(f) = k + 1 /\ f[1] = [token |-> t, what |-> "mark", n |-> 0]
      /\ \A i \in 1 .. k : f[1 + i] = [token |-> t, what |-> "row", n |-> i]
  BY <1>0, <1>1, <1>2
<1>4. all = f \o rest
  BY <1>0 DEF d
<1> HIDE DEF f, head
<1>5. /\ all \in Seq(WireRow) /\ Len(all) = k + 1 + Len(rest)
      /\ \A j \in 1 .. k + 1 : all[j] = f[j]
      /\ \A j \in 1 .. Len(rest) : all[k + 1 + j] = rest[j]
      /\ \A j \in DOMAIN all :
           \/ j \in 1 .. k + 1 /\ all[j] = f[j]
           \/ j - (k + 1) \in 1 .. Len(rest) /\ all[j] = rest[j - (k + 1)]
  <2> DEFINE g == f \o rest
  <2>1. /\ g \in Seq(WireRow) /\ Len(g) = Len(f) + Len(rest)
        /\ \A j \in 1 .. Len(f) : g[j] = f[j]
        /\ \A j \in 1 .. Len(rest) : g[Len(f) + j] = rest[j]
        /\ \A j \in DOMAIN g :
             \/ j \in 1 .. Len(f) /\ g[j] = f[j]
             \/ j - Len(f) \in 1 .. Len(rest) /\ g[j] = rest[j - Len(f)]
    <3>1. f \in Seq(WireRow) /\ rest \in Seq(WireRow)
      BY <1>0, <1>3
    <3> QED BY <3>1
  <2>2. all = g
    BY <1>4
  <2> HIDE DEF g
  <2> QED BY <1>0, <1>3, <2>1, <2>2
<1>6. ASSUME NEW j \in DOMAIN all
      PROVE  all[j].token = t /\ (j # 1 => all[j].what # "mark")
  <2>1. CASE j \in 1 .. k + 1 /\ all[j] = f[j]
    <3>1. CASE j = 1
      BY <1>0, <1>3, <2>1, <3>1
    <3>2. CASE j # 1
      <4>1. j - 1 \in 1 .. k /\ 1 + (j - 1) = j
        BY <1>0, <2>1, <3>2
      <4>2. f[j] = [token |-> t, what |-> "row", n |-> j - 1]
        BY <1>3, <4>1
      <4> QED BY <2>1, <4>2
    <3> QED BY <3>1, <3>2
  <2>2. CASE j - (k + 1) \in 1 .. Len(rest) /\ all[j] = rest[j - (k + 1)]
    <3>1. DOMAIN rest = 1 .. Len(rest)
      BY <1>0
    <3> QED BY <1>0, <2>2, <3>1
  <2> QED BY <1>5, <2>1, <2>2
<1>7. Shaped(all, t)
  <2>1. k + 2 <= Len(all) /\ all[k + 2] = rest[1]
    <3>1. 1 \in 1 .. Len(rest) /\ k + 1 + 1 = k + 2 /\ k + 2 <= k + 1 + Len(rest)
      BY <1>0
    <3>2. all[k + 1 + 1] = rest[1]
      BY <1>5, <3>1
    <3> QED BY <1>5, <3>1, <3>2
  <2>2. Mark(all[1], t)
    <3>1. 1 \in 1 .. k + 1
      BY <1>0
    <3> QED BY <1>3, <1>5, <3>1 DEF Mark
  <2>3. \A j \in 1 .. k : all[1 + j] = [token |-> t, what |-> "row", n |-> j]
    BY <1>0, <1>3, <1>5
  <2>4. \A j \in 2 .. Len(all) : all[j].what # "mark"
    <3>1. DOMAIN all = 1 .. Len(all) /\ Len(all) \in Nat
      BY <1>5
    <3> QED BY <1>6, <3>1
  <2> QED BY <1>0, <2>1, <2>2, <2>3, <2>4 DEF Shaped
<1>8. all # <<>>
  BY <1>0, <1>5
<1> QED BY <1>5, <1>6, <1>7, <1>8 DEF all, t

(* Joining is associative, for rows. *)
LEMMA Joins ==
  ASSUME NEW a \in Seq(WireRow), NEW b \in Seq(WireRow), NEW c \in Seq(WireRow)
  PROVE  (a \o b) \o c = a \o (b \o c)
BY ConcatAssociative

Pieces(pre, ends, more, tail, t) ==
  /\ pre \in Seq(WireRow) /\ Late(ends, t) /\ Late(more, t) /\ Tailed(tail, t)
  /\ ends = <<>> => more = <<>>
  /\ ends # <<>> => ends[1].what = "end"

(* However the game cuts it into an early end, more rows and a last one: behind what *)
(* was printed before comes a tail of the script's own.                              *)
LEMMA RestRows ==
  ASSUME NEW t, NEW pre, NEW ends, NEW more, NEW tail, Pieces(pre, ends, more, tail, t)
  PROVE  \E x : Tailed(x, t) /\ ((pre \o ends) \o more) \o tail = pre \o x
<1>1. /\ ends \in Seq(WireRow) /\ more \in Seq(WireRow) /\ tail \in Seq(WireRow)
      /\ Late(tail, t) /\ tail # <<>> /\ pre \in Seq(WireRow)
  BY DEF Pieces, Late, Tailed
<1>2. CASE ends = <<>>
  <2>1. more = <<>> /\ ((pre \o ends) \o more) \o tail = pre \o tail
    BY <1>1, <1>2 DEF Pieces
  <2> QED BY <2>1 DEF Pieces
<1>3. CASE ends # <<>>
  <2> DEFINE m == ends \o more
             x == m \o tail
  <2>1. Late(m, t) /\ m # <<>> /\ m[1] = ends[1] /\ m \in Seq(WireRow)
    BY <1>1, <1>3, LateJoins DEF Late, Pieces
  <2>2. (pre \o ends) \o more = pre \o m
    BY <1>1, Joins
  <2> HIDE DEF m
  <2>3. Late(x, t) /\ x # <<>> /\ x[1] = m[1]
    BY <1>1, <2>1, LateJoins
  <2>4. (pre \o m) \o tail = pre \o x
    BY <1>1, <2>1, Joins
  <2> HIDE DEF x
  <2>5. Tailed(x, t)
    BY <1>3, <2>1, <2>3 DEF Tailed, Pieces
  <2> QED BY <2>2, <2>4, <2>5
<1> QED BY <1>2, <1>3

(* The two forms of what a script prints that is no receipt: ended, or broken by an error. *)
LEMMA PrintedForms ==
  ASSUME NEW s, s.kind \notin Link!Receipts, NEW out \in Link!Printed(s)
  PROVE  \/ \E n \in 0 .. LinkRows, k \in 0 .. LinkRows :
              out = Link!Prints(s, n, k) \o Link!End(s.token)
         \/ \E n \in 0 .. LinkRows :
              out = Link!Prints(s, n, n) \o <<Link!Row(s.token, "err", 0)>>
BY SMTT(60) DEF Link!Printed

(* What such a script prints is a marker, rows in order and a tail. *)
LEMMA AnswerRows ==
  ASSUME NEW s \in Script, s.kind \notin Link!Receipts, NEW out \in Link!Printed(s)
  PROVE  \E k, x : AnswerOf(s, k, x, out)
<1>t. PICK t : t = s.token
  OBVIOUS
<1> DEFINE Rest(n, k) == [i \in 1 .. (n - k) |-> Link!Row(t, "row", k + i)]
           Ends(n, k) == IF k < n THEN Link!End(t) ELSE <<>>
           Pre(k) == Link!Marker(s) \o Link!Data(t, k)
<1>1. t \in Nat /\ Link!Marker(s) \in Seq(WireRow)
  BY <1>t, MarkerRows
<1>2. PICK n \in Nat, k \in Nat, tail \in {Link!End(t), <<Link!Row(t, "err", 0)>>} :
        out = Link!Prints(s, n, k) \o tail
  <2>1. 0 .. LinkRows \subseteq Nat
    BY LinkAssumption
  <2> QED BY <1>t, <2>1, PrintedForms
<1>3. Late(Rest(n, k), t) /\ (k >= n => Rest(n, k) = <<>>)
  BY <1>1, LateRows
<1>4. Late(Ends(n, k), t)
  BY <1>1, LateRows
<1>5. /\ Ends(n, k) # <<>> => Ends(n, k)[1].what = "end"
      /\ Ends(n, k) = <<>> => k >= n
  BY DEF Link!End, Link!Row
<1>6. Pre(k) \in Seq(WireRow)
  <2>1. Link!Data(t, k) \in Seq(WireRow)
    BY <1>1, DataRows
  <2> QED BY <1>1, <2>1
<1>7. Tailed(tail, t)
  <2>1. Late(Link!End(t), t) /\ Late(<<Link!Row(t, "err", 0)>>, t)
    BY <1>1, LateRows
  <2>2. /\ Link!End(t) # <<>> /\ Link!End(t)[1].what = "end"
        /\ <<Link!Row(t, "err", 0)>> # <<>> /\ <<Link!Row(t, "err", 0)>>[1].what = "err"
    BY DEF Link!End, Link!Row
  <2> QED BY <2>1, <2>2 DEF Tailed
<1>8. Link!Prints(s, n, k) = (Pre(k) \o Ends(n, k)) \o Rest(n, k)
  BY <1>t DEF Link!Prints
<1>9. PICK p, e, m : p = Pre(k) /\ e = Ends(n, k) /\ m = Rest(n, k)
  OBVIOUS
<1>10. out = ((p \o e) \o m) \o tail
  BY <1>2, <1>8, <1>9
<1>11. Pieces(p, e, m, tail, t)
  BY <1>3, <1>4, <1>5, <1>6, <1>7, <1>9 DEF Pieces
<1>12. PICK x : Tailed(x, t) /\ ((p \o e) \o m) \o tail = p \o x
  BY ONLY <1>11, RestRows
<1> QED BY <1>t, <1>9, <1>10, <1>12 DEF AnswerOf

(* What any script prints is its own, and a receipt's operation is either run whole or *)
(* not at all.                                                                         *)
LEMMA PrintedRows ==
  ASSUME NEW s \in Script, NEW out \in Link!Printed(s)
  PROVE  /\ out \in Seq(WireRow) /\ out # <<>>
         /\ \A j \in DOMAIN out : out[j].token = s.token
         /\ s.kind = "read" => Shaped(out, s.token)
         /\ s.kind \in Link!Receipts =>
              \/ \A j \in DOMAIN out : out[j].what = "err"
              \/ out[Len(out)].what # "err"
<1>t. s.token \in Nat /\ s.kind \in Link!Kind
  BY MarkerRows
<1>1. CASE s.kind \in Link!Receipts
  <2> DEFINE one == Link!Row(s.token, "row", 1)
             end == Link!Row(s.token, "end", 0)
             err == Link!Row(s.token, "err", 0)
  <2>1. out = <<one>> \o <<end>> \/ out = <<err>>
    BY <1>1 DEF Link!Printed, Link!End
  <2>2. /\ one \in WireRow /\ end \in WireRow /\ err \in WireRow
        /\ one.token = s.token /\ end.token = s.token /\ err.token = s.token
        /\ end.what = "end" /\ err.what = "err"
    BY <1>t DEF Link!Row, WireRow
  <2> HIDE DEF one, end, err
  <2>4. s.kind # "read"
    BY <1>1 DEF Link!Receipts
  <2>3. CASE out = <<err>>
    <3>1. out \in Seq(WireRow) /\ out # <<>> /\ \A j \in DOMAIN out : out[j] = err
      BY <2>2, <2>3
    <3> QED BY <2>2, <2>4, <3>1
  <2>5. CASE out = <<one>> \o <<end>>
    <3>1. out \in Seq(WireRow) /\ Len(out) = 2 /\ out[1] = one /\ out[2] = end
      BY <2>2, <2>5
    <3>2. /\ \A j \in DOMAIN out : out[j] = one \/ out[j] = end
          /\ out # <<>> /\ out[Len(out)] = end
      BY <3>1
    <3> QED BY <2>2, <2>4, <3>1, <3>2
  <2> QED BY <2>1, <2>3, <2>5
<1>2. CASE s.kind \notin Link!Receipts
  <2>1. PICK k, x : AnswerOf(s, k, x, out)
    BY <1>2, AnswerRows
  <2>2. /\ Late(x, s.token) /\ x # <<>> /\ x \in Seq(WireRow) /\ k \in Nat
        /\ out = (Link!Marker(s) \o Link!Data(s.token, k)) \o x
    BY <2>1 DEF AnswerOf, Tailed, Late
  <2>4. CASE s.kind = "read"
    <3>1. /\ out \in Seq(WireRow) /\ \A j \in DOMAIN out : out[j].token = s.token
          /\ Shaped(out, s.token) /\ out # <<>>
      BY <2>1, <2>4, MarkedAnswer
    <3> QED BY <3>1, <1>2
  <2>5. CASE s.kind # "read"
    <3>1. Link!Marker(s) = <<>>
      BY <2>5, MarkerRows
    <3> DEFINE d == Link!Data(s.token, k)
    <3>2. Late(d, s.token)
      BY <1>t, <2>2, LateRows
    <3>3. d \in Seq(WireRow)
      BY <3>2 DEF Late
    <3>4. out = (<<>> \o d) \o x
      BY <2>2, <3>1
    <3> HIDE DEF d
    <3>5. out = d \o x
      BY <3>3, <3>4
    <3>6. Late(out, s.token)
      BY <2>2, <3>2, <3>5, LateJoins
    <3>7. out # <<>>
      BY <2>2, <3>3, <3>5
    <3> QED BY <1>2, <2>5, <3>6, <3>7 DEF Late
  <2> QED BY <2>4, <2>5
<1> QED BY <1>1, <1>2

-----------------------------------------------------------------------------
(* Where nothing of a script is heard, all that is heard of it is in order. *)
LEMMA MuteRows ==
  ASSUME NEW a \in Seq(WireRow), NEW b \in Seq(WireRow), NEW t, Mute(a, t)
  PROVE  Heard(a, t) /\ (Mute(b, t) => Mute(a \o b, t))
<1>1. Heard(a, t)
  BY DEF Heard, Mute, Mark
<1>2. ASSUME Mute(b, t), NEW j \in DOMAIN (a \o b) PROVE (a \o b)[j].token # t
  <2>1. \/ j \in DOMAIN a /\ (a \o b)[j] = a[j]
        \/ j - Len(a) \in DOMAIN b /\ (a \o b)[j] = b[j - Len(a)]
    OBVIOUS
  <2> QED BY <1>2, <2>1 DEF Mute
<1> QED BY <1>1, <1>2 DEF Mute

(* What was read first of rows in order is in order. *)
LEMMA HeardPrefix ==
  ASSUME NEW a \in Seq(WireRow), NEW b \in Seq(WireRow), NEW t, Heard(a \o b, t)
  PROVE  Heard(a, t)
<1> DEFINE f == a \o b
<1>1. f \in Seq(WireRow) /\ Len(f) = Len(a) + Len(b) /\ \A j \in 1 .. Len(a) : f[j] = a[j]
  OBVIOUS
<1>2. Heard(f, t)
  OBVIOUS
<1> HIDE DEF f
<1>3. ASSUME NEW i \in DOMAIN a, NEW n \in 1 .. Len(a), Mark(a[i], t), i + n <= Len(a),
             \A j \in i + 1 .. i + n : a[j].what \in {"mark", "row"}
      PROVE  a[i + n] = [token |-> t, what |-> "row", n |-> n]
  <2>1. /\ i \in DOMAIN f /\ n \in 1 .. Len(f) /\ f[i] = a[i] /\ i + n <= Len(f)
        /\ f[i + n] = a[i + n]
    BY <1>1, <1>3
  <2>2. ASSUME NEW j \in i + 1 .. i + n PROVE f[j].what \in {"mark", "row"}
    <3>1. j \in 1 .. Len(a)
      BY <1>3
    <3> QED BY <1>1, <1>3, <3>1
  <2> QED BY <1>2, <1>3, <2>1, <2>2 DEF Heard
<1> QED BY <1>3 DEF Heard

(* Rows of other scripts and then an answer: the answer is heard in order. *)
LEMMA HeardShaped ==
  ASSUME NEW a \in Seq(WireRow), NEW b \in Seq(WireRow), NEW t, Mute(a, t), Shaped(b, t)
  PROVE  Heard(a \o b, t)
<1> DEFINE f == a \o b
           l == Len(a)
<1>1. /\ f \in Seq(WireRow) /\ Len(f) = l + Len(b) /\ \A j \in 1 .. l : f[j] = a[j]
      /\ \A j \in 1 .. Len(b) : f[l + j] = b[j]
      /\ l \in Nat /\ Len(b) \in Nat
  OBVIOUS
<1>2. \A j \in 1 .. l : a[j].token # t
  BY DEF Mute
<1> HIDE DEF f, l
<1>3. PICK k \in Nat :
        /\ k + 2 <= Len(b) /\ Mark(b[1], t) /\ b[k + 2].what \in {"end", "err"}
        /\ \A j \in 1 .. k : b[1 + j] = [token |-> t, what |-> "row", n |-> j]
        /\ \A j \in 2 .. Len(b) : b[j].what # "mark"
  BY DEF Shaped
<1>4. ASSUME NEW i \in DOMAIN f, NEW n \in 1 .. Len(f), Mark(f[i], t), i + n <= Len(f),
             \A j \in i + 1 .. i + n : f[j].what \in {"mark", "row"}
      PROVE  f[i + n] = [token |-> t, what |-> "row", n |-> n]
  <2>1. i \in 1 .. Len(f) /\ ~(i \in 1 .. l)
    <3>1. i \in 1 .. Len(f) /\ f[i].token = t
      BY <1>1, <1>4 DEF Mark
    <3> QED BY <1>1, <1>2, <3>1
  <2>2. i - l \in 1 .. Len(b) /\ f[i] = b[i - l]
    <3>1. i - l \in 1 .. Len(b) /\ l + (i - l) = i
      BY <1>1, <2>1
    <3> QED BY <1>1, <3>1
  <2>3. i = l + 1
    <3>1. ~(i - l \in 2 .. Len(b))
      BY <1>3, <1>4, <2>2 DEF Mark
    <3> QED BY <1>1, <2>2, <3>1
  <2>4. n < k + 1
    <3>1. CASE n >= k + 1
      <4>1. /\ l + (k + 2) \in i + 1 .. i + n /\ k + 2 \in 1 .. Len(b)
        <5>1. l \in Nat /\ k \in Nat /\ k + 2 <= Len(b) /\ i = l + 1 /\ n \in Nat /\ n >= k + 1
          BY <1>1, <1>3, <2>3, <3>1
        <5> QED BY ONLY <5>1, <1>1
      <4>2. f[l + (k + 2)] = b[k + 2]
        BY <1>1, <4>1
      <4> QED BY <1>3, <1>4, <4>1, <4>2
    <3> QED BY <3>1
  <2>5. n \in 1 .. k /\ 1 + n \in 1 .. Len(b) /\ l + (1 + n) = i + n
    BY <1>1, <1>3, <2>3, <2>4
  <2> QED BY <1>1, <1>3, <2>5
<1> QED BY <1>4 DEF Heard, f

(* Of the rows on the wire any number may be read and thrown away. *)
LEMMA DrainedRows ==
  ASSUME LinkTypes, NEW k \in 0 .. Len(wire), Link!Drain(k)
  PROVE  /\ wire' \in Seq(WireRow)
         /\ \A j \in DOMAIN wire' : j + k \in DOMAIN wire /\ wire'[j] = wire[j + k]
<1>1. wire \in Seq(WireRow) /\ wire' = SubSeq(wire, k + 1, Len(wire))
  BY DEF LinkTypes, Link!Drain
<1> QED BY <1>1

Below == {ss \in Nat \X Nat : ss[1] < ss[2]}

(* A set of naturals that is not empty has a least element. *)
LEMMA LeastOf ==
  ASSUME NEW S, S \subseteq Nat, S # {}
  PROVE  \E m \in S : \A k \in S : m <= k
<1>1. IsWellFoundedOn(Below, Nat)
  BY NatLessThanWellFounded DEF OpToRel, Below
<1>2. PICK m \in S : \A k \in S : ~(<<k, m>> \in Below)
  BY <1>1, WFMin
<1>3. ASSUME NEW k \in S PROVE m <= k
  <2>1. m \in Nat /\ k \in Nat
    OBVIOUS
  <2>2. k < m => <<k, m>> \in Below
    BY <2>1 DEF Below
  <2> QED BY <1>2, <2>1, <2>2
<1> QED BY <1>3

(* Positions after the first rows are dropped. *)
LEMMA DroppedRows ==
  ASSUME NEW s \in Seq(DataRow), NEW k \in 0 .. Len(s), NEW r, r = SubSeq(s, k + 1, Len(s))
  PROVE  /\ r \in Seq(DataRow) /\ Len(r) = Len(s) - k
         /\ DOMAIN r = 1 .. Len(r) /\ Len(r) \in Nat
         /\ \A n \in 1 .. Len(r) : r[n] = s[k + n]
<1>1. Len(s) \in Nat /\ k \in Nat /\ k <= Len(s)
  OBVIOUS
<1>2. /\ r \in Seq(DataRow) /\ Len(r) = Len(s) - k
      /\ \A n \in 1 .. Len(r) : r[n] = s[k + n]
  BY <1>1
<1> QED BY <1>1, <1>2

(* Behind the first marker of the command stand its own rows only. *)
LEMMA RowsAfterMarker ==
  ASSUME LinkTypes, Heard(lines, cmd.token), Link!HasMarker(lines)
  PROVE  Link!AfterMarker(lines) = Link!Data(cmd.token, Len(Link!AfterMarker(lines)))
<1> DEFINE t == cmd.token
           I == {i \in 1 .. Len(lines) : Link!IsMine(lines[i])}
           at == Link!SelectInSeq(lines, Link!IsMine)
           rest == Link!AfterMarker(lines)
<1>1. lines \in Seq(DataRow) /\ t \in Nat /\ DOMAIN lines = 1 .. Len(lines) /\ Len(lines) \in Nat
  BY DEF LinkTypes
<1>2. I # {} /\ I \subseteq Nat
  BY <1>1 DEF Link!HasMarker
<1>3. at \in I
  <2>1. at = Link!Min(I)
    BY <1>2 DEF Link!SelectInSeq
  <2>2. \E m \in I : \A k \in I : m <= k
    BY <1>2, LeastOf
  <2> QED BY <2>1, <2>2 DEF Link!Min
<1>4. rest = SubSeq(lines, at + 1, Len(lines))
  BY DEF Link!AfterMarker
<1> HIDE DEF at, rest
<1>5. at \in 1 .. Len(lines) /\ Mark(lines[at], t)
  BY <1>3 DEF Link!IsMine, Mark
<1> HIDE DEF I
<1>6. /\ rest \in Seq(DataRow) /\ Len(rest) = Len(lines) - at
      /\ DOMAIN rest = 1 .. Len(rest) /\ Len(rest) \in Nat
      /\ \A n \in 1 .. Len(rest) : rest[n] = lines[at + n]
  <2>1. at \in 0 .. Len(lines)
    BY <1>1, <1>5
  <2> QED BY <1>1, <1>4, <2>1, DroppedRows
<1>7. ASSUME NEW n \in 1 .. Len(rest) PROVE rest[n] = [token |-> t, what |-> "row", n |-> n]
  <2>1. n \in 1 .. Len(lines) /\ at + n <= Len(lines) /\ at \in DOMAIN lines
    BY <1>1, <1>5, <1>6
  <2>2. ASSUME NEW j \in at + 1 .. at + n PROVE lines[j].what \in {"mark", "row"}
    <3>1. j \in 1 .. Len(lines)
      BY <1>1, <1>5, <2>1
    <3>2. lines[j] \in DataRow
      BY <1>1, <3>1
    <3> QED BY <3>2 DEF DataRow
  <2>3. lines[at + n] = [token |-> t, what |-> "row", n |-> n]
    BY <1>5, <2>1, <2>2 DEF Heard
  <2> QED BY <1>6, <2>3
<1> DEFINE d == Link!Data(t, Len(rest))
<1>8. d \in Seq(DataRow) /\ Len(d) = Len(rest)
      /\ \A i \in 1 .. Len(rest) : d[i] = [token |-> t, what |-> "row", n |-> i]
  BY <1>1, <1>6, DataRows
<1> HIDE DEF d
<1>9. rest = d
  BY <1>6, <1>7, <1>8
<1> QED BY <1>9 DEF rest, d
-----------------------------------------------------------------------------
(* The types that the steps need. *)
LEMMA LinkIds ==
  ASSUME LinkInv
  PROVE  /\ cmd.id \in 0 .. MaxCalls /\ cmd.id \in Nat /\ cmd.token \in Nat /\ MaxCalls \in Nat
         /\ cmd.kind \in Link!Kind /\ cmd.attempt \in Nat \ {0} /\ tokens = cmd.token
         /\ \A k \in DOMAIN inbox : inbox[k] \in Script
         /\ \A k \in DOMAIN wire : wire[k] \in WireRow
         /\ \A k \in DOMAIN lines : lines[k] \in DataRow
         /\ \A i \in 1 .. MaxCalls : runs[i] \in Nat
         /\ DOMAIN inbox = 1 .. Len(inbox) /\ Len(inbox) \in Nat
BY LinkAssumption DEF LinkInv, LinkTypes

(* A new command has a token that nothing under way carries. *)
LEMMA LinkBegins ==
  ASSUME LinkInv, NEW kind \in Link!Kind, Link!Begin(kind)
  PROVE  LinkInv'
<1>1. /\ linkPc = "idle" /\ linkPc' = "ready" /\ cmd.id < MaxCalls /\ tokens' = tokens + 1
      /\ cmd' = [id |-> cmd.id + 1, kind |-> kind, attempt |-> 1, token |-> tokens + 1,
                 again |-> FALSE]
      /\ UNCHANGED <<lines, inbox, wire, answer, runs, breaks>>
  BY DEF Link!Begin
<1>2. /\ cmd'.id = cmd.id + 1 /\ cmd'.token = cmd.token + 1 /\ cmd'.kind = kind
      /\ cmd'.id \in 1 .. MaxCalls
  BY <1>1, LinkIds
<1>3. LinkTypes'
  BY <1>1, <1>2, LinkIds DEF LinkInv, LinkTypes
<1>4. OldNews'
  <2>1. ASSUME NEW k \in DOMAIN inbox
        PROVE  inbox[k].id <= cmd.id + 1 /\ inbox[k].token < cmd.token + 1
    <3>1. inbox[k].id <= cmd.id /\ inbox[k].token <= cmd.token /\ inbox[k] \in Script
      BY LinkIds DEF LinkInv, OldNews
    <3> QED BY <3>1, LinkIds DEF Script
  <2>2. ASSUME NEW k \in DOMAIN wire PROVE wire[k].token < cmd.token + 1
    <3>1. wire[k].token <= cmd.token /\ wire[k] \in WireRow
      BY LinkIds DEF LinkInv, OldNews
    <3> QED BY <3>1, LinkIds DEF WireRow
  <2>3. \A i \in 1 .. MaxCalls : cmd.id + 1 < i => runs[i] = 0
    BY LinkIds DEF LinkInv, OldNews
  <2>4. /\ \A k \in DOMAIN inbox : inbox[k].token <= cmd.token + 1 /\ inbox[k].token # cmd.token + 1
        /\ \A k \in DOMAIN wire : wire[k].token <= cmd.token + 1 /\ wire[k].token # cmd.token + 1
    <3>1. \A k \in DOMAIN inbox : inbox[k].token \in Nat
      BY LinkIds DEF Script
    <3>2. \A k \in DOMAIN wire : wire[k].token \in Nat
      BY LinkIds DEF WireRow
    <3> QED BY <2>1, <2>2, <3>1, <3>2, LinkIds
  <2> QED BY <1>1, <1>2, <2>1, <2>3, <2>4 DEF OldNews, Mute
<1>5. LastSent' /\ OwnAnswer'
  BY <1>1 DEF LastSent, OwnAnswer, Waiting
<1>6. OnceSent'
  <2>1. runs[cmd.id + 1] = 0
    BY <1>2, LinkIds DEF LinkInv, OldNews
  <2>2. ASSUME NEW k \in DOMAIN inbox PROVE inbox[k].id # cmd.id + 1
    <3>1. inbox[k].id <= cmd.id /\ inbox[k] \in Script
      BY LinkIds DEF LinkInv, OldNews
    <3> QED BY <3>1, LinkIds DEF Script
  <2>3. {k \in DOMAIN inbox : inbox[k].id = cmd.id + 1} = {}
    BY <2>2
  <2>4. SentOf(cmd.id)' = {k \in DOMAIN inbox : inbox[k].id = cmd.id + 1}
    BY <1>1, <1>2 DEF SentOf
  <2> QED BY <1>1, <1>2, <2>1, <2>3, <2>4 DEF OnceSent, Waiting
<1>7. OnceAnswered'
  <2>1. SentOf(answer.id)' = SentOf(answer.id)
    BY <1>1 DEF SentOf
  <2>2. answer.id \in 1 .. cmd.id => answer.id \in 1 .. cmd.id + 1
    BY LinkIds
  <2> QED BY <1>1, <1>2, <2>1, <2>2 DEF LinkInv, OnceAnswered
<1>8. Link!OwnRowsOnly'
  BY <1>1 DEF LinkInv, Link!OwnRowsOnly
<1> QED BY <1>3, <1>4, <1>5, <1>6, <1>7, <1>8 DEF LinkInv

(* The command goes out once more, behind what the game has still to run. *)
LEMMA LinkSends ==
  ASSUME LinkInv, Link!Send
  PROVE  LinkInv'
<1> DEFINE s == [id |-> cmd.id, token |-> cmd.token, kind |-> cmd.kind]
<1>1. PICK k \in 0 .. Len(wire) : Link!Drain(k)
  BY DEF Link!Send
<1>2. /\ linkPc = "ready" /\ linkPc' = "collect" /\ lines' = <<>>
      /\ inbox' = Append(inbox, s) /\ UNCHANGED <<cmd, answer, tokens, runs>>
  BY DEF Link!Send
<1>3. /\ wire' \in Seq(WireRow)
      /\ \A j \in DOMAIN wire' : j + k \in DOMAIN wire /\ wire'[j] = wire[j + k]
  BY <1>1, DrainedRows DEF LinkInv
<1>4. s \in Script /\ cmd.id \in 1 .. MaxCalls
  BY <1>2, LinkIds DEF LinkInv, LinkTypes, Script
<1>5. /\ inbox' \in Seq(Script) /\ Len(inbox') = Len(inbox) + 1
      /\ DOMAIN inbox' = 1 .. Len(inbox) + 1 /\ inbox'[Len(inbox')] = s
      /\ \A j \in 1 .. Len(inbox) : inbox'[j] = inbox[j]
  <2>1. inbox \in Seq(Script)
    BY DEF LinkInv, LinkTypes
  <2> HIDE DEF s
  <2> QED BY <1>2, <1>4, <2>1
<1>6. Mute(inbox, cmd.token) /\ Mute(wire, cmd.token)
  BY <1>2 DEF LinkInv, OldNews
<1>7. Mute(wire', cmd.token)
  BY <1>3, <1>6 DEF Mute
<1>8. LinkTypes'
  BY <1>2, <1>3, <1>4, <1>5, LinkIds DEF LinkInv, LinkTypes
<1>9. OldNews'
  <2>1. ASSUME NEW j \in DOMAIN inbox' PROVE inbox'[j].id <= cmd.id /\ inbox'[j].token <= cmd.token
    <3>1. CASE j \in 1 .. Len(inbox)
      BY <1>5, <3>1, LinkIds DEF LinkInv, OldNews
    <3>2. CASE j = Len(inbox')
      BY <1>5, <3>2, LinkIds
    <3> QED BY <1>5, <3>1, <3>2, LinkIds
  <2>2. \A j \in DOMAIN wire' : wire'[j].token <= cmd.token
    BY <1>3 DEF LinkInv, OldNews
  <2>3. \A i \in 1 .. MaxCalls : cmd.id < i => runs[i] = 0
    BY DEF LinkInv, OldNews
  <2> QED BY <1>2, <2>1, <2>2, <2>3 DEF OldNews
<1>10. LastSent'
  <2>1. \A j \in 1 .. Len(inbox') - 1 : inbox'[j].token # cmd.token
    BY <1>5, <1>6, LinkIds DEF Mute
  <2>2. Mute(lines', cmd.token)
    BY <1>2 DEF Mute
  <2> QED BY <1>2, <1>5, <1>7, <2>1, <2>2 DEF LastSent
<1>11. OwnAnswer'
  <2>1. lines' = <<>> /\ lines' \o wire' = wire'
    BY <1>2, <1>3
  <2>2. Heard(wire', cmd.token)
    BY <1>3, <1>7, MuteRows
  <2>3. Heard(<<>>, cmd.token)
    BY DEF Heard
  <2> QED BY <1>2, <2>1, <2>2, <2>3 DEF OwnAnswer
<1>12. OnceSent'
  <2>1. ASSUME cmd.kind = "once"
        PROVE  runs[cmd.id] = 0 /\ SentOf(cmd.id)' = {Len(inbox) + 1}
    <3>1. runs[cmd.id] = 0 /\ SentOf(cmd.id) = {}
      BY <1>2, <2>1 DEF LinkInv, OnceSent
    <3>2. \A j \in 1 .. Len(inbox) : inbox[j].id # cmd.id
      BY <3>1, LinkIds DEF SentOf
    <3>3. SentOf(cmd.id)' = {j \in DOMAIN inbox' : inbox'[j].id = cmd.id}
      BY <1>2 DEF SentOf
    <3>4. \A j \in DOMAIN inbox' : inbox'[j].id = cmd.id <=> j = Len(inbox) + 1
      BY <1>5, <3>2, LinkIds
    <3>5. Len(inbox) + 1 \in DOMAIN inbox'
      BY <1>5, LinkIds
    <3> QED BY <3>1, <3>3, <3>4, <3>5
  <2>2. lines' = <<>> /\ \A j \in DOMAIN wire' : wire'[j].token # cmd.token
    BY <1>2, <1>7 DEF Mute
  <2> QED BY <1>2, <2>1, <2>2 DEF OnceSent, SentOf
<1>13. OnceAnswered'
  <2>1. ASSUME answer.kind = "once", answer.status = "ok"
        PROVE  answer.id \in 1 .. cmd.id /\ runs[answer.id] = 1 /\ SentOf(answer.id)' = {}
    <3>1. answer.id \in 1 .. cmd.id /\ runs[answer.id] = 1 /\ SentOf(answer.id) = {}
      BY <2>1 DEF LinkInv, OnceAnswered
    <3>2. answer.id # cmd.id
      BY <1>2 DEF LinkInv, LinkTypes
    <3>3. \A j \in DOMAIN inbox' : inbox'[j].id # answer.id
      BY <1>5, <3>1, <3>2, LinkIds DEF SentOf
    <3> QED BY <1>2, <3>1, <3>3 DEF SentOf
  <2> QED BY <1>2, <2>1 DEF OnceAnswered, SentOf
<1>14. Link!OwnRowsOnly'
  BY <1>2 DEF LinkInv, Link!OwnRowsOnly
<1> QED BY <1>8, <1>9, <1>10, <1>11, <1>12, <1>13, <1>14 DEF LinkInv

(* A receipt is one row. *)
LEMMA OneRow ==
  ASSUME NEW t \in Nat, NEW d, d = Link!Data(t, 1)
  PROVE  Len(d) = 1 /\ 1 \in DOMAIN d /\ d[1] = [token |-> t, what |-> "row", n |-> 1]
<1>1. 1 \in Nat /\ 1 \in 1 .. 1
  OBVIOUS
<1>2. d \in Seq(DataRow) /\ Len(d) = 1 /\ d[1] = [token |-> t, what |-> "row", n |-> 1]
  BY <1>1, DataRows
<1> QED BY <1>2

(* An answer without rows is that of no rows. *)
LEMMA NoData == ASSUME NEW t PROVE <<>> = Link!Data(t, Len(<<>>))
BY DEF Link!Data

(* A command is answered: what it sent and what the game prints stay. *)
LEMMA LinkReturns ==
  ASSUME LinkInv, NEW verdict, NEW given, Link!Return(verdict, given),
         Waiting \/ linkPc = "ready", UNCHANGED <<cmd, tokens, inbox, runs>>,
         lines' \in Seq(DataRow), wire' \in Seq(WireRow),
         \A k \in DOMAIN wire' : wire'[k].token <= cmd.token,
         cmd.kind # "plain" => given = Link!Data(cmd.token, Len(given)),
         cmd.kind = "once" /\ verdict = "ok" => runs[cmd.id] = 1 /\ SentOf(cmd.id) = {}
  PROVE  LinkInv'
<1>1. /\ linkPc' \in {"idle", "closed"}
      /\ answer' = [id |-> cmd.id, kind |-> cmd.kind, status |-> verdict,
                    token |-> cmd.token, rows |-> given]
  BY DEF Link!Return
<1>2. /\ answer'.id = cmd.id /\ answer'.kind = cmd.kind /\ answer'.status = verdict
      /\ answer'.token = cmd.token /\ answer'.rows = given
  BY <1>1
<1>3. LinkTypes'
  <2>1. cmd.kind = "once" => cmd.id # 0
    BY DEF LinkInv, LinkTypes
  <2> QED BY <1>1, <1>2, <2>1, LinkIds DEF LinkInv, LinkTypes
<1>4. OldNews'
  BY <1>1 DEF LinkInv, OldNews
<1>5. LastSent' /\ OwnAnswer'
  BY <1>1 DEF LastSent, OwnAnswer, Waiting
<1>6. SentOf(cmd.id)' = SentOf(cmd.id)
  BY DEF SentOf
<1>7. OnceSent'
  BY <1>1, <1>6 DEF LinkInv, OnceSent, Waiting
<1>8. OnceAnswered'
  <2>1. SentOf(answer.id)' = SentOf(cmd.id)
    BY <1>2 DEF SentOf
  <2>2. cmd.id \in 1 .. cmd.id
    BY LinkIds DEF LinkInv, LinkTypes, Waiting
  <2> QED BY <1>2, <2>1, <2>2 DEF OnceAnswered
<1>9. Link!OwnRowsOnly'
  BY <1>2 DEF Link!OwnRowsOnly
<1> QED BY <1>3, <1>4, <1>5, <1>7, <1>8, <1>9 DEF LinkInv

(* A row is read, the answer of the command or an end that is not its own. *)
LEMMA LinkCollects ==
  ASSUME LinkInv, Link!Collect
  PROVE  LinkInv'
<1> DEFINE row == Head(wire)
<1>1. /\ linkPc = "collect" /\ wire # <<>> /\ wire' = Tail(wire)
      /\ UNCHANGED <<cmd, inbox, tokens, runs>>
  BY DEF Link!Collect
<1>2. /\ wire \in Seq(WireRow) /\ lines \in Seq(DataRow) /\ lines \in Seq(WireRow)
  <2>1. wire \in Seq(WireRow) /\ lines \in Seq(DataRow)
    BY DEF LinkInv, LinkTypes
  <2>2. DataRow \subseteq WireRow
    BY DEF DataRow, WireRow
  <2> QED BY <2>1, <2>2
<1>3. /\ wire' \in Seq(WireRow) /\ row \in WireRow /\ 1 \in DOMAIN wire /\ row = wire[1]
      /\ \A k \in DOMAIN wire' : k + 1 \in DOMAIN wire /\ wire'[k] = wire[k + 1]
  BY <1>1, <1>2
<1>4. \A k \in DOMAIN wire' : wire'[k].token <= cmd.token
  BY <1>3 DEF LinkInv, OldNews
<1>5. ASSUME row.what = "err", Link!Return("LuaError", <<>>), UNCHANGED lines PROVE LinkInv'
  BY <1>1, <1>2, <1>3, <1>4, <1>5, NoData, LinkReturns DEF Waiting
<1>6. ASSUME linkPc' = "settle" \/ linkPc' = "collect", UNCHANGED answer,
             lines' \in Seq(DataRow), Mute(lines, cmd.token) /\ Mute(wire, cmd.token)
                                         => Mute(lines', cmd.token),
             cmd.kind = "read" => Heard(lines', cmd.token),
             linkPc' = "collect" /\ cmd.kind = "read" => Heard(lines' \o wire', cmd.token),
             \A k \in DOMAIN lines' : lines'[k] = row \/ \E j \in DOMAIN lines : lines'[k] = lines[j]
      PROVE  LinkInv'
  <2>1. LinkTypes'
    BY <1>1, <1>3, <1>6, LinkIds DEF LinkInv, LinkTypes
  <2>2. OldNews'
    BY <1>1, <1>4, <1>6 DEF LinkInv, OldNews
  <2>3. Mute(wire, cmd.token) => Mute(wire', cmd.token)
    BY <1>3 DEF Mute
  <2>4. LastSent'
    BY <1>1, <1>6, <2>3 DEF LinkInv, LastSent, Waiting
  <2>5. OwnAnswer'
    BY <1>1, <1>6 DEF OwnAnswer
  <2>6. OnceSent'
    <3>1. SentOf(cmd.id)' = SentOf(cmd.id)
      BY <1>1 DEF SentOf
    <3>2. ASSUME cmd.kind = "once"
          PROVE  /\ \A k \in DOMAIN lines' :
                      lines'[k].token = cmd.token /\ lines'[k].what = "row" => runs[cmd.id] = 1
                 /\ \A k \in DOMAIN wire' :
                      wire'[k].token = cmd.token /\ wire'[k].what = "row" => runs[cmd.id] = 1
      <4>1. /\ \A k \in DOMAIN lines :
                 lines[k].token = cmd.token /\ lines[k].what = "row" => runs[cmd.id] = 1
            /\ \A k \in DOMAIN wire :
                 wire[k].token = cmd.token /\ wire[k].what = "row" => runs[cmd.id] = 1
        BY <1>1, <3>2 DEF LinkInv, OnceSent, Waiting
      <4> QED BY <1>3, <1>6, <4>1
    <3> QED BY <1>1, <1>6, <3>1, <3>2 DEF LinkInv, OnceSent, Waiting
  <2>7. OnceAnswered'
    BY <1>1, <1>6 DEF LinkInv, OnceAnswered, SentOf
  <2>8. Link!OwnRowsOnly'
    BY <1>6 DEF LinkInv, Link!OwnRowsOnly
  <2> QED BY <2>1, <2>2, <2>4, <2>5, <2>6, <2>7, <2>8 DEF LinkInv
<1>7. ASSUME linkPc' = "settle", UNCHANGED <<lines, answer>> PROVE LinkInv'
  <2>1. cmd.kind = "read" => Heard(lines, cmd.token)
    BY <1>1 DEF LinkInv, OwnAnswer, Waiting
  <2> QED BY <1>2, <1>6, <1>7, <2>1
<1>8. ASSUME row.what \in {"mark", "row"}, lines' = Append(lines, row), UNCHANGED <<linkPc, answer>>
      PROVE  LinkInv'
  <2>1. row \in DataRow
    BY <1>3, <1>8 DEF WireRow, DataRow
  <2>2. lines' \in Seq(DataRow) /\ lines' \in Seq(WireRow)
        /\ \A k \in DOMAIN lines' : lines'[k] = row \/ \E j \in DOMAIN lines : lines'[k] = lines[j]
    BY <1>2, <1>3, <1>8, <2>1
  <2>3. lines' \o wire' = lines \o wire
    <3>1. lines' = lines \o <<row>>
      BY <1>2, <1>8
    <3>2. wire = <<row>> \o wire'
      BY <1>1, <1>2
    <3>3. <<row>> \in Seq(WireRow)
      BY <1>3
    <3>4. (lines \o <<row>>) \o wire' = lines \o (<<row>> \o wire')
      BY <1>2, <1>3, <3>3, Joins
    <3> QED BY <3>1, <3>2, <3>4
  <2>4. ASSUME cmd.kind = "read" PROVE Heard(lines' \o wire', cmd.token) /\ Heard(lines', cmd.token)
    <3>1. Heard(lines' \o wire', cmd.token)
      BY <1>1, <2>3, <2>4 DEF LinkInv, OwnAnswer, Waiting
    <3> QED BY <1>3, <2>2, <3>1, HeardPrefix
  <2>5. Mute(lines, cmd.token) /\ Mute(wire, cmd.token) => Mute(lines', cmd.token)
    BY <1>3, <2>2 DEF Mute
  <2> QED BY <1>1, <1>6, <1>8, <2>2, <2>4, <2>5
<1> QED BY <1>5, <1>7, <1>8 DEF Link!Collect

(* The wait is over. *)
LEMMA LinkGivesUp ==
  ASSUME LinkInv, Link!GiveUp
  PROVE  LinkInv'
<1>1. /\ linkPc = "collect" /\ linkPc' = "settle"
      /\ UNCHANGED <<cmd, lines, inbox, wire, answer, tokens, runs, breaks>>
  BY DEF Link!GiveUp
<1>2. LinkTypes'
  BY <1>1, LinkIds DEF LinkInv, LinkTypes
<1>3. OldNews' /\ LastSent' /\ OwnAnswer'
  BY <1>1 DEF LinkInv, OldNews, LastSent, OwnAnswer, Waiting
<1>4. OnceSent' /\ OnceAnswered' /\ Link!OwnRowsOnly'
  BY <1>1 DEF LinkInv, OnceSent, OnceAnswered, Link!OwnRowsOnly, Waiting, SentOf
<1> QED BY <1>2, <1>3, <1>4 DEF LinkInv

(* Another attempt has a token of its own; a handoff's operation has none. *)
LEMMA LinkRetries ==
  ASSUME LinkInv, Link!Retry, Waiting, cmd.attempt < Link!AllAttempts,
         UNCHANGED <<lines, inbox, runs>>, wire' \in Seq(WireRow),
         \A k \in DOMAIN wire' : wire'[k].token <= cmd.token
  PROVE  LinkInv'
<1>1. /\ cmd' = [cmd EXCEPT !.attempt = @ + 1, !.token = tokens + 1, !.again = FALSE]
      /\ tokens' = tokens + 1 /\ linkPc' = "ready" /\ UNCHANGED answer
  BY DEF Link!Retry
<1>2. /\ cmd \in [id : 0 .. MaxCalls, kind : Link!Kind, attempt : Nat \ {0}, token : Nat,
                  again : BOOLEAN]
      /\ cmd'.id = cmd.id /\ cmd'.kind = cmd.kind /\ cmd'.token = cmd.token + 1
      /\ cmd' \in [id : 0 .. MaxCalls, kind : Link!Kind, attempt : Nat \ {0}, token : Nat,
                   again : BOOLEAN]
  <2>1. cmd \in [id : 0 .. MaxCalls, kind : Link!Kind, attempt : Nat \ {0}, token : Nat,
                 again : BOOLEAN] /\ tokens = cmd.token
    BY DEF LinkInv, LinkTypes
  <2>2. tokens + 1 \in Nat /\ cmd.attempt + 1 \in Nat \ {0}
    BY <2>1
  <2> QED BY <1>1, <2>1, <2>2
<1>3. cmd.kind # "once"
  BY <1>2 DEF Link!AllAttempts
<1>4. LinkTypes'
  BY <1>1, <1>2, LinkIds DEF LinkInv, LinkTypes, Waiting
<1>5. OldNews'
  <2>1. ASSUME NEW k \in DOMAIN inbox
        PROVE  /\ inbox[k].id <= cmd.id /\ inbox[k].token <= cmd.token + 1
               /\ inbox[k].token # cmd.token + 1
    <3>1. inbox[k].id <= cmd.id /\ inbox[k].token <= cmd.token /\ inbox[k].token \in Nat
      BY LinkIds DEF LinkInv, OldNews, Script
    <3> QED BY <3>1, LinkIds
  <2>2. ASSUME NEW k \in DOMAIN wire'
        PROVE  wire'[k].token <= cmd.token + 1 /\ wire'[k].token # cmd.token + 1
    <3>1. wire'[k].token <= cmd.token /\ wire'[k] \in WireRow
      OBVIOUS
    <3>2. wire'[k].token \in Nat
      BY <3>1 DEF WireRow
    <3> QED BY <3>1, <3>2, LinkIds
  <2>3. \A i \in 1 .. MaxCalls : cmd.id < i => runs[i] = 0
    BY DEF LinkInv, OldNews
  <2> QED BY <1>1, <1>2, <2>1, <2>2, <2>3 DEF OldNews, Mute
<1>6. LastSent' /\ OwnAnswer'
  BY <1>1 DEF LastSent, OwnAnswer, Waiting
<1>7. OnceSent'
  BY <1>2, <1>3 DEF OnceSent
<1>8. OnceAnswered' /\ Link!OwnRowsOnly'
  BY <1>1, <1>2 DEF LinkInv, OnceAnswered, Link!OwnRowsOnly, SentOf
<1> QED BY <1>4, <1>5, <1>6, <1>7, <1>8 DEF LinkInv

(* After the wait: what the lines that were read amount to, by the command's kind. *)
LEMMA LinkSettles ==
  ASSUME LinkInv, Link!Settle
  PROVE  LinkInv'
<1>1. PICK k \in 0 .. Len(wire) : Link!Drain(k)
  BY DEF Link!Settle
<1>2. linkPc = "settle" /\ UNCHANGED <<lines, inbox, runs>> /\ Waiting
  BY DEF Link!Settle, Waiting
<1>3. /\ wire' \in Seq(WireRow)
      /\ \A j \in DOMAIN wire' : j + k \in DOMAIN wire /\ wire'[j] = wire[j + k]
  BY <1>1, DrainedRows DEF LinkInv
<1>4. \A j \in DOMAIN wire' : wire'[j].token <= cmd.token
  BY <1>3 DEF LinkInv, OldNews
<1>5. lines \in Seq(DataRow)
  BY DEF LinkInv, LinkTypes
<1>6. ASSUME Link!Retry, cmd.attempt < Link!AllAttempts PROVE LinkInv'
  BY <1>2, <1>3, <1>4, <1>6, LinkRetries
<1>7. ASSUME NEW verdict, NEW given, Link!Return(verdict, given), UNCHANGED <<cmd, tokens>>,
             cmd.kind # "plain" => given = Link!Data(cmd.token, Len(given)),
             cmd.kind = "once" /\ verdict = "ok" => runs[cmd.id] = 1 /\ SentOf(cmd.id) = {}
      PROVE  LinkInv'
  BY <1>2, <1>3, <1>4, <1>5, <1>7, LinkReturns
<1>8. CASE Link!SettlePlain
  <2>1. cmd.kind = "plain" /\ Link!Return("ok", lines) /\ UNCHANGED <<cmd, tokens>>
    BY <1>8 DEF Link!SettlePlain
  <2> QED BY <1>7, <2>1
<1>9. CASE Link!SettleRead
  <2>1. cmd.kind = "read"
    BY <1>9 DEF Link!SettleRead
  <2>2. CASE /\ Link!HasMarker(lines) /\ Link!Return("ok", Link!AfterMarker(lines))
             /\ UNCHANGED <<cmd, tokens>>
    <3>1. Heard(lines, cmd.token) /\ LinkTypes
      BY <1>2, <2>1 DEF LinkInv, OwnAnswer
    <3>2. Link!AfterMarker(lines) = Link!Data(cmd.token, Len(Link!AfterMarker(lines)))
      BY <2>2, <3>1, RowsAfterMarker
    <3> QED BY <1>7, <2>1, <2>2, <3>2
  <2>3. CASE cmd.attempt < Link!AllAttempts /\ Link!Retry
    BY <1>6, <2>3
  <2>4. CASE Link!Return("ok", <<>>) /\ UNCHANGED <<cmd, tokens>>
    BY <1>7, <2>1, <2>4, NoData
  <2> QED BY <1>9, <2>2, <2>3, <2>4 DEF Link!SettleRead
<1>10. CASE Link!SettleReceipt
  <2>1. CASE /\ lines = Link!Data(cmd.token, 1) /\ Link!Return("ok", lines)
             /\ UNCHANGED <<cmd, tokens>>
    <3>1. Len(lines) = 1 /\ 1 \in DOMAIN lines /\ lines[1] = [token |-> cmd.token, what |-> "row", n |-> 1]
      BY <2>1, LinkIds, OneRow
    <3>2. cmd.kind = "once" => runs[cmd.id] = 1 /\ SentOf(cmd.id) = {}
      BY <1>2, <3>1 DEF LinkInv, OnceSent
    <3>3. lines = Link!Data(cmd.token, Len(lines))
      BY <2>1, <3>1
    <3> QED BY <1>7, <2>1, <3>2, <3>3
  <2>2. CASE cmd.attempt < Link!AllAttempts /\ Link!Retry
    BY <1>6, <2>2
  <2>3. CASE Link!Return("missing or mismatched", <<>>) /\ UNCHANGED <<cmd, tokens>>
    BY <1>7, <2>3, NoData
  <2> QED BY <1>10, <2>1, <2>2, <2>3 DEF Link!SettleReceipt
<1> QED BY <1>8, <1>9, <1>10 DEF Link!Settle

(* The caller is cancelled. *)
LEMMA LinkCancels ==
  ASSUME LinkInv, Link!Cancel
  PROVE  LinkInv'
<1>1. /\ linkPc \in {"ready", "collect", "settle"} /\ Link!Return("cancelled", <<>>)
      /\ UNCHANGED <<cmd, lines, inbox, wire, tokens, runs>>
  BY DEF Link!Cancel
<1>2. /\ lines' \in Seq(DataRow) /\ wire' \in Seq(WireRow)
      /\ \A k \in DOMAIN wire' : wire'[k].token <= cmd.token
  BY <1>1 DEF LinkInv, LinkTypes, OldNews
<1> QED BY <1>1, <1>2, NoData, LinkReturns DEF Waiting

(* The game runs a script: what it prints is behind everything printed before, and a *)
(* handoff's operation is not run a second time.                                     *)
LEMMA LinkRuns ==
  ASSUME LinkInv, Link!RunScript
  PROVE  LinkInv'
<1> DEFINE s == inbox[1]
<1>1. PICK out \in Link!Printed(Head(inbox)) :
        /\ inbox # <<>> /\ inbox' = Tail(inbox) /\ wire' = wire \o out
        /\ runs' = IF Link!Last(out).what = "err" /\ Head(inbox).kind \in Link!Receipts
                   THEN runs ELSE [runs EXCEPT ![Head(inbox).id] = @ + 1]
        /\ UNCHANGED <<linkPc, cmd, lines, answer, tokens>>
  BY DEF Link!RunScript
<1>2. /\ inbox \in Seq(Script) /\ wire \in Seq(WireRow) /\ lines \in Seq(DataRow)
      /\ runs \in [1 .. MaxCalls -> Nat]
  BY DEF LinkInv, LinkTypes
<1>3. /\ s \in Script /\ s = Head(inbox) /\ 1 \in DOMAIN inbox
      /\ inbox' \in Seq(Script) /\ Len(inbox') = Len(inbox) - 1
      /\ DOMAIN inbox' = 1 .. Len(inbox')
      /\ \A j \in DOMAIN inbox' : j + 1 \in DOMAIN inbox /\ inbox'[j] = inbox[j + 1]
  BY <1>1, <1>2
<1>4. s.id \in 1 .. MaxCalls /\ s.token \in Nat /\ s.id <= cmd.id /\ s.token <= cmd.token
  BY <1>3 DEF LinkInv, OldNews, Script
<1>5. /\ out \in Seq(WireRow) /\ out # <<>>
      /\ \A j \in DOMAIN out : out[j].token = s.token
      /\ s.kind = "read" => Shaped(out, s.token)
      /\ s.kind \in Link!Receipts =>
           \/ \A j \in DOMAIN out : out[j].what = "err"
           \/ out[Len(out)].what # "err"
  BY <1>1, <1>3, PrintedRows
<1> HIDE DEF s
<1>6. /\ runs' \in [1 .. MaxCalls -> Nat]
      /\ \A i \in 1 .. MaxCalls : i # s.id => runs'[i] = runs[i]
      /\ runs'[s.id] \in {runs[s.id], runs[s.id] + 1}
      /\ out[Len(out)].what # "err" \/ s.kind \notin Link!Receipts => runs'[s.id] = runs[s.id] + 1
  <2>1. Link!Last(out) = out[Len(out)]
    BY DEF Link!Last
  <2> QED BY <1>1, <1>2, <1>3, <1>4, <2>1
<1>7. /\ wire' \in Seq(WireRow)
      /\ \A j \in DOMAIN wire' :
           \/ \E k \in DOMAIN wire : wire'[j] = wire[k]
           \/ \E k \in DOMAIN out : wire'[j] = out[k]
  <2>1. \A j \in DOMAIN (wire \o out) :
           \/ j \in DOMAIN wire /\ (wire \o out)[j] = wire[j]
           \/ j - Len(wire) \in DOMAIN out /\ (wire \o out)[j] = out[j - Len(wire)]
    BY <1>2, <1>5
  <2>2. wire \o out \in Seq(WireRow)
    BY <1>2, <1>5
  <2> QED BY <1>1, <2>1, <2>2
<1>8. LinkTypes'
  BY <1>1, <1>3, <1>6, <1>7, LinkIds DEF LinkInv, LinkTypes
<1>9. Mute(wire, cmd.token) /\ s.token # cmd.token => Mute(wire', cmd.token)
  BY <1>5, <1>7 DEF Mute
<1>10. OldNews'
  <2>1. \A k \in DOMAIN wire' : wire'[k].token <= cmd.token
    BY <1>4, <1>5, <1>7 DEF LinkInv, OldNews
  <2>2. \A k \in DOMAIN inbox' : inbox'[k].id <= cmd.id /\ inbox'[k].token <= cmd.token
    BY <1>3 DEF LinkInv, OldNews
  <2>3. linkPc = "ready" => Mute(inbox', cmd.token) /\ Mute(wire', cmd.token)
    <3>1. CASE linkPc = "ready"
      <4>1. Mute(inbox, cmd.token) /\ Mute(wire, cmd.token)
        BY <3>1 DEF LinkInv, OldNews
      <4>2. s.token # cmd.token
        BY <1>3, <4>1 DEF Mute, s
      <4>3. Mute(inbox', cmd.token)
        BY <1>3, <4>1 DEF Mute
      <4> QED BY <1>9, <4>1, <4>2, <4>3
    <3> QED BY <3>1
  <2>4. \A i \in 1 .. MaxCalls : cmd.id < i => runs'[i] = 0
    <3>1. ASSUME NEW i \in 1 .. MaxCalls, cmd.id < i PROVE runs'[i] = 0
      <4>1. i # s.id
        BY <1>4, <3>1, LinkIds
      <4> QED BY <1>6, <3>1, <4>1 DEF LinkInv, OldNews
    <3> QED BY <3>1
  <2> QED BY <1>1, <2>1, <2>2, <2>3, <2>4 DEF OldNews
<1>11. Waiting =>
         /\ inbox[Len(inbox)] = [id |-> cmd.id, token |-> cmd.token, kind |-> cmd.kind]
         /\ Mute(lines, cmd.token) /\ Mute(wire, cmd.token)
         /\ Len(inbox) = 1 \/ s.token # cmd.token
         /\ \A k \in 1 .. Len(inbox) - 1 : inbox[k].token # cmd.token
  <2>1. CASE Waiting
    <3>1. /\ inbox[Len(inbox)] = [id |-> cmd.id, token |-> cmd.token, kind |-> cmd.kind]
          /\ \A k \in 1 .. Len(inbox) - 1 : inbox[k].token # cmd.token
          /\ Mute(lines, cmd.token) /\ Mute(wire, cmd.token)
      BY <1>1, <2>1 DEF LinkInv, LastSent
    <3>2. Len(inbox) # 1 => 1 \in 1 .. Len(inbox) - 1
      BY <1>2, <1>3
    <3> QED BY <3>1, <3>2 DEF s
  <2> QED BY <2>1
<1>12. LastSent'
  <2>1. ASSUME Waiting, Len(inbox) # 1
        PROVE  /\ inbox'[Len(inbox')] = inbox[Len(inbox)]
               /\ \A k \in 1 .. Len(inbox') - 1 : inbox'[k].token # cmd.token
    <3>1. Len(inbox') \in DOMAIN inbox' /\ Len(inbox') + 1 = Len(inbox)
      BY <1>2, <1>3, <2>1
    <3>2. \A k \in 1 .. Len(inbox') - 1 : k \in DOMAIN inbox' /\ k + 1 \in 1 .. Len(inbox) - 1
      BY <1>2, <1>3
    <3> QED BY <1>3, <1>11, <2>1, <3>1, <3>2
  <2>2. Len(inbox) = 1 => inbox' = <<>>
    BY <1>3
  <2> QED BY <1>1, <1>9, <1>11, <2>1, <2>2 DEF LastSent, Waiting
<1>13. OwnAnswer'
  <2>1. ASSUME Waiting, cmd.kind = "read"
        PROVE  Heard(lines, cmd.token) /\ Heard(lines \o wire', cmd.token)
    <3>1. Mute(lines, cmd.token) /\ Mute(wire, cmd.token)
      BY <1>11, <2>1
    <3>2. lines \in Seq(WireRow)
      <4>1. DataRow \subseteq WireRow
        BY DEF DataRow, WireRow
      <4> QED BY <1>2, <4>1
    <3>3. CASE s.token # cmd.token
      <4>1. Mute(wire', cmd.token)
        BY <1>9, <3>1, <3>3
      <4>2. Mute(lines \o wire', cmd.token) /\ lines \o wire' \in Seq(WireRow)
        BY <1>7, <3>1, <3>2, <4>1, MuteRows
      <4> QED BY <3>1, <3>2, <4>2, MuteRows
    <3>4. CASE Len(inbox) = 1
      <4>1. s.kind = "read" /\ s.token = cmd.token
        BY <1>11, <2>1, <3>4 DEF s
      <4>2. Mute(lines \o wire, cmd.token) /\ lines \o wire \in Seq(WireRow)
        BY <1>2, <3>1, <3>2, MuteRows
      <4>3. Heard((lines \o wire) \o out, cmd.token)
        BY <1>5, <4>1, <4>2, HeardShaped
      <4>4. (lines \o wire) \o out = lines \o (wire \o out)
        BY <1>2, <1>5, <3>2, Joins
      <4>5. Heard(lines \o wire', cmd.token)
        BY <1>1, <4>3, <4>4
      <4> QED BY <3>1, <3>2, <4>5, MuteRows
    <3> QED BY <1>11, <2>1, <3>3, <3>4
  <2> QED BY <1>1, <2>1 DEF OwnAnswer, Waiting
<1>14. ASSUME NEW i PROVE \A j \in SentOf(i)' : i' = i => j + 1 \in SentOf(i) /\ j + 1 # 1
  BY <1>3 DEF SentOf
<1>15. \A j \in {k \in DOMAIN inbox' : inbox'[k].id = cmd.id} : j + 1 \in SentOf(cmd.id) /\ j + 1 # 1 /\ j \in Nat
  BY <1>3 DEF SentOf
<1>16. SentOf(cmd.id)' = {k \in DOMAIN inbox' : inbox'[k].id = cmd.id}
  BY <1>1 DEF SentOf
<1>17. OnceSent'
  <2>1. ASSUME cmd.kind = "once" PROVE OnceSent'
    <3>1. /\ runs[cmd.id] <= 1
          /\ SentOf(cmd.id) # {} => runs[cmd.id] = 0
          /\ \A j, k \in SentOf(cmd.id) : j = k
          /\ linkPc = "ready" => SentOf(cmd.id) = {} /\ runs[cmd.id] = 0
          /\ Waiting =>
               /\ \A k \in DOMAIN lines :
                    lines[k].token = cmd.token /\ lines[k].what = "row" => runs[cmd.id] = 1
               /\ \A k \in DOMAIN wire :
                    wire[k].token = cmd.token /\ wire[k].what = "row" => runs[cmd.id] = 1
      BY <2>1 DEF LinkInv, OnceSent
    <3>id. cmd.id \in 1 .. MaxCalls
      BY <2>1, LinkIds DEF LinkInv, LinkTypes
    <3>2. CASE s.id = cmd.id
      <4>1. 1 \in SentOf(cmd.id) /\ runs[cmd.id] = 0
        BY <1>3, <3>1, <3>2 DEF SentOf, s
      <4>2. SentOf(cmd.id)' = {}
        BY <1>15, <1>16, <3>1, <4>1
      <4>3. runs'[cmd.id] \in {0, 1} /\ linkPc # "ready"
        BY <1>6, <3>1, <3>2, <4>1
      <4>4. ASSUME Waiting
            PROVE  /\ Mute(lines, cmd.token)
                   /\ \A k \in DOMAIN wire' :
                        wire'[k].token = cmd.token /\ wire'[k].what = "row" => runs'[cmd.id] = 1
        <5>1. Len(inbox) \in SentOf(cmd.id)
          BY <1>2, <1>3, <1>11, <4>4 DEF SentOf
        <5>2. Len(inbox) = 1
          BY <3>1, <4>1, <5>1
        <5>3. s.kind = "once" /\ s.kind \in Link!Receipts
          BY <1>11, <2>1, <4>4, <5>2 DEF s, Link!Receipts
        <5>4. ASSUME NEW k \in DOMAIN out, out[k].what = "row" PROVE runs'[cmd.id] = 1
          BY <1>5, <1>6, <3>2, <4>1, <5>3, <5>4
        <5> QED BY <1>7, <1>11, <4>4, <5>4 DEF Mute
      <4> QED BY <1>1, <4>2, <4>3, <4>4 DEF OnceSent, Waiting, Mute
    <3>3. CASE s.id # cmd.id
      <4>1. runs'[cmd.id] = runs[cmd.id]
        BY <1>6, <3>3, <3>id
      <4>2. /\ SentOf(cmd.id)' # {} => SentOf(cmd.id) # {}
            /\ \A j, k \in SentOf(cmd.id)' : j = k
        <5>1. \A j, k \in SentOf(cmd.id)' : j + 1 = k + 1 /\ j \in Nat /\ k \in Nat
          BY <1>15, <1>16, <3>1
        <5> QED BY <1>15, <1>16, <5>1
      <4>3. ASSUME Waiting
            PROVE  \A k \in DOMAIN wire' :
                     wire'[k].token = cmd.token /\ wire'[k].what = "row" => runs[cmd.id] = 1
        <5>1. s.token # cmd.token
          BY <1>11, <3>3, <4>3 DEF s
        <5> QED BY <1>5, <1>7, <3>1, <4>3, <5>1
      <4> QED BY <1>1, <3>1, <4>1, <4>2, <4>3 DEF OnceSent, Waiting
    <3> QED BY <3>2, <3>3
  <2> QED BY <1>1, <2>1 DEF OnceSent
<1>18. OnceAnswered'
  <2>1. ASSUME answer.kind = "once", answer.status = "ok"
        PROVE  answer.id \in 1 .. cmd.id /\ runs'[answer.id] = 1 /\ SentOf(answer.id)' = {}
    <3>1. answer.id \in 1 .. cmd.id /\ runs[answer.id] = 1 /\ SentOf(answer.id) = {}
      BY <2>1 DEF LinkInv, OnceAnswered
    <3>2. s.id # answer.id /\ answer.id \in 1 .. MaxCalls
      BY <1>3, <3>1, LinkIds DEF SentOf, s
    <3>3. \A j \in DOMAIN inbox' : inbox'[j].id # answer.id
      BY <1>3, <3>1 DEF SentOf
    <3> QED BY <1>1, <1>6, <3>1, <3>2, <3>3 DEF SentOf
  <2> QED BY <1>1, <2>1 DEF OnceAnswered
<1>19. Link!OwnRowsOnly'
  BY <1>1 DEF LinkInv, Link!OwnRowsOnly
<1> QED BY <1>8, <1>10, <1>12, <1>13, <1>17, <1>18, <1>19 DEF LinkInv

(* The socket dies: what the game had of it is run or lost, and only a command that may *)
(* be repeated is sent again.                                                           *)
LEMMA LinkDies ==
  ASSUME LinkInv, Link!SocketDies
  PROVE  LinkInv'
<1>1. /\ linkPc \in {"ready", "collect", "settle"}
      /\ wire' = <<>> /\ inbox' = <<>> /\ lines' = <<>> /\ tokens' = tokens
  BY DEF Link!SocketDies
<1>2. PICK m \in 0 .. Len(inbox) : runs' = Link!RunsWith(m)
  BY DEF Link!SocketDies
<1>3. runs \in [1 .. MaxCalls -> Nat]
  BY DEF LinkInv, LinkTypes
<1> DEFINE Ran(i) == {k \in 1 .. m : inbox[k].id = i}
<1>4. ASSUME NEW i
      PROVE  /\ Ran(i) \subseteq SentOf(i)
             /\ Cardinality(Ran(i)) \in Nat
             /\ SentOf(i) = {} => Cardinality(Ran(i)) = 0
             /\ (\A j, k \in SentOf(i) : j = k) => Cardinality(Ran(i)) <= 1
  <2>1. Ran(i) \subseteq SentOf(i)
    BY LinkIds DEF SentOf
  <2>2. IsFiniteSet(1 .. m) /\ Ran(i) \subseteq 1 .. m
    BY FS_Interval
  <2>3. IsFiniteSet(Ran(i)) /\ Cardinality(Ran(i)) \in Nat
    BY <2>2, FS_Subset, FS_CardinalityType
  <2>4. Ran(i) = {} => Cardinality(Ran(i)) = 0
    BY FS_EmptySet
  <2>5. ASSUME \A j, k \in SentOf(i) : j = k PROVE Cardinality(Ran(i)) <= 1
    <3>1. CASE Ran(i) = {}
      BY <2>4, <3>1
    <3>2. CASE Ran(i) # {}
      <4>1. PICK k : Ran(i) = {k}
        BY <2>1, <2>5, <3>2
      <4>2. Cardinality({k}) = 1
        BY FS_Singleton
      <4> HIDE DEF Ran
      <4> QED BY <4>1, <4>2
    <3> QED BY <3>1, <3>2
  <2> QED BY <2>1, <2>3, <2>4, <2>5
<1>5. \A i \in 1 .. MaxCalls : runs'[i] = runs[i] + Cardinality(Ran(i))
  BY <1>2, <1>3 DEF Link!RunsWith, Link!Cardinality, Cardinality
<1>6. runs' \in [1 .. MaxCalls -> Nat]
  <2>1. DOMAIN runs' = 1 .. MaxCalls /\ runs' = [i \in 1 .. MaxCalls |-> runs'[i]]
    BY <1>2, <1>3 DEF Link!RunsWith
  <2>2. \A i \in 1 .. MaxCalls : runs'[i] \in Nat
    <3> HIDE DEF Ran
    <3> QED BY <1>3, <1>4, <1>5
  <2> QED BY <2>1, <2>2
<1> HIDE DEF Ran
<1>7. \A i \in 1 .. MaxCalls : SentOf(i) = {} => runs'[i] = runs[i]
  BY <1>3, <1>4, <1>5
<1>8. cmd.id \in 1 .. MaxCalls /\ cmd'.id = cmd.id /\ cmd'.kind = cmd.kind /\ cmd'.token = cmd.token
      /\ cmd' \in [id : 0 .. MaxCalls, kind : Link!Kind, attempt : Nat \ {0}, token : Nat,
                   again : BOOLEAN]
  <2>1. /\ cmd \in [id : 0 .. MaxCalls, kind : Link!Kind, attempt : Nat \ {0}, token : Nat,
                     again : BOOLEAN]
        /\ cmd.id # 0
    BY <1>1 DEF LinkInv, LinkTypes
  <2>2. cmd' = [cmd EXCEPT !.again = TRUE] \/ cmd' = cmd
    BY DEF Link!SocketDies
  <2>3. cmd.id \in 1 .. MaxCalls
    BY <2>1, LinkIds
  <2> QED BY <2>1, <2>2, <2>3
<1>9. ASSUME NEW i \in 1 .. MaxCalls, cmd.id < i PROVE runs'[i] = 0
  <2>1. \A k \in DOMAIN inbox : inbox[k].id # i
    BY <1>9, LinkIds DEF LinkInv, OldNews, Script
  <2>2. SentOf(i) = {}
    BY <2>1 DEF SentOf
  <2> QED BY <1>7, <1>9, <2>2 DEF LinkInv, OldNews
<1>10. OldNews'
  BY <1>1, <1>8, <1>9 DEF OldNews, Mute
<1>11. SentOf(cmd.id)' = {} /\ SentOf(answer.id)' = {}
  BY <1>1 DEF SentOf
<1>12. cmd.kind = "once" => runs'[cmd.id] <= 1
  <2>1. ASSUME cmd.kind = "once" PROVE runs'[cmd.id] <= 1
    <3>1. /\ runs[cmd.id] <= 1 /\ runs[cmd.id] \in Nat
          /\ SentOf(cmd.id) # {} => runs[cmd.id] = 0
          /\ \A j, k \in SentOf(cmd.id) : j = k
      BY <1>3, <1>8, <2>1 DEF LinkInv, OnceSent
    <3>2. CASE SentOf(cmd.id) = {}
      BY <1>7, <1>8, <3>1, <3>2
    <3>3. CASE SentOf(cmd.id) # {}
      <4>1. Cardinality(Ran(cmd.id)) \in Nat /\ Cardinality(Ran(cmd.id)) <= 1
        BY <1>4, <3>1
      <4>2. runs'[cmd.id] = 0 + Cardinality(Ran(cmd.id))
        BY <1>5, <1>8, <3>1, <3>3
      <4> QED BY <4>1, <4>2
    <3> QED BY <3>2, <3>3
  <2> QED BY <2>1
<1>13. CASE Link!SendsAgain /\ linkPc' = "ready" /\ UNCHANGED answer
  <2>1. cmd.kind # "once"
    BY <1>13 DEF Link!SendsAgain, Link!Receipts
  <2>2. LinkTypes'
    BY <1>1, <1>6, <1>8, <1>13, LinkIds DEF LinkInv, LinkTypes
  <2>3. LastSent' /\ OwnAnswer' /\ OnceSent'
    BY <1>8, <1>13, <2>1 DEF LastSent, OwnAnswer, OnceSent, Waiting
  <2>4. OnceAnswered'
    <3>1. ASSUME answer.kind = "once", answer.status = "ok"
          PROVE  answer.id \in 1 .. cmd.id /\ runs'[answer.id] = 1
      <4>1. answer.id \in 1 .. cmd.id /\ runs[answer.id] = 1 /\ SentOf(answer.id) = {}
        BY <3>1 DEF LinkInv, OnceAnswered
      <4> QED BY <1>7, <1>8, <4>1, LinkIds
    <3> QED BY <1>8, <1>11, <1>13, <3>1 DEF OnceAnswered
  <2>5. Link!OwnRowsOnly'
    BY <1>13 DEF LinkInv, Link!OwnRowsOnly
  <2> QED BY <1>10, <2>2, <2>3, <2>4, <2>5 DEF LinkInv
<1>14. CASE Link!Return("ConnectionError", <<>>) /\ UNCHANGED cmd
  <2>1. /\ linkPc' \in {"idle", "closed"} /\ answer'.id = cmd.id /\ answer'.kind = cmd.kind
        /\ answer'.status = "ConnectionError" /\ answer'.token = cmd.token /\ answer'.rows = <<>>
    BY <1>14 DEF Link!Return
  <2>2. LinkTypes'
    BY <1>1, <1>6, <1>8, <2>1, LinkIds DEF LinkInv, LinkTypes
  <2>3. LastSent' /\ OwnAnswer'
    BY <2>1 DEF LastSent, OwnAnswer, Waiting
  <2>4. OnceSent'
    BY <1>8, <1>11, <1>12, <2>1 DEF OnceSent, Waiting
  <2>5. OnceAnswered'
    BY <2>1 DEF OnceAnswered
  <2>6. Link!OwnRowsOnly'
    BY <2>1, NoData DEF Link!OwnRowsOnly
  <2> QED BY <1>10, <2>2, <2>3, <2>4, <2>5, <2>6 DEF LinkInv
<1> QED BY <1>13, <1>14 DEF Link!SocketDies

(* Every step of the connection and of the game keeps the invariant. *)
LEMMA LinkSteps == LinkInv /\ [Link!Next]_(Link!vars) => LinkInv'
<1> SUFFICES ASSUME LinkInv, [Link!Next]_(Link!vars) PROVE LinkInv'
  OBVIOUS
<1>1. CASE UNCHANGED Link!vars
  <2>1. UNCHANGED <<linkPc, cmd, lines, inbox, wire, answer, tokens, runs, breaks>>
    BY <1>1 DEF Link!vars
  <2> QED BY <2>1 DEF LinkInv, LinkTypes, OldNews, LastSent, OwnAnswer, OnceSent,
                      OnceAnswered, Link!OwnRowsOnly, Waiting, SentOf
<1> QED BY <1>1, LinkBegins, LinkSends, LinkCollects, LinkGivesUp, LinkSettles, LinkRuns,
           LinkDies, LinkCancels DEF Link!Next, Link!Client

(* A step of a behaviour is one of the connection's or leaves it alone. *)
LEMMA LinkOnly == [MCNext]_<<which, fileVars, gameVars>> => [Link!Next]_(Link!vars)
BY DEF MCNext, FilesNext, GameNext, fileVars, gameVars, linkVars, Link!vars

-----------------------------------------------------------------------------
(* The hotseat. *)

(* The seat turns of the engine, counted from one. *)
SeatTurn(n) == Seats!Id((n - 1) % 2, 1 + (n - 1) \div 2)
Over(id) == \E n \in 1 .. Len(ended) : id = SeatTurn(n)

Machine ==
  [turn : Nat, active : {0, 1, 2}, next : {0, 1}, local : {0, 1}, human : SUBSET {0, 1},
   ending : BOOLEAN, popup : BOOLEAN, popups : Nat]
EngineTypes ==
  /\ engine \in Machine
  /\ ended \in Seq([player : {0, 1}, turn : Nat])
  /\ armed = {} \/ armed = {0, 1}
  /\ rows \in Seq([player : {0, 1}, turn : Nat])
  /\ asked \in Seq([player : {0, 1}, turn : Nat])

(* The engine plays the seat turns in order, and the lease is of the current one. *)
InSequence ==
  /\ \A n \in DOMAIN ended : ended[n] = SeatTurn(n)
  /\ Seats!Id(IF engine.active = 2 THEN engine.next ELSE engine.active, engine.turn)
       = SeatTurn(Len(ended) + 1)
  /\ lease # Seats!None => lease = Seats!Current /\ engine.active # 2 /\ armed = {0, 1}

Driven ==
  {"activate", "reflag", "verify", "play", "endverify", "end", "wait", "waitsweep"}
Target ==
  /\ pc \in Driven \cup {"begin"} => target.player # 2
  /\ pc \in Driven => lease = target \/ Over(target)
  /\ pc = "release" => Over(target)

Counted ==
  \E i \in Nat : /\ i % 2 = 0 /\ i + Len(rows) <= Len(ended)
                 /\ \A k \in DOMAIN rows : rows[k] = SeatTurn(i + k)

AskedFor ==
  /\ pc # "failed" =>
       \A j \in DOMAIN asked : \/ Over(asked[j])
                               \/ pc \in {"wait", "waitsweep"} /\ asked[j] = target
  /\ pc \in {"wait", "waitsweep"} => asked # <<>>
  /\ Seats!EndsOnlyItsOwn

SeatsInv == EngineTypes /\ InSequence /\ Target /\ Counted /\ AskedFor

(* No two seat turns are alike. *)
LEMMA TurnsDiffer ==
  ASSUME NEW m \in Nat \ {0}, NEW n \in Nat \ {0}, SeatTurn(m) = SeatTurn(n)
  PROVE  m = n
<1>1. (m - 1) % 2 = (n - 1) % 2 /\ (m - 1) \div 2 = (n - 1) \div 2
  BY DEF SeatTurn, Seats!Id
<1> QED BY <1>1

(* The next seat turn is the other seat's, of the next turn after the second seat's. *)
LEMMA TurnsFollow ==
  ASSUME NEW n \in Nat \ {0}
  PROVE  /\ SeatTurn(n) \in [player : {0, 1}, turn : Nat]
         /\ SeatTurn(n + 1) = Seats!Id(1 - SeatTurn(n).player,
                                IF SeatTurn(n).player = 1 THEN SeatTurn(n).turn + 1
                                ELSE SeatTurn(n).turn)
<1>1. PICK a \in Nat : n - 1 = 2 * a \/ n - 1 = 2 * a + 1
  <2>1. /\ (n - 1) \div 2 \in Nat /\ (n - 1) % 2 \in {0, 1}
        /\ n - 1 = 2 * ((n - 1) \div 2) + ((n - 1) % 2)
    OBVIOUS
  <2> QED BY <2>1
<1>2. CASE n - 1 = 2 * a
  <2>1. (n - 1) % 2 = 0 /\ (n - 1) \div 2 = a /\ ((n + 1) - 1) % 2 = 1 /\ ((n + 1) - 1) \div 2 = a
    BY <1>2
  <2> QED BY <2>1 DEF SeatTurn, Seats!Id
<1>3. CASE n - 1 = 2 * a + 1
  <2>1. /\ (n - 1) % 2 = 1 /\ (n - 1) \div 2 = a
        /\ ((n + 1) - 1) % 2 = 0 /\ ((n + 1) - 1) \div 2 = a + 1
    BY <1>3
  <2> QED BY <2>1 DEF SeatTurn, Seats!Id
<1> QED BY <1>1, <1>2, <1>3

(* Nothing has been played. *)
LEMMA SeatsStart == MCInit => SeatsInv
<1> SUFFICES ASSUME MCInit PROVE SeatsInv
  OBVIOUS
<1>1. Seats!Init
  BY DEF MCInit
<1>2. /\ \E p \in {0, 2} :
           engine = [turn |-> 1, active |-> p, next |-> 0, local |-> 0, human |-> {0, 1},
                     ending |-> FALSE, popup |-> FALSE, popups |-> 0]
      /\ lease = Seats!None /\ armed = {} /\ pc = "arm"
      /\ rows = <<>> /\ ended = <<>> /\ asked = <<>>
  BY <1>1 DEF Seats!Init, Seats!NoSeat, Seats!Seat
<1>3. SeatTurn(1) = Seats!Id(0, 1)
  BY DEF SeatTurn
<1>4. EngineTypes
  BY <1>2 DEF EngineTypes, Machine
<1>5. InSequence
  BY <1>2, <1>3 DEF InSequence
<1>6. Target /\ AskedFor
  BY <1>2 DEF Target, Driven, AskedFor, Seats!EndsOnlyItsOwn
<1>7. Counted
  <2>1. 0 \in Nat /\ 0 % 2 = 0 /\ 0 + Len(rows) <= Len(ended)
    BY <1>2
  <2> QED BY <1>2, <2>1 DEF Counted
<1> QED BY <1>4, <1>5, <1>6, <1>7 DEF SeatsInv

(* A seat's turn ends, asked or not: its lease goes with it. *)
LEMMA SeatLeft ==
  ASSUME SeatsInv, engine.active # 2, Seats!SeatLeaves, UNCHANGED <<armed, rows, asked, target>>,
         pc' = pc \/ (pc \in {"sweep", "waitsweep"} /\ pc' = IF pc = "sweep" THEN "engage" ELSE "wait")
  PROVE  SeatsInv'
<1>1. /\ ended' = Append(ended, Seats!Current)
      /\ lease' = IF engine.active \in armed THEN Seats!Released(Seats!Current) ELSE lease
      /\ engine' = [engine EXCEPT !.active = 2, !.ending = FALSE, !.next = 1 - engine.active,
                      !.turn = IF engine.active = 1 THEN @ + 1 ELSE @]
  BY DEF Seats!SeatLeaves, Seats!NoSeat, Seats!Other
<1>2. EngineTypes /\ InSequence /\ Len(ended) \in Nat
  BY DEF SeatsInv, EngineTypes
<1>3. /\ engine.active \in {0, 1} /\ engine.turn \in Nat
      /\ Seats!Current = [player |-> engine.active, turn |-> engine.turn]
      /\ Seats!Current = SeatTurn(Len(ended) + 1)
      /\ Seats!Current \in [player : {0, 1}, turn : Nat]
  BY <1>2 DEF EngineTypes, Machine, InSequence, Seats!Current, Seats!Id
<1>4. /\ engine'.active = 2 /\ engine'.next = 1 - engine.active
      /\ engine'.turn = IF engine.active = 1 THEN engine.turn + 1 ELSE engine.turn
      /\ engine' \in Machine
  <2>1. engine \in Machine
    BY <1>2 DEF EngineTypes, Machine
  <2>2. CASE engine.active = 1
    <3>1. engine' = [engine EXCEPT !.active = 2, !.ending = FALSE, !.next = 0, !.turn = @ + 1]
      BY <1>1, <2>2
    <3>2. engine' = [turn |-> engine.turn + 1, active |-> 2, next |-> 0, local |-> engine.local,
                     human |-> engine.human, ending |-> FALSE, popup |-> engine.popup,
                     popups |-> engine.popups]
      BY <2>1, <3>1 DEF Machine
    <3> QED BY <1>3, <2>1, <2>2, <3>2 DEF Machine
  <2>3. CASE engine.active = 0
    <3>1. engine' = [engine EXCEPT !.active = 2, !.ending = FALSE, !.next = 1, !.turn = @]
      BY <1>1, <2>3
    <3>2. engine' = [turn |-> engine.turn, active |-> 2, next |-> 1, local |-> engine.local,
                     human |-> engine.human, ending |-> FALSE, popup |-> engine.popup,
                     popups |-> engine.popups]
      BY <2>1, <3>1 DEF Machine
    <3> QED BY <1>3, <2>1, <2>3, <3>2 DEF Machine
  <2> QED BY <1>3, <2>2, <2>3
<1>5. /\ Len(ended') = Len(ended) + 1 /\ ended' \in Seq([player : {0, 1}, turn : Nat])
      /\ \A n \in DOMAIN ended : ended'[n] = ended[n]
      /\ ended'[Len(ended) + 1] = SeatTurn(Len(ended) + 1)
      /\ DOMAIN ended' = DOMAIN ended \cup {Len(ended) + 1}
      /\ DOMAIN ended = 1 .. Len(ended)
  BY <1>1, <1>2, <1>3 DEF EngineTypes, Machine
<1>6. lease' = Seats!None
  BY <1>1, <1>2, <1>3 DEF EngineTypes, Machine, InSequence, Seats!Released
<1>7. EngineTypes'
  BY <1>2, <1>4, <1>5 DEF EngineTypes, Machine
<1>8. InSequence'
  <2>1. Seats!Id(engine'.next, engine'.turn) = SeatTurn((Len(ended) + 1) + 1)
    <3>1. Len(ended) + 1 \in Nat \ {0}
      BY <1>2
    <3>2. SeatTurn(Len(ended) + 1).player = engine.active /\ SeatTurn(Len(ended) + 1).turn = engine.turn
      BY <1>3
    <3>3. SeatTurn((Len(ended) + 1) + 1) = Seats!Id(1 - engine.active,
             IF engine.active = 1 THEN engine.turn + 1 ELSE engine.turn)
      BY <3>1, <3>2, TurnsFollow
    <3> QED BY <1>4, <3>3
  <2> QED BY <1>2, <1>4, <1>5, <1>6, <2>1 DEF InSequence
<1>9. \A id : Over(id) => Over(id)'
  BY <1>2, <1>5 DEF Over
<1>10. lease = target /\ lease # Seats!None => Over(target)'
  BY <1>2, <1>3, <1>5 DEF Over, InSequence
<1>12. Target'
  <2>1. pc' \in Driven => pc \in Driven
    BY DEF Driven
  <2>2. pc \in Driven => lease # Seats!None \/ lease # target
    BY DEF SeatsInv, Target, Seats!None, Seats!NoSeat
  <2>4. pc \in Driven => Over(target)'
    BY <1>9, <1>10, <2>2 DEF SeatsInv, Target
  <2>5. pc' \in {"begin", "release"} => pc' = pc
    OBVIOUS
  <2>6. pc' \in Driven \cup {"begin"} => target.player # 2
    BY <2>1, <2>5 DEF SeatsInv, Target
  <2>7. pc' = "release" => Over(target)'
    BY <1>9, <2>5 DEF SeatsInv, Target
  <2> QED BY <2>1, <2>4, <2>6, <2>7 DEF Target
<1>13. Counted'
  BY <1>2, <1>5 DEF SeatsInv, Counted
<1>14. AskedFor'
  BY <1>9 DEF SeatsInv, AskedFor, Seats!EndsOnlyItsOwn
<1> QED BY <1>7, <1>8, <1>12, <1>13, <1>14 DEF SeatsInv

SameTurn ==
  /\ engine' \in Machine
  /\ engine'.turn = engine.turn /\ engine'.active = engine.active /\ engine'.next = engine.next
  /\ UNCHANGED <<ended, armed, lease>>

(* What does not move the engine on leaves what is over as it is. *)
LEMMA SameTurnKept ==
  ASSUME SeatsInv, SameTurn, UNCHANGED <<rows, asked>>
  PROVE  /\ EngineTypes' /\ InSequence' /\ Counted'
         /\ \A id : Over(id) <=> Over(id)'
<1>1. EngineTypes' /\ Counted'
  BY DEF SeatsInv, EngineTypes, Counted, SameTurn
<1>2. InSequence'
  BY DEF SeatsInv, InSequence, SameTurn, Seats!Current
<1>3. \A id : Over(id) <=> Over(id)'
  BY DEF Over, SameTurn
<1> QED BY <1>1, <1>2, <1>3

(* The driver goes on within a turn, or gives up. *)
LEMMA SameTurnStep ==
  ASSUME SeatsInv, SameTurn, UNCHANGED <<rows, asked>>,
         UNCHANGED target \/ pc' \notin Driven \cup {"begin", "release"},
         \/ UNCHANGED pc
         \/ pc' \in {"attach", "engage", "sweep", "failed", "done"} /\ pc \notin {"wait", "waitsweep", "failed"}
         \/ pc' = "failed"
         \/ {pc, pc'} \subseteq Driven \ {"wait", "waitsweep"}
         \/ {pc, pc'} \subseteq {"wait", "waitsweep"}
  PROVE  SeatsInv'
<1>1. /\ EngineTypes' /\ InSequence' /\ Counted'
      /\ \A id : Over(id) <=> Over(id)'
  BY SameTurnKept
<1>2. lease' = lease
  BY DEF SameTurn
<1>3. Target'
  BY <1>1, <1>2 DEF SeatsInv, Target, Driven
<1>4. AskedFor'
  BY <1>1 DEF SeatsInv, AskedFor, Seats!EndsOnlyItsOwn, Driven
<1> QED BY <1>1, <1>3, <1>4 DEF SeatsInv

(* The next seat's turn starts, and its hook may acquire the lease. *)
LEMMA SeatStarts == SeatsInv /\ Seats!SeatStarts => SeatsInv'
<1> SUFFICES ASSUME SeatsInv, Seats!SeatStarts PROVE SeatsInv'
  OBVIOUS
<1>1. /\ engine.active = 2 /\ UNCHANGED <<pc, target, rows, asked, armed, ended>>
      /\ engine' = [engine EXCEPT !.active = engine.next, !.popups = 0]
      /\ lease' = IF Seats!HookAcquires(engine.next) THEN Seats!Id(engine.next, engine.turn) ELSE lease
  BY DEF Seats!SeatStarts, Seats!driverVars, Seats!Active, Seats!NoSeat
<1>2. EngineTypes /\ InSequence
  BY DEF SeatsInv
<1>3. /\ engine' \in Machine
      /\ engine'.turn = engine.turn /\ engine'.active = engine.next /\ engine'.active # 2
  <2>1. engine \in Machine
    BY <1>2 DEF EngineTypes
  <2>2. engine' = [turn |-> engine.turn, active |-> engine.next, next |-> engine.next,
                   local |-> engine.local, human |-> engine.human, ending |-> engine.ending,
                   popup |-> engine.popup, popups |-> 0]
    BY <1>1, <2>1 DEF Machine
  <2> QED BY <2>1, <2>2 DEF Machine
<1>4. lease = Seats!None
  BY <1>1, <1>2 DEF InSequence
<1>5. Seats!HookAcquires(engine.next) => armed = {0, 1}
  BY <1>2 DEF EngineTypes, Machine, Seats!HookAcquires
<1>6. EngineTypes'
  BY <1>1, <1>2, <1>3 DEF EngineTypes, Machine
<1>7. InSequence'
  <2>1. lease' # Seats!None => lease' = Seats!Id(engine'.active, engine'.turn) /\ armed = {0, 1}
    BY <1>1, <1>3, <1>4, <1>5
  <2> QED BY <1>1, <1>2, <1>3, <2>1 DEF InSequence, Seats!Current
<1>8. \A id : Over(id) <=> Over(id)'
  BY <1>1 DEF Over
<1>9. Target'
  <2>1. pc \in Driven => lease # target
    BY <1>4 DEF SeatsInv, Target, Seats!None, Seats!NoSeat
  <2> QED BY <1>1, <1>8, <2>1 DEF SeatsInv, Target
<1>10. Counted' /\ AskedFor'
  BY <1>1, <1>8 DEF SeatsInv, Counted, AskedFor, Seats!EndsOnlyItsOwn
<1> QED BY <1>6, <1>7, <1>9, <1>10 DEF SeatsInv

(* A turn ends because the driver asked, by itself or by a key of a sweep. *)
LEMMA SeatEnds == SeatsInv /\ (Seats!SeatEnds \/ Seats!SeatPassed \/ Seats!SweepEndsTurn) => SeatsInv'
<1> SUFFICES ASSUME SeatsInv, Seats!SeatEnds \/ Seats!SeatPassed \/ Seats!SweepEndsTurn
             PROVE  SeatsInv'
  OBVIOUS
<1>1. /\ Seats!SeatLeaves /\ UNCHANGED <<armed, rows, asked, target>>
      /\ pc' = pc \/ (pc \in {"sweep", "waitsweep"} /\ pc' = IF pc = "sweep" THEN "engage" ELSE "wait")
  BY DEF Seats!SeatEnds, Seats!SeatPassed, Seats!SweepEndsTurn, Seats!driverVars, Seats!sweepVars,
         Seats!SweepDue, Seats!Sweeping, Seats!Back
<1>2. engine.active # 2
  <2>1. engine.local # 2
    BY DEF SeatsInv, EngineTypes, Machine
  <2> QED BY <2>1 DEF Seats!SeatEnds, Seats!SeatPassed, Seats!SweepEndsTurn, Seats!Active, Seats!NoSeat
<1> QED BY <1>1, <1>2, SeatLeft

(* A popup opens or closes, or a slot is lost. *)
LEMMA EngineIdles == SeatsInv /\ (Seats!PopupOpens \/ Seats!SlotLost \/ Seats!SweepInput) => SeatsInv'
<1> SUFFICES ASSUME SeatsInv, Seats!PopupOpens \/ Seats!SlotLost \/ Seats!SweepInput
             PROVE  SeatsInv'
  OBVIOUS
<1>1. EngineTypes
  BY DEF SeatsInv
<1>2. UNCHANGED <<target, rows, asked, armed, ended, lease>>
  BY DEF Seats!PopupOpens, Seats!SlotLost, Seats!SweepInput, Seats!driverVars, Seats!sweepVars
<1>3. /\ engine' \in Machine
      /\ engine'.turn = engine.turn /\ engine'.active = engine.active
      /\ engine'.next = engine.next
  <2>1. CASE Seats!PopupOpens
    <3>1. engine' = [engine EXCEPT !.popup = TRUE, !.popups = @ + 1]
      BY <2>1 DEF Seats!PopupOpens
    <3>2. engine' = [turn |-> engine.turn, active |-> engine.active, next |-> engine.next,
                     local |-> engine.local, human |-> engine.human, ending |-> engine.ending,
                     popup |-> TRUE, popups |-> engine.popups + 1]
      BY <1>1, <3>1 DEF EngineTypes, Machine
    <3>3. engine \in Machine /\ engine.popups + 1 \in Nat
      BY <1>1 DEF EngineTypes, Machine
    <3> QED BY <3>2, <3>3 DEF Machine
  <2>2. CASE Seats!SlotLost
    <3>1. PICK s \in engine.human : engine' = [engine EXCEPT !.human = @ \ {s}]
      BY <2>2 DEF Seats!SlotLost
    <3>2. engine.human \ {s} \in SUBSET {0, 1}
      BY <1>1 DEF EngineTypes, Machine
    <3> QED BY <1>1, <3>1, <3>2 DEF EngineTypes, Machine
  <2>3. CASE Seats!SweepInput
    BY <1>1, <2>3 DEF EngineTypes, Machine, Seats!SweepInput
  <2> QED BY <2>1, <2>2, <2>3
<1>4. SameTurn
  BY <1>2, <1>3 DEF SameTurn
<1>5. \/ UNCHANGED pc
      \/ pc' = "engage" /\ pc = "sweep"
      \/ pc' = "wait" /\ pc = "waitsweep"
  BY DEF Seats!PopupOpens, Seats!SlotLost, Seats!SweepInput, Seats!driverVars, Seats!SweepDue,
         Seats!Sweeping, Seats!Back
<1> QED BY <1>2, <1>4, <1>5, SameTurnStep DEF Driven

(* The driver's steps that send nothing which could end a turn. *)
LEMMA DriverMoves ==
  ASSUME SeatsInv,
         \/ Seats!NoSweepYet \/ Seats!SweepsExhausted \/ Seats!Activate \/ Seats!Reflag
         \/ Seats!Verify \/ Seats!TakeTurn \/ Seats!Deadline
  PROVE  SeatsInv'
<1>1. EngineTypes
  BY DEF SeatsInv
<1>2. UNCHANGED <<target, rows, asked, armed, ended, lease>>
  BY DEF Seats!NoSweepYet, Seats!SweepsExhausted, Seats!Activate, Seats!Reflag, Seats!Verify,
         Seats!TakeTurn, Seats!Deadline, Seats!engineVars, Seats!sweepVars
<1>3. /\ engine' \in Machine
      /\ engine'.turn = engine.turn /\ engine'.active = engine.active
      /\ engine'.next = engine.next
  <2>1. CASE UNCHANGED engine
    BY <1>1, <2>1 DEF EngineTypes, Machine
  <2>2. CASE Seats!Activate /\ engine' = [engine EXCEPT !.local = target.player] /\ Seats!ActivateGuards
    <3>1. target.player = engine.active
      BY <2>2 DEF Seats!ActivateGuards, Seats!OnTurn, Seats!Current, Seats!Id
    <3>2. lease = target /\ lease # Seats!None
      BY <2>2, <1>1, <3>1 DEF SeatsInv, Target, Driven, Seats!ActivateGuards, Seats!Holds, Seats!Activate,
         Seats!None, Seats!NoSeat
    <3>3. engine.active # 2
      BY <3>2 DEF SeatsInv, InSequence
    <3> QED BY <1>1, <2>2, <3>1, <3>3 DEF EngineTypes, Machine
  <2>3. CASE Seats!Reflag /\ engine' = [engine EXCEPT !.human = {0, 1}]
    BY <1>1, <2>3 DEF EngineTypes, Machine
  <2> QED BY <2>1, <2>2, <2>3
       DEF Seats!NoSweepYet, Seats!SweepsExhausted, Seats!Activate, Seats!Reflag, Seats!Verify,
           Seats!TakeTurn, Seats!Deadline, Seats!engineVars, Seats!Seat
<1>4. SameTurn
  BY <1>2, <1>3 DEF SameTurn
<1>5. \/ pc' = "failed"
      \/ pc' = "engage" /\ pc = "sweep"
      \/ pc' = "wait" /\ pc = "waitsweep"
      \/ {pc, pc'} \subseteq Driven \ {"wait", "waitsweep"}
  BY DEF Seats!NoSweepYet, Seats!SweepsExhausted, Seats!Activate, Seats!Reflag, Seats!Verify,
         Seats!TakeTurn, Seats!Deadline, Seats!Abort, Seats!Fail, Seats!Answered, Seats!Sweeping,
         Seats!Back, Driven
<1> QED BY <1>2, <1>4, <1>5, SameTurnStep DEF Driven

(* Both seats are armed. *)
LEMMA DriverArms == SeatsInv /\ Seats!Arm => SeatsInv'
<1> SUFFICES ASSUME SeatsInv, Seats!Arm PROVE SeatsInv'
  OBVIOUS
<1>1. /\ pc = "arm" /\ pc' = "attach" /\ armed' = {0, 1}
      /\ UNCHANGED <<engine, lease, ended, target, rows, asked>>
  BY DEF Seats!Arm, Seats!engineVars, Seats!Seat
<1>2. EngineTypes' /\ InSequence' /\ Counted'
  BY <1>1 DEF SeatsInv, EngineTypes, InSequence, Counted, Seats!Current
<1>3. \A id : Over(id) <=> Over(id)'
  BY <1>1 DEF Over
<1>4. Target' /\ AskedFor'
  BY <1>1, <1>3 DEF SeatsInv, Target, AskedFor, Seats!EndsOnlyItsOwn, Driven
<1> QED BY <1>2, <1>4 DEF SeatsInv

(* A first turn that is running already is attached. *)
LEMMA DriverAttaches == SeatsInv /\ Seats!Attach => SeatsInv'
<1> SUFFICES ASSUME SeatsInv, Seats!Attach PROVE SeatsInv'
  OBVIOUS
<1>1. /\ pc = "attach" /\ pc' \in {"engage", "failed"}
      /\ UNCHANGED <<engine, ended, target, rows, asked, armed>>
      /\ \/ UNCHANGED lease
         \/ Seats!Attachable(0) /\ lease' = Seats!Id(0, engine.turn)
  BY DEF Seats!Attach, Seats!Abort, Seats!Fail
<1>2. EngineTypes' /\ Counted'
  BY <1>1 DEF SeatsInv, EngineTypes, Counted
<1>3. InSequence'
  <2>1. CASE UNCHANGED lease
    BY <1>1, <2>1 DEF SeatsInv, InSequence, Seats!Current
  <2>2. CASE Seats!Attachable(0) /\ lease' = Seats!Id(0, engine.turn)
    <3>1. engine.active = 0 /\ armed = {0, 1}
      BY <2>2 DEF Seats!Attachable, SeatsInv, EngineTypes
    <3> QED BY <1>1, <2>2, <3>1 DEF SeatsInv, InSequence, Seats!Current
  <2> QED BY <1>1, <2>1, <2>2
<1>4. \A id : Over(id) <=> Over(id)'
  BY <1>1 DEF Over
<1>5. Target' /\ AskedFor'
  BY <1>1, <1>4 DEF SeatsInv, Target, AskedFor, Seats!EndsOnlyItsOwn, Driven
<1> QED BY <1>2, <1>3, <1>5 DEF SeatsInv

(* The engine has not moved. *)
LEMMA StillThere ==
  ASSUME SeatsInv, UNCHANGED <<engine, lease, ended, rows, armed>>
  PROVE  InSequence' /\ Counted' /\ \A id : Over(id) <=> Over(id)'
BY DEF SeatsInv, InSequence, Counted, Over, Seats!Current

(* The driver finds the turn to drive. *)
LEMMA DriverProbes == SeatsInv /\ Seats!Probe => SeatsInv'
<1> SUFFICES ASSUME SeatsInv, Seats!Probe PROVE SeatsInv'
  OBVIOUS
<1>1. /\ pc = "engage" /\ pc' \in {"failed", "begin", "sweep"}
      /\ UNCHANGED <<engine, lease, ended, rows, asked, armed>>
  BY DEF Seats!Probe, Seats!engineVars, Seats!Fail
<1>2. ASSUME pc' = "begin" PROVE target'.player # 2
  <2>1. \/ lease # Seats!None /\ target' = lease
        \/ lease = Seats!None /\ target' = Seats!Id(0, Seats!TargetTurn(0))
    BY <1>2 DEF Seats!Probe, Seats!Fail
  <2>2. lease # Seats!None => lease.player # 2
    BY DEF SeatsInv, InSequence, Seats!Current, Seats!Id
  <2> QED BY <2>1, <2>2 DEF Seats!Id
<1>3. EngineTypes'
  BY <1>1 DEF SeatsInv, EngineTypes
<1>4. Target' /\ AskedFor'
  BY <1>1, <1>2, StillThere DEF SeatsInv, Target, AskedFor, Seats!EndsOnlyItsOwn, Driven
<1> QED BY <1>1, <1>3, <1>4, StillThere DEF SeatsInv

(* It drives the turn whose lease it sees. *)
LEMMA DriverBegins == SeatsInv /\ Seats!BeginPhase => SeatsInv'
<1> SUFFICES ASSUME SeatsInv, Seats!BeginPhase PROVE SeatsInv'
  OBVIOUS
<1>1. /\ pc = "begin"
      /\ pc' = "sweep" \/ (pc' = "activate" /\ lease = target)
      /\ UNCHANGED <<engine, lease, ended, rows, asked, armed, target>>
  BY DEF Seats!BeginPhase, Seats!engineVars
<1>2. EngineTypes'
  BY <1>1 DEF SeatsInv, EngineTypes
<1>3. Target' /\ AskedFor'
  BY <1>1, StillThere DEF SeatsInv, Target, AskedFor, Seats!EndsOnlyItsOwn, Driven
<1> QED BY <1>1, <1>2, <1>3, StillThere DEF SeatsInv

(* The lease is gone: the turn is over. *)
LEMMA DriverWaits == SeatsInv /\ Seats!WaitRelease => SeatsInv'
<1> SUFFICES ASSUME SeatsInv, Seats!WaitRelease PROVE SeatsInv'
  OBVIOUS
<1>1. /\ pc = "wait"
      /\ (pc' = "release" /\ lease # target) \/ pc' = "waitsweep"
      /\ UNCHANGED <<engine, lease, ended, rows, asked, armed, target>>
  BY DEF Seats!WaitRelease, Seats!engineVars
<1>2. EngineTypes'
  BY <1>1 DEF SeatsInv, EngineTypes
<1>3. pc' = "release" => Over(target)
  BY <1>1 DEF SeatsInv, Target, Driven
<1>4. Target'
  BY <1>1, <1>3, StillThere DEF SeatsInv, Target, Driven
<1>5. AskedFor'
  BY <1>1, <1>3, StillThere DEF SeatsInv, AskedFor, Seats!EndsOnlyItsOwn
<1> QED BY <1>1, <1>2, <1>4, <1>5, StillThere DEF SeatsInv

(* It asks for the end of the turn it drives, which no request has asked for before. *)
LEMMA DriverAsks == SeatsInv /\ Seats!RequestEnd => SeatsInv'
<1> SUFFICES ASSUME SeatsInv, Seats!RequestEnd PROVE SeatsInv'
  OBVIOUS
<1>1. /\ pc = "end" /\ UNCHANGED <<lease, ended, armed, target, rows>>
      /\ \/ /\ Seats!Current = target
            /\ engine' = [engine EXCEPT !.ending = (engine.local = engine.active)]
            /\ asked' = Append(asked, target) /\ pc' \in {"wait", "failed"}
         \/ UNCHANGED <<engine, asked>> /\ pc' = "failed"
  BY DEF Seats!RequestEnd, Seats!EndGuards, Seats!OnTurn, Seats!Answered, Seats!Abort, Seats!Fail
<1>2. EngineTypes
  BY DEF SeatsInv
<1>3. CASE UNCHANGED <<engine, asked>> /\ pc' = "failed"
  <2>1. SameTurn
    BY <1>1, <1>2, <1>3 DEF SameTurn, EngineTypes
  <2> QED BY <1>1, <1>3, <2>1, SameTurnStep
<1>4. CASE /\ Seats!Current = target
           /\ engine' = [engine EXCEPT !.ending = (engine.local = engine.active)]
           /\ asked' = Append(asked, target) /\ pc' \in {"wait", "failed"}
  <2>1. /\ engine' \in Machine /\ engine'.turn = engine.turn /\ engine'.active = engine.active
        /\ engine'.next = engine.next
    BY <1>2, <1>4 DEF EngineTypes, Machine
  <2>2. engine.active # 2 /\ target \in [player : {0, 1}, turn : Nat]
    <3>1. target.player # 2 /\ target = [player |-> engine.active, turn |-> engine.turn]
      BY <1>1, <1>4 DEF SeatsInv, Target, Driven, Seats!Current, Seats!Id
    <3> QED BY <1>2, <3>1 DEF EngineTypes, Machine
  <2>3. /\ asked' \in Seq([player : {0, 1}, turn : Nat]) /\ Len(asked') = Len(asked) + 1
        /\ \A j \in DOMAIN asked : j \in DOMAIN asked' /\ asked'[j] = asked[j]
        /\ \A j \in DOMAIN asked' : j \in DOMAIN asked \/ j = Len(asked')
        /\ asked'[Len(asked')] = target
        /\ asked' # <<>>
    <3>1. asked \in Seq([player : {0, 1}, turn : Nat]) /\ asked' = Append(asked, target)
      BY <1>2, <1>4 DEF EngineTypes
    <3>2. asked' \in Seq([player : {0, 1}, turn : Nat]) /\ Len(asked') = Len(asked) + 1
      BY <2>2, <3>1
    <3>3. DOMAIN asked = 1 .. Len(asked) /\ DOMAIN asked' = 1 .. (Len(asked) + 1) /\ Len(asked) \in Nat
      BY <3>1, <3>2
    <3>4. asked'[Len(asked')] = target /\ asked' # <<>>
      BY <3>1, <3>2
    <3>5. ASSUME NEW j \in DOMAIN asked PROVE j \in DOMAIN asked' /\ asked'[j] = asked[j]
      BY <3>1, <3>3
    <3>6. ASSUME NEW j \in DOMAIN asked' PROVE j \in DOMAIN asked \/ j = Len(asked')
      BY <3>2, <3>3
    <3> QED BY <3>2, <3>4, <3>5, <3>6
  <2>4. EngineTypes'
    BY <1>1, <1>2, <2>1, <2>3 DEF EngineTypes
  <2>5. InSequence' /\ Counted' /\ \A id : Over(id) <=> Over(id)'
    BY <1>1, <2>1 DEF SeatsInv, InSequence, Counted, Over, Seats!Current
  <2>6. Target'
    BY <1>1, <1>4, <2>5 DEF SeatsInv, Target, Driven
  <2>7. ~Over(target)
    <3> SUFFICES ASSUME NEW n \in 1 .. Len(ended), target = SeatTurn(n) PROVE FALSE
      BY DEF Over
    <3>1. target = SeatTurn(Len(ended) + 1)
      BY <1>4, <2>2 DEF SeatsInv, InSequence, Seats!Current
    <3>2. Len(ended) \in Nat
      BY <1>2 DEF EngineTypes
    <3>3. n \in Nat \ {0} /\ Len(ended) + 1 \in Nat \ {0}
          /\ SeatTurn(n) = SeatTurn(Len(ended) + 1)
      BY <3>1, <3>2
    <3>4. n = Len(ended) + 1
      BY <3>3, TurnsDiffer
    <3> QED BY <3>2, <3>4
  <2>8. \A j \in DOMAIN asked : Over(asked[j])
    BY <1>1 DEF SeatsInv, AskedFor
  <2>9. Seats!EndsOnlyItsOwn'
    <3>1. ASSUME NEW i \in DOMAIN asked', NEW j \in DOMAIN asked', asked'[i] = asked'[j]
          PROVE  i = j
      BY <2>3, <2>7, <2>8, <3>1 DEF SeatsInv, AskedFor, Seats!EndsOnlyItsOwn
    <3> QED BY <1>1, <2>3, <3>1 DEF Seats!EndsOnlyItsOwn
  <2>10. AskedFor'
    BY <1>1, <1>4, <2>3, <2>5, <2>8, <2>9 DEF AskedFor
  <2> QED BY <2>4, <2>5, <2>6, <2>10 DEF SeatsInv
<1> QED BY <1>1, <1>3, <1>4

LEMMA HalvesAdd ==
  ASSUME NEW i \in Nat, NEW l \in Nat, NEW n \in Nat \ {0}, i % 2 = 0, (n - 1) % 2 = l % 2,
         1 + (n - 1) \div 2 = (1 + i \div 2) + l \div 2
  PROVE  i + l + 1 = n
<1>1. i = 2 * (i \div 2) + (i % 2)
  OBVIOUS
<1>2. l = 2 * (l \div 2) + (l % 2)
  OBVIOUS
<1>3. n - 1 = 2 * ((n - 1) \div 2) + ((n - 1) % 2)
  OBVIOUS
<1> QED BY <1>1, <1>2, <1>3

(* The turn is counted: it is the one after the last that was. *)
LEMMA DriverCompletes == SeatsInv /\ Seats!Complete => SeatsInv'
<1> SUFFICES ASSUME SeatsInv, Seats!Complete PROVE SeatsInv'
  OBVIOUS
<1>1. /\ pc = "release" /\ lease' \in {lease, Seats!None}
      /\ UNCHANGED <<engine, ended, asked, armed, target>>
      /\ \/ Seats!InOrder(target) /\ rows' = Append(rows, target) /\ pc' \in {"done", "engage"}
         \/ UNCHANGED rows /\ pc' = "failed"
  BY DEF Seats!Complete, Seats!Released, Seats!Fail
<1>2. EngineTypes
  BY DEF SeatsInv
<1>3. InSequence' /\ \A id : Over(id) <=> Over(id)'
  BY <1>1 DEF SeatsInv, InSequence, Over, Seats!Current
<1>4. Target' /\ AskedFor'
  BY <1>1, <1>3 DEF SeatsInv, Target, AskedFor, Seats!EndsOnlyItsOwn, Driven
<1>5. CASE UNCHANGED rows
  <2>1. EngineTypes' /\ Counted'
    BY <1>1, <1>2, <1>5 DEF SeatsInv, EngineTypes, Counted
  <2> QED BY <1>3, <1>4, <2>1 DEF SeatsInv
<1>6. CASE Seats!InOrder(target) /\ rows' = Append(rows, target)
  <2> DEFINE l == Len(rows)
  <2>1. PICK n \in 1 .. Len(ended) : target = SeatTurn(n)
    BY <1>1 DEF SeatsInv, Target, Over
  <2>2. n \in Nat \ {0} /\ l \in Nat /\ Len(ended) \in Nat
    BY <1>2 DEF EngineTypes
  <2>3. target \in [player : {0, 1}, turn : Nat]
    BY <2>1, <2>2, TurnsFollow
  <2>4. /\ rows' \in Seq([player : {0, 1}, turn : Nat]) /\ Len(rows') = l + 1
        /\ \A k \in 1 .. l : rows'[k] = rows[k]
        /\ rows'[l + 1] = target /\ DOMAIN rows' = 1 .. l + 1
    BY <1>2, <1>6, <2>3 DEF EngineTypes
  <2>5. /\ (n - 1) % 2 = l % 2
        /\ rows # <<>> => 1 + (n - 1) \div 2 = rows[1].turn + l \div 2
    BY <1>6, <2>1 DEF Seats!InOrder, Seats!ExpectedPlayer, Seats!FirstTurn, SeatTurn, Seats!Id
  <2> HIDE DEF l
  <2>6. PICK i \in Nat : /\ i % 2 = 0 /\ i + l + 1 = n
                         /\ \A k \in 1 .. l : rows[k] = SeatTurn(i + k)
    <3>1. CASE rows = <<>>
      <4>1. l = 0 /\ n - 1 \in Nat
        BY <2>2, <3>1 DEF l
      <4>2. (n - 1) % 2 = 0 /\ (n - 1) + l + 1 = n
        BY <2>2, <2>5, <4>1
      <4> QED BY <4>1, <4>2
    <3>2. CASE rows # <<>>
      <4>1. PICK i \in Nat : i % 2 = 0 /\ \A k \in 1 .. l : rows[k] = SeatTurn(i + k)
        <5>1. DOMAIN rows = 1 .. l
          BY <1>2 DEF EngineTypes, l
        <5> QED BY <5>1 DEF SeatsInv, Counted
      <4>2. l >= 1
        BY <1>2, <3>2 DEF EngineTypes, l
      <4>3. rows[1].turn = 1 + ((i + 1) - 1) \div 2
        <5>1. rows[1] = SeatTurn(i + 1)
          BY <2>2, <4>1, <4>2
        <5> QED BY <5>1 DEF SeatTurn, Seats!Id
      <4>4. rows[1].turn = 1 + i \div 2
        BY <4>1, <4>3
      <4>5. 1 + (n - 1) \div 2 = (1 + i \div 2) + l \div 2
        BY <2>5, <3>2, <4>4
      <4>6. i + l + 1 = n
        BY <2>2, <2>5, <4>1, <4>5, HalvesAdd
      <4> QED BY <4>1, <4>6
    <3> QED BY <3>1, <3>2
  <2>7. EngineTypes'
    BY <1>1, <1>2, <2>4 DEF EngineTypes
  <2>8. Counted'
    <3>1. i + (l + 1) <= Len(ended)
      BY <2>1, <2>2, <2>6
    <3>2. ASSUME NEW k \in 1 .. l + 1 PROVE rows'[k] = SeatTurn(i + k)
      <4>1. CASE k \in 1 .. l
        BY <2>4, <2>6, <4>1
      <4>2. CASE k = l + 1
        <5>1. i + k = n
          BY <2>2, <2>6, <4>2
        <5> QED BY <2>1, <2>4, <4>2, <5>1
      <4> QED BY <2>2, <4>1, <4>2
    <3> QED BY <1>1, <2>4, <2>6, <3>1, <3>2 DEF Counted
  <2> QED BY <1>3, <1>4, <2>7, <2>8 DEF SeatsInv
<1> QED BY <1>1, <1>5, <1>6

(* Every step of the driver and of the engine keeps the invariant. *)
LEMMA SeatsStep == SeatsInv /\ [Seats!Next]_(Seats!vars) => SeatsInv'
<1> SUFFICES ASSUME SeatsInv, [Seats!Next]_(Seats!vars) PROVE SeatsInv'
  OBVIOUS
<1>1. CASE UNCHANGED Seats!vars
  <2>1. UNCHANGED <<engine, lease, armed, pc, target, rows, ended, asked>>
    BY <1>1 DEF Seats!vars
  <2> QED BY <2>1 DEF SeatsInv, EngineTypes, InSequence, Target, Counted, AskedFor, Over,
                      Seats!EndsOnlyItsOwn, Seats!Current
<1> QED BY <1>1, SeatStarts, SeatEnds, EngineIdles, DriverMoves, DriverArms, DriverAttaches,
           DriverProbes, DriverBegins, DriverWaits, DriverAsks, DriverCompletes
        DEF Seats!Next, Seats!Engine, Seats!Driver, Seats!Sweep

(* A step of a behaviour is one of the hotseat's or leaves it alone. *)
LEMMA SeatsOnly == [MCNext]_<<which, fileVars, gameVars>> => [Seats!Next]_(Seats!vars)
BY DEF MCNext, FilesNext, GameNext, fileVars, gameVars, seatVars, Seats!vars

(* The counted turns are a stretch of those that are over. *)
LEMMA LedgerCounts == SeatsInv => Seats!LedgerIsWhatHappened
<1> SUFFICES ASSUME SeatsInv PROVE Seats!LedgerIsWhatHappened
  OBVIOUS
<1>1. PICK i \in Nat : /\ i + Len(rows) <= Len(ended)
                       /\ \A k \in DOMAIN rows : rows[k] = SeatTurn(i + k)
  BY DEF SeatsInv, Counted
<1>2. /\ Len(rows) \in Nat /\ Len(ended) \in Nat /\ DOMAIN rows = 1 .. Len(rows)
      /\ DOMAIN ended = 1 .. Len(ended)
  BY DEF SeatsInv, EngineTypes
<1>3. i \in 0 .. Len(ended) /\ \A k \in DOMAIN rows : i + k \in DOMAIN ended
  BY <1>1, <1>2
<1>4. \A k \in DOMAIN rows : ended[i + k] = rows[k]
  BY <1>1, <1>3 DEF SeatsInv, InSequence
<1> QED BY <1>3, <1>4 DEF Seats!LedgerIsWhatHappened, Seats!Consecutive

(* Hotseat: the completed turns are consecutive seat turns of the engine that it has ended, *)
(* and a turn is asked to end at most once, while it is the one being driven                *)
(* (CompletedTurns, wait_release, end_phase).                                               *)
THEOREM HandoffKeepsItsLedger ==
  MCSpec => [](Seats!LedgerIsWhatHappened /\ Seats!EndsOnlyItsOwn)
<1>1. SeatsInv => Seats!LedgerIsWhatHappened /\ Seats!EndsOnlyItsOwn
  BY LedgerCounts DEF SeatsInv, AskedFor
<1> QED BY <1>1, SeatsStart, SeatsStep, SeatsOnly, PTL DEF MCSpec

-----------------------------------------------------------------------------
(* The production orders. *)

Item == {"unit", "building", "district", "project"}
Site == {Nothing, "near", "far"}
CityOrder == [id : Nat, item : Item, dest : Site]
CityState == [item : Item \cup {Nothing}, plot : Site, mine : BOOLEAN]
BuildScript == [order : CityOrder, copy : Nat, what : {"order", "read"}]

Fits(c, o) == c.item = o.item /\ c.plot = o.dest
Regular(c) == c.item \notin Build!Placed => c.plot = Nothing
Ordered(s) == s.what = "order"
NoOrders == \A k \in DOMAIN scripts : ~Ordered(scripts[k])
Single(o) == \A c, d \in copies : c.order = o /\ d.order = o => c = d
Busy == {"lock", "send", "answer", "verify", "reading"}

BuildTypes ==
  /\ buildPc \in Busy \cup {"idle", "over"} /\ order \in CityOrder /\ copy \in Nat
  /\ city \in CityState /\ Regular(city)
  /\ requests \in Seq(CityOrder) /\ scripts \in Seq(BuildScript)
  /\ reply.copy \in 0 .. copy
  /\ reply.row = "state" => reply.city \in CityState /\ Regular(reply.city)
  /\ copies \subseteq [order : CityOrder, copy : 1 .. copy] /\ IsFiniteSet(copies)
  /\ requested \subseteq CityOrder

(* Nothing is known of an order that is still to come. *)
KnownOrders ==
  /\ \A c \in copies : c.order.id <= order.id
  /\ \A o \in requested : o.id <= order.id
  /\ \A r \in results : r.order.id \in 0 .. order.id
  /\ \A c, d \in copies : c.copy = d.copy => c = d
  /\ \A i \in DOMAIN requests : requests[i] \in requested /\ Build!Shape(requests[i])

(* What the game has still to run: orders only while one is being sent, all   *)
(* of them copies of it, and the last one sent is the last.                   *)
ToRun ==
  /\ \A k \in DOMAIN scripts : scripts[k].copy <= copy
  /\ \A k \in DOMAIN scripts : Ordered(scripts[k]) =>
       /\ scripts[k].order = order /\ Build!Shape(order)
       /\ [order |-> order, copy |-> scripts[k].copy] \in copies
       /\ buildPc \in {"send", "answer", "over"}
       /\ \A j \in DOMAIN scripts :
            Ordered(scripts[j]) /\ scripts[j].copy = scripts[k].copy => j = k
  /\ buildPc = "answer" =>
       \/ NoOrders
       \/ \E k \in DOMAIN scripts :
            /\ Ordered(scripts[k]) /\ reply.copy # copy
            /\ \A j \in DOMAIN scripts : /\ scripts[j].copy = copy => j = k
                                         /\ Ordered(scripts[j]) => j <= k

UnderWay ==
  /\ buildPc = "lock" => /\ Build!Typed(order)
                         /\ \A c \in copies : c.order # order
  /\ buildPc = "send" => ~Build!Typed(order)
  /\ buildPc \in Busy => Build!Shape(order) /\ \A r \in results : r.order # order
  /\ buildPc \in {"answer", "verify", "reading"} => [order |-> order, copy |-> copy] \in copies
  /\ buildPc \in {"verify", "reading"} => order \in requested
  /\ buildPc = "reading" => reply.copy = 0 \/ reply.row \in {"state", "gone"}
  /\ \A c \in copies : Build!Typed(c.order) => Single(c.order)

(* What was taken down was taken down by a copy that has been run and was not *)
(* refused.                                                                   *)
TakenDown ==
  /\ \A o \in requested : \E c \in copies :
       /\ c.order = o
       /\ \A k \in DOMAIN scripts : Ordered(scripts[k]) => scripts[k].copy # c.copy
       /\ ~(reply.copy = c.copy /\ reply.row \in {"ERR", "LuaError"})
  /\ reply.row = "OK" => \E c \in copies : c.copy = reply.copy /\ c.order \in requested

Judged ==
  \A r \in results :
    /\ r.status = "accepted" => r.order \in requested /\ Fits(r.read, r.order)
    /\ r.status = "rejected" /\ Single(r.order) =>
         /\ r.order \notin requested
         /\ \A k \in DOMAIN scripts : Ordered(scripts[k]) => scripts[k].order # r.order

(* The requests that are still to be carried out are first those the city     *)
(* already builds and then those of the last order.                           *)
InTheCity ==
  ~Build!Misanswered =>
    /\ \E m \in 0 .. Len(requests) :
          /\ \A i \in 1 .. m : Fits(city, requests[i])
          /\ \A i \in m + 1 .. Len(requests) : requests[i] = order
    /\ buildPc = "reading" /\ reply.row = "state" /\ Fits(reply.city, order) => Fits(city, order)
    /\ buildPc = "idle" => \A i \in DOMAIN requests : Fits(city, requests[i])
    /\ \A r \in results : r.status = "accepted" /\ r.order = order => Fits(city, order)

BuildInv == BuildTypes /\ KnownOrders /\ ToRun /\ UnderWay /\ TakenDown /\ Judged /\ InTheCity

(* Nothing has been ordered. *)
LEMMA BuildStarts == MCInit => BuildInv
<1> SUFFICES ASSUME MCInit PROVE BuildInv
  OBVIOUS
<1>1. Build!Init
  BY DEF MCInit
<1>2. /\ city \in [item : {Nothing, "unit"}, plot : {Nothing}, mine : {TRUE}]
      /\ requests = <<>> /\ scripts = <<>> /\ reply.copy = 0 /\ reply.row = "none"
      /\ buildPc = "idle" /\ order = [id |-> 0, item |-> "unit", dest |-> Nothing] /\ copy = 0
      /\ copies = {} /\ requested = {} /\ results = {}
  BY <1>1 DEF Build!Init, Build!NoReply, Build!NoOrder
<1>3. BuildTypes
  <2>1. city \in CityState /\ Regular(city) /\ order \in CityOrder
    BY <1>2 DEF CityState, Item, Site, Regular, CityOrder
  <2>2. IsFiniteSet(copies)
    BY <1>2, FS_EmptySet
  <2> QED BY <1>2, <2>1, <2>2 DEF BuildTypes, Busy
<1>4. KnownOrders /\ ToRun /\ UnderWay /\ TakenDown /\ Judged
  BY <1>2 DEF KnownOrders, ToRun, UnderWay, TakenDown, Judged, Busy
<1>5. InTheCity
  BY <1>2 DEF InTheCity
<1> QED BY <1>3, <1>4, <1>5 DEF BuildInv

(* The city changes hands. *)
LEMMA BuildCityLost == BuildInv /\ Build!CityLost => BuildInv'
<1> SUFFICES ASSUME BuildInv, Build!CityLost PROVE BuildInv'
  OBVIOUS
<1>1. /\ city' = [city EXCEPT !.mine = FALSE]
      /\ UNCHANGED <<requests, scripts, reply, buildPc, order, copy, copies, requested, results>>
  BY DEF Build!CityLost, Build!historyVars
<1>2. city \in CityState /\ Regular(city)
  BY DEF BuildInv, BuildTypes
<1>3. /\ city' \in CityState /\ Regular(city') /\ city'.item = city.item
      /\ city'.plot = city.plot
  BY <1>1, <1>2 DEF CityState, Regular
<1>4. \A o : Fits(city', o) <=> Fits(city, o)
  BY <1>3 DEF Fits
<1>5. BuildTypes'
  BY <1>1, <1>3 DEF BuildInv, BuildTypes
<1>6. KnownOrders' /\ ToRun' /\ UnderWay' /\ TakenDown' /\ Judged'
  BY <1>1 DEF BuildInv, KnownOrders, ToRun, NoOrders, UnderWay, Single, TakenDown, Judged
<1>7. InTheCity'
  BY <1>1, <1>4 DEF BuildInv, InTheCity, Build!Misanswered
<1> QED BY <1>5, <1>6, <1>7 DEF BuildInv

(* Another command makes a new socket. *)
LEMMA BuildReconnects == BuildInv /\ Build!Reconnects => BuildInv'
<1> SUFFICES ASSUME BuildInv, Build!Reconnects PROVE BuildInv'
  OBVIOUS
<1>1. UNCHANGED <<city, requests, scripts, reply, buildPc, order, copy, copies, requested, results>>
  BY DEF Build!Reconnects, Build!historyVars, Build!gameVars
<1> QED BY <1>1 DEF BuildInv, BuildTypes, KnownOrders, ToRun, NoOrders, UnderWay, Single,
                    TakenDown, Judged, InTheCity, Build!Misanswered

(* The city is read again. *)
LEMMA BuildReadBack == BuildInv /\ Build!ReadBack => BuildInv'
<1> SUFFICES ASSUME BuildInv, Build!ReadBack PROVE BuildInv'
  OBVIOUS
<1> DEFINE x == [order |-> order, copy |-> copy, what |-> "read"]
<1>1. /\ buildPc = "verify" /\ buildPc' = "reading"
      /\ reply' = [copy |-> 0, row |-> "none", city |-> Nothing]
      /\ scripts' = Append(scripts, x)
      /\ UNCHANGED <<city, requests, order, copy, copies, requested, results>>
  BY DEF Build!ReadBack, Build!historyVars, Build!NoReply
<1>2. BuildTypes
  BY DEF BuildInv
<1>3. x \in BuildScript /\ scripts \in Seq(BuildScript)
  BY <1>2 DEF BuildTypes, BuildScript
<1>4. /\ scripts' \in Seq(BuildScript)
      /\ \A k \in DOMAIN scripts : k \in DOMAIN scripts' /\ scripts'[k] = scripts[k]
      /\ \A k \in DOMAIN scripts' : k \in DOMAIN scripts \/ scripts'[k] = x
      /\ ~Ordered(x) /\ x.copy = copy
  BY <1>1, <1>3 DEF Ordered
<1> HIDE DEF x
<1>5. BuildTypes'
  BY <1>1, <1>2, <1>4 DEF BuildTypes, Busy
<1>6. KnownOrders' /\ Judged'
  BY <1>1, <1>4 DEF BuildInv, KnownOrders, Judged, Single
<1>7. ToRun'
  BY <1>1, <1>2, <1>4 DEF BuildInv, BuildTypes, ToRun
<1>8. UnderWay'
  BY <1>1 DEF BuildInv, UnderWay, Single, Busy
<1>9. TakenDown'
  BY <1>1, <1>4 DEF BuildInv, TakenDown
<1>10. InTheCity'
  BY <1>1 DEF BuildInv, InTheCity, Build!Misanswered
<1> QED BY <1>5, <1>6, <1>7, <1>8, <1>9, <1>10 DEF BuildInv

(* An order whose outcome is unknown ends the match; nothing is said about it. *)
LEMMA BuildGivesUp ==
  ASSUME BuildInv, buildPc \in Busy, Build!Answer("unclear"),
         UNCHANGED <<city, requests, scripts, reply, order, copy, copies, requested>>
  PROVE  BuildInv'
<1> DEFINE new == [order |-> order, status |-> "unclear", read |-> reply.city]
<1>1. results' = results \cup {new} /\ buildPc' = "over"
  BY DEF Build!Answer
<1>2. new.order = order /\ new.status = "unclear"
  OBVIOUS
<1> HIDE DEF new
<1>3. BuildTypes'
  BY <1>1 DEF BuildInv, BuildTypes
<1>4. order.id \in Nat
  BY DEF BuildInv, BuildTypes, CityOrder
<1>5. KnownOrders'
  BY <1>1, <1>2, <1>4 DEF BuildInv, KnownOrders
<1>6. ToRun'
  BY <1>1 DEF BuildInv, ToRun
<1>7. UnderWay' /\ TakenDown'
  BY <1>1 DEF BuildInv, UnderWay, TakenDown, Busy, Single
<1>8. Judged'
  BY <1>1, <1>2 DEF BuildInv, Judged, Single
<1>9. InTheCity'
  BY <1>1, <1>2 DEF BuildInv, InTheCity, Build!Misanswered
<1> QED BY <1>3, <1>5, <1>6, <1>7, <1>8, <1>9 DEF BuildInv

(* Time is up before the readback matches. *)
LEMMA BuildTimeIsUp == BuildInv /\ Build!TimeIsUp => BuildInv'
BY BuildGivesUp DEF Build!TimeIsUp, Build!gameVars, Busy

(* The game's answer: an order that was refused and sent once was not taken down. *)
LEMMA BuildVerdict == BuildInv /\ Build!Verdict => BuildInv'
<1> SUFFICES ASSUME BuildInv, Build!Verdict PROVE BuildInv'
  OBVIOUS
<1>1. /\ buildPc = "answer" /\ reply.copy = copy
      /\ UNCHANGED <<city, requests, scripts, reply, order, copy, copies, requested>>
      /\ \/ reply.row = "OK" /\ buildPc' = "verify" /\ UNCHANGED results
         \/ reply.row = "ERR" /\ Build!Answer("rejected")
         \/ Build!Answer("unclear")
  BY DEF Build!Verdict, Build!gameVars, Build!Answered
<1>2. NoOrders
  BY <1>1 DEF BuildInv, ToRun
<1>3. \A c \in copies : c.copy = copy => c.order = order
  <2>1. [order |-> order, copy |-> copy] \in copies
    BY <1>1 DEF BuildInv, UnderWay
  <2> QED BY <2>1 DEF BuildInv, KnownOrders
<1>4. CASE reply.row = "OK" /\ buildPc' = "verify" /\ UNCHANGED results
  <2>1. order \in requested
    BY <1>1, <1>3, <1>4 DEF BuildInv, TakenDown
  <2>2. BuildTypes' /\ KnownOrders' /\ TakenDown' /\ Judged' /\ InTheCity'
    BY <1>1, <1>4 DEF BuildInv, BuildTypes, KnownOrders, TakenDown, Judged, InTheCity, Single,
                      Busy, Build!Misanswered
  <2>3. ToRun'
    BY <1>1, <1>2, <1>4 DEF BuildInv, ToRun, NoOrders
  <2>4. UnderWay'
    BY <1>1, <1>4, <2>1 DEF BuildInv, UnderWay, Busy, Single
  <2> QED BY <2>2, <2>3, <2>4 DEF BuildInv
<1>5. CASE reply.row = "ERR" /\ Build!Answer("rejected")
  <2> DEFINE new == [order |-> order, status |-> "rejected", read |-> reply.city]
  <2>1. results' = results \cup {new} /\ buildPc' = "idle"
    BY <1>5 DEF Build!Answer
  <2>2. new.order = order /\ new.status = "rejected"
    OBVIOUS
  <2> HIDE DEF new
  <2>3. order.id \in Nat
    BY DEF BuildInv, BuildTypes, CityOrder
  <2>4. BuildTypes' /\ KnownOrders'
    BY <1>1, <2>1, <2>2, <2>3 DEF BuildInv, BuildTypes, KnownOrders
  <2>5. ToRun' /\ UnderWay' /\ TakenDown'
    BY <1>1, <1>2, <2>1 DEF BuildInv, ToRun, NoOrders, UnderWay, TakenDown, Busy, Single
  <2>6. Judged'
    <3>1. Single(order) => order \notin requested
      <4>1. [order |-> order, copy |-> copy] \in copies
        BY <1>1 DEF BuildInv, UnderWay
      <4> QED BY <1>1, <1>5, <4>1 DEF BuildInv, TakenDown, Single
    <3> QED BY <1>1, <1>2, <2>1, <2>2, <3>1 DEF BuildInv, Judged, NoOrders, Single
  <2>7. InTheCity'
    <3>1. SUFFICES ASSUME ~Build!Misanswered' PROVE InTheCity'
      BY DEF InTheCity
    <3>2. ~Build!Misanswered /\ order \notin requested
      BY <1>1, <2>1, <2>2, <3>1 DEF Build!Misanswered
    <3>3. \A i \in DOMAIN requests : requests[i] # order
      BY <3>2 DEF BuildInv, KnownOrders
    <3>4. requests \in Seq(CityOrder)
      BY DEF BuildInv, BuildTypes
    <3>5. \A i \in DOMAIN requests : Fits(city, requests[i])
      BY <3>2, <3>3, <3>4 DEF BuildInv, InTheCity
    <3>6. \A r \in results : r.order # order
      BY <1>1 DEF BuildInv, UnderWay, Busy
    <3> QED BY <1>1, <2>1, <2>2, <3>4, <3>5, <3>6 DEF InTheCity
  <2> QED BY <2>4, <2>5, <2>6, <2>7 DEF BuildInv
<1>6. CASE Build!Answer("unclear")
  BY <1>1, <1>6, BuildGivesUp DEF Busy
<1> QED BY <1>1, <1>4, <1>5, <1>6

(* The answer is lost: only an ordinary order is sent again. *)
LEMMA BuildLost == BuildInv /\ Build!Lost => BuildInv'
<1> SUFFICES ASSUME BuildInv, Build!Lost PROVE BuildInv'
  OBVIOUS
<1>1. /\ buildPc = "answer"
      /\ UNCHANGED <<city, requests, scripts, reply, order, copy, copies, requested>>
      /\ \/ ~Build!Typed(order) /\ buildPc' = "send" /\ UNCHANGED results
         \/ Build!Answer("unclear")
  BY DEF Build!Lost, Build!gameVars, Build!MayRepeat
<1>2. CASE ~Build!Typed(order) /\ buildPc' = "send" /\ UNCHANGED results
  <2>1. BuildTypes' /\ KnownOrders' /\ ToRun' /\ TakenDown' /\ Judged' /\ InTheCity'
    BY <1>1, <1>2 DEF BuildInv, BuildTypes, KnownOrders, ToRun, TakenDown, Judged, InTheCity,
                      Single, Busy, Build!Misanswered
  <2>2. UnderWay'
    BY <1>1, <1>2 DEF BuildInv, UnderWay, Busy, Single
  <2> QED BY <2>1, <2>2 DEF BuildInv
<1>3. CASE Build!Answer("unclear")
  BY <1>1, <1>3, BuildGivesUp DEF Busy
<1> QED BY <1>1, <1>2, <1>3

(* The readback: what matches is there because of this order, as no other request is left. *)
LEMMA BuildRead == BuildInv /\ Build!Read => BuildInv'
<1> SUFFICES ASSUME BuildInv, Build!Read PROVE BuildInv'
  OBVIOUS
<1>1. /\ buildPc = "reading" /\ reply.copy = copy
      /\ UNCHANGED <<city, requests, scripts, reply, order, copy, copies, requested>>
      /\ \/ Build!Answer("unclear")
         \/ reply.row # "gone" /\ Build!Matches(order, reply.city) /\ Build!Answer("accepted")
         \/ buildPc' = "verify" /\ UNCHANGED results
  BY DEF Build!Read, Build!gameVars, Build!Answered
<1>2. CASE Build!Answer("unclear")
  BY <1>1, <1>2, BuildGivesUp DEF Busy
<1>3. CASE buildPc' = "verify" /\ UNCHANGED results
  <2>1. BuildTypes' /\ KnownOrders' /\ ToRun' /\ TakenDown' /\ Judged' /\ InTheCity'
    BY <1>1, <1>3 DEF BuildInv, BuildTypes, KnownOrders, ToRun, TakenDown, Judged, InTheCity,
                      Single, Busy, Build!Misanswered
  <2>2. UnderWay'
    BY <1>1, <1>3 DEF BuildInv, UnderWay, Busy, Single
  <2> QED BY <2>1, <2>2 DEF BuildInv
<1>4. CASE reply.row # "gone" /\ Build!Matches(order, reply.city) /\ Build!Answer("accepted")
  <2> DEFINE new == [order |-> order, status |-> "accepted", read |-> reply.city]
  <2>1. results' = results \cup {new} /\ buildPc' = "idle"
    BY <1>4 DEF Build!Answer
  <2>2. new.order = order /\ new.status = "accepted" /\ new.read = reply.city
    OBVIOUS
  <2> HIDE DEF new
  <2>3. order.id \in Nat
    BY DEF BuildInv, BuildTypes, CityOrder
  <2>4. reply.row = "state"
    <3>1. [order |-> order, copy |-> copy] \in copies
      BY <1>1 DEF BuildInv, UnderWay
    <3>2. copy # 0
      BY <3>1 DEF BuildInv, BuildTypes
    <3> QED BY <1>1, <1>4, <3>2 DEF BuildInv, UnderWay
  <2>5. Fits(reply.city, order)
    <3>1. Regular(reply.city) /\ Build!Shape(order)
      BY <1>1, <2>4 DEF BuildInv, BuildTypes, UnderWay, Busy
    <3> QED BY <1>4, <3>1 DEF Regular, Build!Shape, Build!Matches, Fits
  <2>6. BuildTypes' /\ KnownOrders'
    BY <1>1, <2>1, <2>2, <2>3 DEF BuildInv, BuildTypes, KnownOrders
  <2>7. ToRun' /\ UnderWay' /\ TakenDown'
    BY <1>1, <2>1 DEF BuildInv, ToRun, NoOrders, UnderWay, TakenDown, Busy, Single
  <2>8. Judged'
    <3>1. order \in requested
      BY <1>1 DEF BuildInv, UnderWay
    <3> QED BY <1>1, <2>1, <2>2, <2>5, <3>1 DEF BuildInv, Judged, Single
  <2>9. InTheCity'
    <3>1. SUFFICES ASSUME ~Build!Misanswered' PROVE InTheCity'
      BY DEF InTheCity
    <3>2. ~Build!Misanswered
      BY <1>1, <2>1, <3>1 DEF Build!Misanswered
    <3>3. requests \in Seq(CityOrder)
      BY DEF BuildInv, BuildTypes
    <3>4. Fits(city, order)
      BY <1>1, <2>4, <2>5, <3>2 DEF BuildInv, InTheCity
    <3>5. \A i \in DOMAIN requests : Fits(city, requests[i])
      BY <3>2, <3>3, <3>4 DEF BuildInv, InTheCity
    <3> QED BY <1>1, <2>1, <3>3, <3>4, <3>5 DEF InTheCity
  <2> QED BY <2>6, <2>7, <2>8, <2>9 DEF BuildInv
<1> QED BY <1>1, <1>2, <1>3, <1>4

(* A copy goes out, behind those of the same order the game has still to run. *)
LEMMA BuildSends ==
  ASSUME BuildInv, buildPc \in {"lock", "send"}, Build!SendOrder,
         UNCHANGED <<city, requests, reply, order, requested, results>>
  PROVE  BuildInv'
<1> DEFINE x == [order |-> order, copy |-> copy + 1, what |-> "order"]
           c0 == [order |-> order, copy |-> copy + 1]
<1>1. /\ copy' = copy + 1 /\ buildPc' = "answer"
      /\ scripts' = Append(scripts, x) /\ copies' = copies \cup {c0}
  BY DEF Build!SendOrder
<1>2. BuildTypes
  BY DEF BuildInv
<1>3. copy \in Nat /\ x \in BuildScript /\ scripts \in Seq(BuildScript)
  BY <1>2 DEF BuildTypes, BuildScript
<1>4. /\ scripts' \in Seq(BuildScript) /\ Len(scripts') = Len(scripts) + 1
      /\ \A k \in DOMAIN scripts : k \in DOMAIN scripts' /\ scripts'[k] = scripts[k]
      /\ \A k \in DOMAIN scripts' : k \in DOMAIN scripts \/ k = Len(scripts')
      /\ Len(scripts') \in DOMAIN scripts' /\ scripts'[Len(scripts')] = x
      /\ \A k \in DOMAIN scripts' : k <= Len(scripts')
      /\ Ordered(x) /\ x.copy = copy' /\ x.order = order
  BY <1>1, <1>3 DEF Ordered
<1>5. c0 = [order |-> order, copy |-> copy'] /\ c0.order = order /\ c0.copy = copy'
  BY <1>1
<1>6. \A c \in copies : c.copy \in 1 .. copy
  BY <1>2 DEF BuildTypes
<1>7. reply.copy \in 0 .. copy
  BY <1>2 DEF BuildTypes
<1> HIDE DEF x, c0
<1>8. BuildTypes'
  <2>1. IsFiniteSet(copies')
    BY <1>1, <1>2, FS_AddElement DEF BuildTypes
  <2>2. copies' \subseteq [order : CityOrder, copy : 1 .. copy']
    BY <1>1, <1>2, <1>3, <1>5 DEF BuildTypes
  <2>3. reply.copy \in 0 .. copy'
    BY <1>1, <1>3, <1>7
  <2> QED BY <1>1, <1>2, <1>3, <1>4, <2>1, <2>2, <2>3 DEF BuildTypes, Busy
<1>9. KnownOrders'
  <2>1. order.id \in Nat
    BY <1>2 DEF BuildTypes, CityOrder
  <2>2. \A c \in copies : c.copy # copy'
    BY <1>1, <1>3, <1>6
  <2> QED BY <1>1, <1>5, <2>1, <2>2 DEF BuildInv, KnownOrders
<1>10. \A k \in DOMAIN scripts : scripts[k].copy \in 0 .. copy
  <2> SUFFICES ASSUME NEW k \in DOMAIN scripts PROVE scripts[k].copy \in 0 .. copy
    OBVIOUS
  <2>1. scripts[k] \in BuildScript
    BY <1>3
  <2>2. scripts[k].copy \in Nat
    BY <2>1 DEF BuildScript
  <2>3. scripts[k].copy <= copy
    BY DEF BuildInv, ToRun
  <2> QED BY <1>3, <2>2, <2>3
<1>11. ToRun'
  <2>1. Build!Shape(order)
    BY DEF BuildInv, UnderWay, Busy
  <2>2. \A k \in DOMAIN scripts' : scripts'[k].copy <= copy'
    BY <1>1, <1>3, <1>4, <1>10
  <2>3. \A k \in DOMAIN scripts : scripts[k].copy # copy'
    BY <1>1, <1>3, <1>10
  <2>4. ASSUME NEW k \in DOMAIN scripts', Ordered(scripts'[k])
        PROVE  /\ scripts'[k].order = order
               /\ [order |-> order, copy |-> scripts'[k].copy] \in copies'
               /\ \A j \in DOMAIN scripts' :
                    Ordered(scripts'[j]) /\ scripts'[j].copy = scripts'[k].copy => j = k
    <3>1. CASE k = Len(scripts')
      BY <1>1, <1>4, <1>5, <2>3, <3>1
    <3>2. CASE k \in DOMAIN scripts
      BY <1>1, <1>4, <2>3, <2>4, <3>2 DEF BuildInv, ToRun
    <3> QED BY <1>4, <3>1, <3>2
  <2>5. reply.copy # copy'
    BY <1>1, <1>3, <1>7
  <2>6. \E k \in DOMAIN scripts' :
            /\ Ordered(scripts'[k]) /\ reply.copy # copy'
            /\ \A j \in DOMAIN scripts' : /\ scripts'[j].copy = copy' => j = k
                                          /\ Ordered(scripts'[j]) => j <= k
    BY <1>4, <2>3, <2>5
  <2> QED BY <1>1, <2>1, <2>2, <2>4, <2>6 DEF ToRun
<1>12. UnderWay'
  <2>1. [order |-> order, copy |-> copy'] \in copies'
    BY <1>1, <1>5
  <2>2. ASSUME NEW c \in copies', Build!Typed(c.order) PROVE Single(c.order)'
    <3>1. CASE c.order = order
      BY <1>1, <1>5, <2>2, <3>1 DEF BuildInv, UnderWay, Single
    <3>2. CASE c.order # order
      BY <1>1, <1>5, <2>2, <3>2 DEF BuildInv, UnderWay, Single
    <3> QED BY <3>1, <3>2
  <2>3. Build!Shape(order) /\ \A r \in results : r.order # order
    BY DEF BuildInv, UnderWay, Busy
  <2> QED BY <1>1, <2>1, <2>2, <2>3 DEF UnderWay
<1>13. TakenDown'
  <2>1. ASSUME NEW o \in requested
        PROVE  \E c \in copies' :
                 /\ c.order = o
                 /\ \A k \in DOMAIN scripts' : Ordered(scripts'[k]) => scripts'[k].copy # c.copy
                 /\ ~(reply.copy = c.copy /\ reply.row \in {"ERR", "LuaError"})
    <3>1. PICK c \in copies :
                 /\ c.order = o
                 /\ \A k \in DOMAIN scripts : Ordered(scripts[k]) => scripts[k].copy # c.copy
                 /\ ~(reply.copy = c.copy /\ reply.row \in {"ERR", "LuaError"})
      BY DEF BuildInv, TakenDown
    <3>2. c.copy # copy'
      BY <1>1, <1>3, <1>6
    <3> QED BY <1>1, <1>4, <3>1, <3>2
  <2> QED BY <1>1, <2>1 DEF BuildInv, TakenDown
<1>14. Judged'
  <2>1. \A r \in results : r.order # order
    BY DEF BuildInv, UnderWay, Busy
  <2>2. ASSUME NEW r \in results, r.status = "rejected", Single(r.order)'
        PROVE  /\ r.order \notin requested
               /\ \A k \in DOMAIN scripts' : Ordered(scripts'[k]) => scripts'[k].order # r.order
    <3>1. Single(r.order)
      BY <1>1, <2>2 DEF Single
    <3> QED BY <1>4, <2>1, <2>2, <3>1 DEF BuildInv, Judged
  <2> QED BY <2>2 DEF BuildInv, Judged
<1>15. InTheCity'
  BY <1>1 DEF BuildInv, InTheCity, Build!Misanswered
<1> QED BY <1>8, <1>9, <1>11, <1>12, <1>13, <1>14, <1>15 DEF BuildInv

(* An ordinary order is sent; a district or a project is if the connection stayed. *)
LEMMA BuildExecutes == BuildInv /\ (Build!Execute \/ Build!ExecuteOnce) => BuildInv'
<1>1. ASSUME BuildInv, Build!Execute PROVE BuildInv'
  BY <1>1, BuildSends DEF Build!Execute
<1>2. ASSUME BuildInv, Build!ExecuteOnce PROVE BuildInv'
  <2>1. CASE Build!SendOrder /\ UNCHANGED results
    BY <1>2, <2>1, BuildSends DEF Build!ExecuteOnce
  <2>2. CASE Build!Answer("unclear") /\ UNCHANGED <<scripts, copy, copies>>
    <3>1. buildPc \in Busy
      BY <1>2 DEF Build!ExecuteOnce, Busy
    <3>2. UNCHANGED <<city, requests, scripts, reply, order, copy, copies, requested>>
      BY <1>2, <2>2 DEF Build!ExecuteOnce
    <3> QED BY <1>2, <2>2, <3>1, <3>2, BuildGivesUp
  <2> QED BY <1>2, <2>1, <2>2 DEF Build!ExecuteOnce
<1> QED BY <1>1, <1>2

(* A new order: nothing is known of it, and no request but those the city follows is left. *)
LEMMA BuildActs == BuildInv /\ Build!Act => BuildInv'
<1> SUFFICES ASSUME BuildInv, Build!Act PROVE BuildInv'
  OBVIOUS
<1>1. PICK o \in Build!Orders(order.id + 1) :
        /\ order' = o
        /\ IF Build!Shape(o)
           THEN buildPc' = (IF Build!Typed(o) THEN "lock" ELSE "send") /\ UNCHANGED results
           ELSE buildPc' = "idle" /\ results' = results \cup
                  {[order |-> o, status |-> "rejected", read |-> Nothing]}
  BY DEF Build!Act
<1>2. /\ buildPc = "idle"
      /\ UNCHANGED <<city, requests, scripts, reply, copy, copies, requested>>
  BY DEF Build!Act, Build!gameVars
<1>3. order.id \in Nat
  BY DEF BuildInv, BuildTypes, CityOrder
<1>4. o \in CityOrder /\ o.id = order.id + 1
  BY <1>3 DEF Build!Orders, Build!Ordinary, Build!Placed, CityOrder, Item, Site
<1>5. /\ \A c \in copies : c.order # o
      /\ o \notin requested
      /\ \A r \in results : r.order # o
  <2>1. /\ \A c \in copies : c.order.id <= order.id
        /\ \A p \in requested : p.id <= order.id
        /\ \A r \in results : r.order.id \in 0 .. order.id
    BY DEF BuildInv, KnownOrders
  <2> QED BY <1>3, <1>4, <2>1
<1>6. /\ \A r \in results' : \/ r \in results
                             \/ r.order = o /\ r.status = "rejected"
      /\ results \subseteq results'
  BY <1>1
<1>7. NoOrders
  BY <1>2 DEF BuildInv, ToRun, NoOrders
<1>8. BuildTypes'
  BY <1>1, <1>2, <1>4 DEF BuildInv, BuildTypes, Busy
<1>9. KnownOrders'
  <2>1. \A c \in copies : c.order.id <= o.id
    <3> SUFFICES ASSUME NEW c \in copies PROVE c.order.id <= o.id
      OBVIOUS
    <3>1. c.order.id <= order.id /\ c.order.id \in Nat
      BY DEF BuildInv, KnownOrders, BuildTypes, CityOrder
    <3> QED BY <1>3, <1>4, <3>1
  <2>2. \A p \in requested : p.id <= o.id
    <3> SUFFICES ASSUME NEW p \in requested PROVE p.id <= o.id
      OBVIOUS
    <3>1. p.id <= order.id /\ p.id \in Nat
      BY DEF BuildInv, KnownOrders, BuildTypes, CityOrder
    <3> QED BY <1>3, <1>4, <3>1
  <2>3. \A r \in results' : r.order.id \in 0 .. o.id
    <3>1. \A r \in results : r.order.id \in 0 .. order.id
      BY DEF BuildInv, KnownOrders
    <3>2. \A r \in results : r.order.id \in 0 .. o.id
      BY <1>3, <1>4, <3>1
    <3>3. o.id \in 0 .. o.id
      BY <1>3, <1>4
    <3> QED BY <1>6, <3>2, <3>3
  <2> QED BY <1>1, <1>2, <2>1, <2>2, <2>3 DEF BuildInv, KnownOrders
<1>10. ToRun'
  BY <1>1, <1>2, <1>7 DEF BuildInv, ToRun, NoOrders
<1>11. UnderWay'
  BY <1>1, <1>2, <1>5 DEF BuildInv, UnderWay, Busy, Single
<1>12. TakenDown'
  BY <1>2 DEF BuildInv, TakenDown
<1>13. Judged'
  BY <1>2, <1>5, <1>6, <1>7 DEF BuildInv, Judged, NoOrders, Single
<1>14. InTheCity'
  <2>1. SUFFICES ASSUME ~Build!Misanswered' PROVE InTheCity'
    BY DEF InTheCity
  <2>2. ~Build!Misanswered
    BY <1>2, <1>6, <2>1 DEF Build!Misanswered
  <2>3. requests \in Seq(CityOrder)
    BY DEF BuildInv, BuildTypes
  <2>4. \A i \in DOMAIN requests : Fits(city, requests[i])
    BY <1>2, <2>2 DEF BuildInv, InTheCity
  <2>5. \A r \in results' : ~(r.status = "accepted" /\ r.order = order')
    BY <1>1, <1>5, <1>6
  <2>6. buildPc' # "reading"
    BY <1>1
  <2>7. Len(requests) \in 0 .. Len(requests)
    BY <2>3
  <2> QED BY <1>2, <2>3, <2>4, <2>5, <2>6, <2>7 DEF InTheCity
<1> QED BY <1>8, <1>9, <1>10, <1>11, <1>12, <1>13, <1>14 DEF BuildInv

(* The first script is run: what is left to run. *)
LEMMA BuildTail ==
  ASSUME BuildInv, scripts # <<>>, scripts' = Tail(scripts),
         reply'.copy = scripts[1].copy, UNCHANGED <<buildPc, order, copy, copies>>
  PROVE  /\ scripts' \in Seq(BuildScript) /\ 1 \in DOMAIN scripts
         /\ scripts[1] \in BuildScript /\ scripts[1].copy \in 0 .. copy
         /\ \A k \in DOMAIN scripts' : k + 1 \in DOMAIN scripts /\ scripts'[k] = scripts[k + 1]
         /\ DOMAIN scripts' \subseteq Nat
         /\ ToRun'
<1>1. scripts \in Seq(BuildScript) /\ copy \in Nat
  BY DEF BuildInv, BuildTypes
<1>2. /\ scripts' \in Seq(BuildScript) /\ 1 \in DOMAIN scripts
      /\ \A k \in DOMAIN scripts' : k + 1 \in DOMAIN scripts /\ scripts'[k] = scripts[k + 1]
      /\ \A k \in DOMAIN scripts : k = 1 \/ k - 1 \in DOMAIN scripts'
      /\ DOMAIN scripts \subseteq Nat /\ DOMAIN scripts' \subseteq Nat
  BY <1>1
<1>3. scripts[1] \in BuildScript
  BY <1>1, <1>2
<1>4. scripts[1].copy \in 0 .. copy
  <2>1. scripts[1].copy \in Nat
    BY <1>3 DEF BuildScript
  <2>2. scripts[1].copy <= copy
    BY <1>2 DEF BuildInv, ToRun
  <2> QED BY <1>1, <2>1, <2>2
<1>5. ToRun'
  <2>1. \A k \in DOMAIN scripts' : scripts'[k].copy <= copy
    BY <1>2 DEF BuildInv, ToRun
  <2>2. ASSUME NEW k \in DOMAIN scripts', Ordered(scripts'[k])
        PROVE  /\ scripts'[k].order = order /\ Build!Shape(order)
               /\ [order |-> order, copy |-> scripts'[k].copy] \in copies
               /\ buildPc \in {"send", "answer", "over"}
               /\ \A j \in DOMAIN scripts' :
                    Ordered(scripts'[j]) /\ scripts'[j].copy = scripts'[k].copy => j = k
    <3>1. k + 1 \in DOMAIN scripts /\ scripts[k + 1] = scripts'[k]
      BY <1>2
    <3>2. \A j \in DOMAIN scripts :
             Ordered(scripts[j]) /\ scripts[j].copy = scripts'[k].copy => j = k + 1
      BY <2>2, <3>1 DEF BuildInv, ToRun
    <3>3. \A j \in DOMAIN scripts' :
             Ordered(scripts'[j]) /\ scripts'[j].copy = scripts'[k].copy => j = k
      BY <1>2, <3>2
    <3> QED BY <2>2, <3>1, <3>3 DEF BuildInv, ToRun
  <2>3. ASSUME buildPc = "answer", ~NoOrders'
        PROVE  \E k \in DOMAIN scripts' :
                 /\ Ordered(scripts'[k]) /\ reply'.copy # copy
                 /\ \A j \in DOMAIN scripts' : /\ scripts'[j].copy = copy => j = k
                                               /\ Ordered(scripts'[j]) => j <= k
    <3>1. PICK i \in DOMAIN scripts' : Ordered(scripts'[i])
      BY <2>3 DEF NoOrders
    <3>2. i \in Nat \ {0} /\ i + 1 \in DOMAIN scripts /\ Ordered(scripts[i + 1])
      BY <1>2, <3>1
    <3>3. PICK k \in DOMAIN scripts :
            /\ Ordered(scripts[k])
            /\ \A j \in DOMAIN scripts : /\ scripts[j].copy = copy => j = k
                                         /\ Ordered(scripts[j]) => j <= k
      BY <2>3, <3>2 DEF BuildInv, ToRun, NoOrders
    <3>4. k # 1
      BY <3>2, <3>3
    <3>5. reply'.copy # copy
      BY <1>2, <3>3, <3>4
    <3>6. k - 1 \in DOMAIN scripts' /\ scripts'[k - 1] = scripts[k]
      <4>1. k - 1 \in DOMAIN scripts' /\ k \in Nat
        BY <1>2, <3>4
      <4>2. scripts'[k - 1] = scripts[(k - 1) + 1] /\ (k - 1) + 1 = k
        BY <1>2, <4>1
      <4> QED BY <4>1, <4>2
    <3>7. \A j \in DOMAIN scripts' : /\ scripts'[j].copy = copy => j = k - 1
                                     /\ Ordered(scripts'[j]) => j <= k - 1
      <4> SUFFICES ASSUME NEW j \in DOMAIN scripts'
                   PROVE  /\ scripts'[j].copy = copy => j = k - 1
                          /\ Ordered(scripts'[j]) => j <= k - 1
        OBVIOUS
      <4>1. j \in Nat /\ k \in Nat /\ j + 1 \in DOMAIN scripts /\ scripts'[j] = scripts[j + 1]
        BY <1>2
      <4>2. /\ scripts'[j].copy = copy => j + 1 = k
            /\ Ordered(scripts'[j]) => j + 1 <= k
        BY <3>3, <4>1
      <4>3. (j + 1 = k => j = k - 1) /\ (j + 1 <= k => j <= k - 1)
        BY <4>1
      <4> QED BY <4>2, <4>3
    <3> QED BY <3>3, <3>5, <3>6, <3>7
  <2> QED BY <2>1, <2>2, <2>3 DEF ToRun
<1> QED BY <1>2, <1>3, <1>4, <1>5

(* It reads the city. *)
LEMMA BuildRunsRead ==
  ASSUME BuildInv, Build!RunRead(scripts[1]), scripts # <<>>, scripts' = Tail(scripts),
         UNCHANGED <<buildPc, order, copy, copies, results>>
  PROVE  BuildInv'
<1>1. /\ reply'.copy = scripts[1].copy /\ reply'.row \in {"state", "gone"} /\ reply'.city = city
      /\ UNCHANGED <<city, requests, requested>>
  BY DEF Build!RunRead
<1>2. /\ scripts' \in Seq(BuildScript) /\ 1 \in DOMAIN scripts
      /\ scripts[1] \in BuildScript /\ scripts[1].copy \in 0 .. copy
      /\ \A k \in DOMAIN scripts' : k + 1 \in DOMAIN scripts /\ scripts'[k] = scripts[k + 1]
      /\ ToRun'
  BY <1>1, BuildTail
<1>3. BuildTypes'
  BY <1>1, <1>2 DEF BuildInv, BuildTypes
<1>4. KnownOrders' /\ UnderWay'
  BY <1>1 DEF BuildInv, KnownOrders, UnderWay, Single
<1>5. TakenDown'
  <2>1. ASSUME NEW o \in requested
        PROVE  \E c \in copies :
                 /\ c.order = o
                 /\ \A k \in DOMAIN scripts' : Ordered(scripts'[k]) => scripts'[k].copy # c.copy
                 /\ ~(reply'.copy = c.copy /\ reply'.row \in {"ERR", "LuaError"})
    <3>1. PICK c \in copies :
                 /\ c.order = o
                 /\ \A k \in DOMAIN scripts : Ordered(scripts[k]) => scripts[k].copy # c.copy
      BY DEF BuildInv, TakenDown
    <3> QED BY <1>1, <1>2, <3>1
  <2> QED BY <1>1, <2>1 DEF TakenDown
<1>6. Judged'
  BY <1>1, <1>2 DEF BuildInv, Judged, Single
<1>7. InTheCity'
  BY <1>1 DEF BuildInv, InTheCity, Build!Misanswered
<1> QED BY <1>2, <1>3, <1>4, <1>5, <1>6, <1>7 DEF BuildInv

(* It is an order: taken down it joins the requests, as the last. *)
LEMMA BuildRunsOrder ==
  ASSUME BuildInv, Build!RunOrder(scripts[1]), scripts # <<>>, scripts' = Tail(scripts),
         Ordered(scripts[1]), UNCHANGED <<buildPc, order, copy, copies, results>>
  PROVE  BuildInv'
<1> DEFINE s == scripts[1]
           c0 == [order |-> order, copy |-> s.copy]
<1>1. /\ reply'.copy = s.copy /\ UNCHANGED city
      /\ \/ /\ reply'.row = "OK"
            /\ requests' = Append(requests, s.order) /\ requested' = requested \cup {s.order}
         \/ reply'.row \in {"ERR", "LuaError"} /\ UNCHANGED <<requests, requested>>
  BY DEF Build!RunOrder
<1>2. /\ scripts' \in Seq(BuildScript) /\ 1 \in DOMAIN scripts
      /\ s \in BuildScript /\ s.copy \in 0 .. copy
      /\ \A k \in DOMAIN scripts' : k + 1 \in DOMAIN scripts /\ scripts'[k] = scripts[k + 1]
      /\ DOMAIN scripts' \subseteq Nat
      /\ ToRun'
  BY <1>1, BuildTail
<1>3. /\ s.order = order /\ Build!Shape(order) /\ buildPc \in {"send", "answer", "over"}
      /\ c0 \in copies
      /\ \A j \in DOMAIN scripts : Ordered(scripts[j]) /\ scripts[j].copy = s.copy => j = 1
  BY <1>2 DEF BuildInv, ToRun
<1>4. order \in CityOrder /\ requests \in Seq(CityOrder) /\ order.id \in Nat
  BY DEF BuildInv, BuildTypes, CityOrder
<1>5. c0.order = order /\ c0.copy = s.copy
  OBVIOUS
<1>6. \A k \in DOMAIN scripts' : Ordered(scripts'[k]) => scripts'[k].copy # s.copy
  <2> SUFFICES ASSUME NEW k \in DOMAIN scripts', Ordered(scripts'[k]), scripts'[k].copy = s.copy
               PROVE  FALSE
    OBVIOUS
  <2>1. k + 1 \in DOMAIN scripts /\ Ordered(scripts[k + 1]) /\ scripts[k + 1].copy = s.copy
    BY <1>2
  <2>2. k + 1 = 1 /\ k \in Nat \ {0}
    BY <1>2, <1>3, <2>1
  <2> QED BY <2>2
<1> HIDE DEF s, c0
<1>7. /\ requests' \in Seq(CityOrder) /\ Len(requests') >= Len(requests)
      /\ \A i \in DOMAIN requests : i \in DOMAIN requests' /\ requests'[i] = requests[i]
      /\ \A i \in DOMAIN requests' : \/ i \in DOMAIN requests
                                     \/ requests'[i] = order /\ order \in requested'
      /\ \A i \in Len(requests) + 1 .. Len(requests') : requests'[i] = order
  <2>1. CASE UNCHANGED requests
    BY <1>4, <2>1
  <2>2. CASE requests' = Append(requests, order) /\ order \in requested'
    BY <1>4, <2>2
  <2> QED BY <1>1, <1>3, <2>1, <2>2
<1>8. requested \subseteq requested' /\ requested' \subseteq requested \cup {order}
  BY <1>1, <1>3
<1>9. BuildTypes'
  BY <1>1, <1>2, <1>4, <1>7, <1>8 DEF BuildInv, BuildTypes
<1>10. KnownOrders'
  BY <1>3, <1>4, <1>7, <1>8 DEF BuildInv, KnownOrders
<1>11. UnderWay'
  BY <1>3, <1>8 DEF BuildInv, UnderWay, Single
<1>12. TakenDown'
  <2>1. ASSUME NEW o \in requested
        PROVE  \E c \in copies :
                 /\ c.order = o
                 /\ \A k \in DOMAIN scripts' : Ordered(scripts'[k]) => scripts'[k].copy # c.copy
                 /\ ~(reply'.copy = c.copy /\ reply'.row \in {"ERR", "LuaError"})
    <3>1. PICK c \in copies :
                 /\ c.order = o
                 /\ \A k \in DOMAIN scripts : Ordered(scripts[k]) => scripts[k].copy # c.copy
      BY DEF BuildInv, TakenDown
    <3>2. c.copy # s.copy
      BY <1>2, <3>1 DEF s
    <3> QED BY <1>1, <1>2, <3>1, <3>2
  <2>2. CASE UNCHANGED requested /\ reply'.row # "OK"
    BY <2>1, <2>2 DEF TakenDown
  <2>3. CASE reply'.row = "OK" /\ requested' = requested \cup {order}
    BY <1>1, <1>3, <1>5, <1>6, <2>1, <2>3 DEF TakenDown
  <2> QED BY <1>1, <1>3, <2>2, <2>3
<1>13. Judged'
  <2>1. ASSUME NEW r \in results, r.status = "rejected", Single(r.order)
        PROVE  /\ r.order \notin requested'
               /\ \A k \in DOMAIN scripts' : Ordered(scripts'[k]) => scripts'[k].order # r.order
    <3>1. /\ r.order \notin requested
          /\ \A k \in DOMAIN scripts : Ordered(scripts[k]) => scripts[k].order # r.order
      BY <2>1 DEF BuildInv, Judged
    <3>2. order # r.order
      BY <1>2, <1>3, <3>1 DEF s
    <3> QED BY <1>2, <1>8, <3>1, <3>2
  <2>2. \A r \in results : Single(r.order)' => Single(r.order)
    BY DEF Single
  <2> QED BY <1>8, <2>1, <2>2 DEF BuildInv, Judged
<1>14. InTheCity'
  <2>1. SUFFICES ASSUME ~Build!Misanswered' PROVE InTheCity'
    BY DEF InTheCity
  <2>2. ~Build!Misanswered
    BY <1>8, <2>1 DEF Build!Misanswered
  <2>3. PICK m \in 0 .. Len(requests) :
           /\ \A i \in 1 .. m : Fits(city, requests[i])
           /\ \A i \in m + 1 .. Len(requests) : requests[i] = order
    BY <2>2 DEF BuildInv, InTheCity
  <2>4. /\ m \in 0 .. Len(requests')
        /\ \A i \in 1 .. m : Fits(city, requests'[i])
        /\ \A i \in m + 1 .. Len(requests') : requests'[i] = order
    <3>1. Len(requests) \in Nat /\ Len(requests') \in Nat
          /\ DOMAIN requests = 1 .. Len(requests)
      BY <1>4, <1>7
    <3>2. m \in 0 .. Len(requests') /\ \A i \in 1 .. m : Fits(city, requests'[i])
      BY <1>7, <2>3, <3>1
    <3>3. ASSUME NEW i \in m + 1 .. Len(requests') PROVE requests'[i] = order
      <4>1. i \in m + 1 .. Len(requests) \/ i \in Len(requests) + 1 .. Len(requests')
        BY <3>1
      <4> QED BY <1>7, <2>3, <3>1, <4>1
    <3> QED BY <3>2, <3>3
  <2> QED BY <1>1, <1>3, <2>2, <2>4 DEF BuildInv, InTheCity
<1> QED BY <1>2, <1>9, <1>10, <1>11, <1>12, <1>13, <1>14 DEF BuildInv

(* The game runs what it was sent first. *)
LEMMA BuildRuns == BuildInv /\ Build!RunScript => BuildInv'
<1> SUFFICES ASSUME BuildInv, Build!RunScript PROVE BuildInv'
  OBVIOUS
<1>1. /\ scripts # <<>> /\ scripts' = Tail(scripts)
      /\ IF Ordered(scripts[1]) THEN Build!RunOrder(scripts[1]) ELSE Build!RunRead(scripts[1])
      /\ UNCHANGED <<buildPc, order, copy, copies, results>>
  BY DEF Build!RunScript, Ordered
<1> QED BY <1>1, BuildRunsOrder, BuildRunsRead

(* The first request is carried out, dropped or left because the city is lost: if it is *)
(* not what the city builds already, only those of the last order are left.             *)
LEMMA BuildCarriesOut == BuildInv /\ Build!CarryOut => BuildInv'
<1> SUFFICES ASSUME BuildInv, Build!CarryOut PROVE BuildInv'
  OBVIOUS
<1> DEFINE o == requests[1]
<1>1. /\ requests # <<>> /\ requests' = Tail(requests)
      /\ \/ city' = [city EXCEPT !.item = o.item, !.plot = o.dest]
         \/ UNCHANGED city
      /\ UNCHANGED <<scripts, reply, buildPc, order, copy, copies, requested, results>>
  <2>1. Head(requests) = o
    OBVIOUS
  <2>2. /\ requests # <<>> /\ requests' = Tail(requests)
        /\ \/ city' = [city EXCEPT !.item = Head(requests).item, !.plot = Head(requests).dest]
           \/ city' = city
        /\ UNCHANGED <<scripts, reply, buildPc, order, copy, copies, requested, results>>
    <3> HIDE DEF o
    <3> QED BY Zenon DEF Build!CarryOut, Build!historyVars
  <2> QED BY <2>1, <2>2
<1>2. /\ requests \in Seq(CityOrder) /\ city \in CityState /\ Regular(city)
  BY DEF BuildInv, BuildTypes
<1>3. /\ requests' \in Seq(CityOrder) /\ o \in CityOrder
      /\ 1 \in DOMAIN requests /\ Len(requests) \in Nat /\ Len(requests') = Len(requests) - 1
      /\ DOMAIN requests = 1 .. Len(requests) /\ DOMAIN requests' = 1 .. Len(requests')
      /\ \A i \in DOMAIN requests' : i + 1 \in DOMAIN requests /\ requests'[i] = requests[i + 1]
  BY <1>1, <1>2
<1>4. Build!Shape(o)
  BY <1>3 DEF BuildInv, KnownOrders
<1>5. \/ UNCHANGED city
      \/ /\ city' \in CityState /\ Regular(city') /\ city'.item = o.item /\ city'.plot = o.dest
  BY <1>1, <1>2, <1>3, <1>4 DEF CityState, CityOrder, Site, Regular, Build!Shape
<1>6. BuildTypes'
  BY <1>1, <1>2, <1>3, <1>5 DEF BuildInv, BuildTypes
<1>7. KnownOrders' /\ ToRun' /\ UnderWay' /\ TakenDown' /\ Judged'
  BY <1>1, <1>3 DEF BuildInv, KnownOrders, ToRun, NoOrders, UnderWay, TakenDown, Judged, Single
<1> HIDE DEF o
<1>8. InTheCity'
  <2>1. SUFFICES ASSUME ~Build!Misanswered PROVE InTheCity'
    BY <1>1 DEF InTheCity, Build!Misanswered
  <2>2. PICK m \in 0 .. Len(requests) :
           /\ \A i \in 1 .. m : Fits(city, requests[i])
           /\ \A i \in m + 1 .. Len(requests) : requests[i] = order
    BY <2>1 DEF BuildInv, InTheCity
  <2>3. /\ buildPc = "idle" => \A i \in DOMAIN requests : Fits(city, requests[i])
        /\ buildPc = "reading" /\ reply.row = "state" /\ Fits(reply.city, order)
             => Fits(city, order)
        /\ \A r \in results : r.status = "accepted" /\ r.order = order => Fits(city, order)
    BY <2>1 DEF BuildInv, InTheCity
  <2>4. CASE \A p : Fits(city, p) => Fits(city', p)
    <3>1. CASE m = 0
      <4>1. \A i \in 0 + 1 .. Len(requests') : requests'[i] = order
        BY <1>3, <2>2, <3>1
      <4>2. \A i \in 1 .. 0 : Fits(city', requests'[i])
        OBVIOUS
      <4>3. buildPc = "idle" => \A i \in DOMAIN requests' : Fits(city', requests'[i])
        BY <1>3, <2>3, <2>4
      <4>4. 0 \in 0 .. Len(requests')
        BY <1>3
      <4> QED BY <1>1, <2>3, <2>4, <4>1, <4>2, <4>3, <4>4 DEF InTheCity
    <3>2. CASE m # 0
      <4>1. m - 1 \in 0 .. Len(requests')
        BY <1>3, <3>2
      <4>2. \A i \in 1 .. m - 1 : Fits(city', requests'[i])
        <5> SUFFICES ASSUME NEW i \in 1 .. m - 1 PROVE Fits(city', requests'[i])
          OBVIOUS
        <5>1. i \in DOMAIN requests' /\ i + 1 \in 1 .. m
          BY <1>3, <4>1
        <5> QED BY <1>3, <2>2, <2>4, <5>1
      <4>3. \A i \in (m - 1) + 1 .. Len(requests') : requests'[i] = order
        <5> SUFFICES ASSUME NEW i \in (m - 1) + 1 .. Len(requests') PROVE requests'[i] = order
          OBVIOUS
        <5>1. i \in DOMAIN requests' /\ i + 1 \in m + 1 .. Len(requests)
          BY <1>3, <4>1, <3>2
        <5> QED BY <1>3, <2>2, <5>1
      <4>4. buildPc = "idle" => \A i \in DOMAIN requests' : Fits(city', requests'[i])
        BY <1>3, <2>3, <2>4
      <4> QED BY <1>1, <2>3, <2>4, <4>1, <4>2, <4>3, <4>4 DEF InTheCity
    <3> QED BY <3>1, <3>2
  <2>5. CASE city'.item = o.item /\ city'.plot = o.dest /\ ~Fits(city, o)
    <3>1. m = 0
      BY <1>3, <2>2, <2>5 DEF o
    <3>2. /\ \A i \in DOMAIN requests : requests[i] = order
          /\ o = order /\ buildPc # "idle"
      BY <1>3, <2>2, <2>3, <2>5, <3>1 DEF o
    <3>3. Fits(city', order)
      BY <2>5, <3>2 DEF Fits
    <3>4. \A i \in 0 + 1 .. Len(requests') : requests'[i] = order
      BY <1>3, <3>2
    <3>5. \A i \in 1 .. 0 : Fits(city', requests'[i])
      OBVIOUS
    <3>6. 0 \in 0 .. Len(requests')
      BY <1>3
    <3> QED BY <1>1, <3>2, <3>3, <3>4, <3>5, <3>6 DEF InTheCity
  <2>6. \/ \A p : Fits(city, p) => Fits(city', p)
        \/ city'.item = o.item /\ city'.plot = o.dest /\ ~Fits(city, o)
    BY <1>5 DEF Fits
  <2> QED BY <2>4, <2>5, <2>6
<1> QED BY <1>6, <1>7, <1>8 DEF BuildInv

(* Every step of the adapter and of the game keeps the invariant. *)
LEMMA BuildSteps == BuildInv /\ [Build!Next]_(Build!vars) => BuildInv'
<1> SUFFICES ASSUME BuildInv, [Build!Next]_(Build!vars) PROVE BuildInv'
  OBVIOUS
<1>1. CASE UNCHANGED Build!vars
  <2>1. UNCHANGED <<city, requests, scripts, reply, buildPc, order, copy, copies, requested,
                    results>>
    BY <1>1 DEF Build!vars
  <2> QED BY <2>1 DEF BuildInv, BuildTypes, KnownOrders, ToRun, NoOrders, UnderWay, Single,
                      TakenDown, Judged, InTheCity, Build!Misanswered
<1> QED BY <1>1, BuildRuns, BuildCarriesOut, BuildCityLost, BuildReconnects, BuildActs,
           BuildExecutes, BuildVerdict, BuildLost, BuildReadBack, BuildRead, BuildTimeIsUp
        DEF Build!Next

(* A step of a behaviour is one of the production orders' or leaves them alone. *)
LEMMA BuildOnly == [MCNext]_<<which, fileVars, gameVars>> => [Build!Next]_(Build!vars)
BY DEF MCNext, FilesNext, GameNext, fileVars, gameVars, buildVars, Build!vars

(* An order was sent at most once if all its copies are one. *)
LEMMA OneCopy ==
  ASSUME BuildInv, NEW o
  PROVE  /\ Build!Sent(o) <= 1 => Single(o)
         /\ Single(o) /\ (\E c \in copies : c.order = o) => Build!Sent(o) = 1
<1> DEFINE Of == {c \in copies : c.order = o}
<1>1. IsFiniteSet(copies)
  BY DEF BuildInv, BuildTypes
<1>2. IsFiniteSet(Of)
  BY <1>1, FS_Subset
<1>3. Build!Sent(o) = Cardinality(Of)
  BY DEF Build!Sent, Build!Cardinality, Cardinality
<1>4. ASSUME Single(o), NEW c \in copies, c.order = o PROVE Build!Sent(o) = 1
  <2>1. Of = {c}
    BY <1>4 DEF Single
  <2>2. Cardinality({c}) = 1
    BY FS_Singleton
  <2> HIDE DEF Of
  <2> QED BY <1>3, <2>1, <2>2
<1>5. ASSUME Build!Sent(o) <= 1 PROVE Single(o)
  <2> SUFFICES ASSUME NEW c \in copies, NEW d \in copies, c.order = o, d.order = o, c # d
               PROVE  FALSE
    BY DEF Single
  <2>1. {c, d} \subseteq Of
    OBVIOUS
  <2>2. IsFiniteSet({c}) /\ Cardinality({c}) = 1
    BY FS_Singleton
  <2>3. Cardinality({c} \cup {d}) = 2
    BY <2>2, FS_AddElement
  <2>4. {c, d} = {c} \cup {d}
    OBVIOUS
  <2>5. Cardinality(Of) \in Nat
    BY <1>2, FS_CardinalityType
  <2> HIDE DEF Of
  <2>6. 2 <= Cardinality(Of)
    BY <1>2, <2>1, <2>3, <2>4, FS_Subset
  <2> QED BY <1>3, <1>5, <2>5, <2>6
<1> QED BY <1>4, <1>5

(* The invariant gives what Production promises. *)
LEMMA BuildIsSound ==
  BuildInv => Build!SentOnce /\ Build!AnswersAreTrue /\ Build!LastOrderStands
<1> SUFFICES ASSUME BuildInv
             PROVE  Build!SentOnce /\ Build!AnswersAreTrue /\ Build!LastOrderStands
  OBVIOUS
<1>1. Build!SentOnce
  BY OneCopy DEF BuildInv, UnderWay, Build!SentOnce
<1>2. Build!AnswersAreTrue
  BY OneCopy DEF BuildInv, Judged, Fits, Build!AnswersAreTrue
<1>3. Build!LastOrderStands
  BY DEF BuildInv, InTheCity, Fits, Build!LastOrderStands
<1> QED BY <1>1, <1>2, <1>3

-----------------------------------------------------------------------------
(* TunerLink and Production: an answer that is marked holds the rows of its  *)
(* own command and all of them up to the last, and an operation of the       *)
(* handoff reaches the game at most once; a district or a project is sent at *)
(* most once, an order is answered as it fared, and after an accepted one    *)
(* the city builds it.                                                       *)
THEOREM AnswersAreAlwaysSound == MCSpec => []AnswersAreSound
<1>1. LinkInv => Link!OwnRowsOnly /\ Link!OnceIsOnce
  BY DEF LinkInv, OnceSent, OnceAnswered, Link!OnceIsOnce
<1>2. LinkInv /\ BuildInv => AnswersAreSound
  BY <1>1, BuildIsSound DEF AnswersAreSound
<1> QED BY <1>2, LinkStarts, LinkSteps, LinkOnly, BuildStarts, BuildSteps, BuildOnly, PTL
     DEF MCSpec

-----------------------------------------------------------------------------
(* The loop of diff. *)

LEMMA LedgersOfRows ==
  /\ Diff!NoRows \in Diff!Ledger
  /\ \A x : Diff!Single(x) \in Diff!Ledger
  /\ \A a, b \in Diff!Ledger : Diff!AddRows(a, b) \in Diff!Ledger /\ Diff!Excess(a, b) \in Diff!Ledger
<1>1. Diff!NoRows \in Diff!Ledger
  BY DEF Diff!NoRows, Diff!Ledger
<1>2. \A x : Diff!Single(x) \in Diff!Ledger
  BY DEF Diff!Single, Diff!Ledger
<1>3. ASSUME NEW a \in Diff!Ledger, NEW b \in Diff!Ledger
      PROVE  Diff!AddRows(a, b) \in Diff!Ledger /\ Diff!Excess(a, b) \in Diff!Ledger
  <2>1. \A r \in Diff!Row : a[r] \in Nat /\ b[r] \in Nat
    BY DEF Diff!Ledger
  <2>2. Diff!AddRows(a, b) \in Diff!Ledger
    BY <2>1 DEF Diff!AddRows, Diff!Ledger
  <2>3. Diff!Excess(a, b) \in Diff!Ledger
    BY <2>1 DEF Diff!Excess, Diff!Ledger
  <2> QED BY <2>2, <2>3
<1> QED BY <1>1, <1>2, <1>3


SeenRows(r, n) == {k \in 1 .. n : actual[k] = r}

(* The loop invariant: an allowed row is left as often as it has not been         *)
(* taken, and what came after it was used up has been set aside, under the   *)
(* heading its field decides.                                                *)
Accounted(r) ==
  LET seen == Cardinality(SeenRows(r, looked))
      due  == Diff!CountOf(allowed)[r]
  IN  /\ remaining[r] = IF seen > due THEN 0 ELSE due - seen
      /\ unauthorized[r] + deviations[r] = IF seen > due THEN seen - due ELSE 0
      /\ deviations[r] > 0 => r.entity \in Diff!CoveredAttrs
      /\ unauthorized[r] > 0 => r.entity \notin Diff!CoveredAttrs

DiffInv ==
  /\ actual \in Seq(Diff!Row) /\ allowed \in Seq(Diff!Row)
  /\ looked \in 0 .. Len(actual)
  /\ remaining \in Diff!Ledger /\ unauthorized \in Diff!Ledger /\ deviations \in Diff!Ledger
  /\ \A r \in Diff!Row : Accounted(r)

-----------------------------------------------------------------------------
LEMMA RowPositions ==
  ASSUME NEW list \in Seq(Diff!Row), NEW r
  PROVE  /\ IsFiniteSet({k \in DOMAIN list : list[k] = r})
         /\ Cardinality({k \in DOMAIN list : list[k] = r}) \in Nat
         /\ Cardinality({k \in DOMAIN list : list[k] = r}) > 0
              <=> \E k \in DOMAIN list : list[k] = r
<1> DEFINE S == {k \in DOMAIN list : list[k] = r}
<1>1. DOMAIN list = 1 .. Len(list) /\ Len(list) \in Nat
  OBVIOUS
<1>2. IsFiniteSet(1 .. Len(list))
  BY <1>1, FS_Interval
<1>3. S \in SUBSET (1 .. Len(list))
  BY <1>1
<1>4. IsFiniteSet(S)
  BY <1>2, <1>3, FS_Subset
<1>5. Cardinality(S) \in Nat
  BY <1>4, FS_CardinalityType
<1>6. Cardinality(S) = 0 <=> S = {}
  BY <1>4, FS_EmptySet
<1>7. S = {} <=> ~ \E k \in DOMAIN list : list[k] = r
  OBVIOUS
<1> HIDE DEF S
<1>8. Cardinality(S) > 0 <=> S # {}
  BY <1>5, <1>6
<1> QED BY <1>4, <1>5, <1>7, <1>8 DEF S

LEMMA CountOfLedger ==
  ASSUME NEW list \in Seq(Diff!Row)
  PROVE  Diff!CountOf(list) \in Diff!Ledger
BY RowPositions DEF Diff!CountOf, Diff!Ledger, Diff!Cardinality, Cardinality

(* One more Diff!row has been looked at. *)
LEMMA RowsSeenGrow ==
  ASSUME NEW n \in Nat, NEW r
  PROVE  /\ Cardinality(SeenRows(r, n)) \in Nat
         /\ Cardinality(SeenRows(r, n + 1))
              = IF actual[n + 1] = r THEN Cardinality(SeenRows(r, n)) + 1
                                     ELSE Cardinality(SeenRows(r, n))
<1>1. IsFiniteSet(1 .. n)
  BY FS_Interval
<1>2. SeenRows(r, n) \in SUBSET (1 .. n)
  BY DEF SeenRows
<1>3. IsFiniteSet(SeenRows(r, n))
  BY <1>1, <1>2, FS_Subset
<1>4. Cardinality(SeenRows(r, n)) \in Nat
  BY <1>3, FS_CardinalityType
<1>5. CASE actual[n + 1] = r
  <2>1. SeenRows(r, n + 1) = SeenRows(r, n) \cup {n + 1}
    BY <1>5 DEF SeenRows
  <2>2. n + 1 \notin SeenRows(r, n)
    BY DEF SeenRows
  <2> QED BY <1>3, <1>4, <1>5, <2>1, <2>2, FS_AddElement
<1>6. CASE actual[n + 1] # r
  <2>1. SeenRows(r, n + 1) = SeenRows(r, n)
    BY <1>6 DEF SeenRows
  <2> QED BY <1>4, <1>6, <2>1
<1> QED BY <1>5, <1>6

LEMMA NoRowSeen == \A r : Cardinality(SeenRows(r, 0)) = 0
<1>1. \A r : SeenRows(r, 0) = {}
  BY DEF SeenRows
<1> QED BY <1>1, FS_EmptySet

LEMMA DiffStarts == Diff!Init => DiffInv
<1> SUFFICES ASSUME Diff!Init PROVE DiffInv
  OBVIOUS
<1>1. actual \in Seq(Diff!Row) /\ allowed \in Seq(Diff!Row)
  BY DEF Diff!Init, Diff!Lists
<1>2. Diff!CountOf(allowed) \in Diff!Ledger
  BY <1>1, CountOfLedger
<1>3. \A r \in Diff!Row : Diff!CountOf(allowed)[r] \in Nat
  BY <1>2 DEF Diff!Ledger
<1>4. \A r \in Diff!Row : Accounted(r)
  BY <1>3, NoRowSeen DEF Diff!Init, Accounted, Diff!NoRows
<1> QED BY <1>1, <1>2, <1>4, LedgersOfRows DEF Diff!Init, DiffInv

LEMMA DiffSteps == DiffInv /\ [Diff!Next]_(Diff!vars) => DiffInv'
<1> SUFFICES ASSUME DiffInv, [Diff!Next]_(Diff!vars) PROVE DiffInv'
  OBVIOUS
<1>1. CASE UNCHANGED Diff!vars
  BY <1>1 DEF Diff!vars, DiffInv, Accounted, SeenRows, Diff!CoveredAttrs
<1>2. CASE Diff!Next
  <2>1. /\ looked' = looked + 1 /\ actual' = actual /\ allowed' = allowed
        /\ looked \in Nat /\ looked < Len(actual) /\ Diff!row \in Diff!Row
    BY <1>2 DEF Diff!Next, Diff!Expected, Diff!Deviates, Diff!Unexpected, DiffInv, Diff!row
  <2>2. /\ \A r \in Diff!Row : /\ remaining[r] \in Nat /\ unauthorized[r] \in Nat
                          /\ deviations[r] \in Nat /\ Diff!CountOf(allowed)[r] \in Nat
    BY CountOfLedger DEF DiffInv, Diff!Ledger
  <2>3. ASSUME NEW r \in Diff!Row
        PROVE  /\ Cardinality(SeenRows(r, looked)) \in Nat
               /\ Cardinality(SeenRows(r, looked))' = IF Diff!row = r
                                             THEN Cardinality(SeenRows(r, looked)) + 1
                                             ELSE Cardinality(SeenRows(r, looked))
    <3>1. Cardinality(SeenRows(r, looked))' = Cardinality(SeenRows(r, looked + 1))
      BY <2>1 DEF SeenRows
    <3> QED BY <2>1, <3>1, RowsSeenGrow DEF Diff!row
  <2>4. Diff!CountOf(allowed)' = Diff!CountOf(allowed) /\ Diff!CoveredAttrs' = Diff!CoveredAttrs
    BY <2>1 DEF Diff!CountOf, Diff!CoveredAttrs, Diff!Cardinality, Cardinality
  <2>5. /\ \A r \in Diff!Row :
             /\ remaining'[r] = IF r = Diff!row /\ remaining[Diff!row] > 0
                                THEN remaining[r] - 1 ELSE remaining[r]
             /\ deviations'[r] = IF r = Diff!row /\ remaining[Diff!row] = 0
                                      /\ Diff!row.entity \in Diff!CoveredAttrs
                                 THEN deviations[r] + 1 ELSE deviations[r]
             /\ unauthorized'[r] = IF r = Diff!row /\ remaining[Diff!row] = 0
                                        /\ Diff!row.entity \notin Diff!CoveredAttrs
                                   THEN unauthorized[r] + 1 ELSE unauthorized[r]
        /\ remaining' \in Diff!Ledger /\ deviations' \in Diff!Ledger
        /\ unauthorized' \in Diff!Ledger
    <3>1. /\ Diff!AddRows(deviations, Diff!Single(Diff!row)) \in Diff!Ledger
          /\ Diff!AddRows(unauthorized, Diff!Single(Diff!row)) \in Diff!Ledger
      BY LedgersOfRows DEF DiffInv
    <3>2. ASSUME NEW r \in Diff!Row
          PROVE  /\ Diff!AddRows(deviations, Diff!Single(Diff!row))[r]
                      = IF r = Diff!row THEN deviations[r] + 1 ELSE deviations[r]
                 /\ Diff!AddRows(unauthorized, Diff!Single(Diff!row))[r]
                      = IF r = Diff!row THEN unauthorized[r] + 1 ELSE unauthorized[r]
      BY <2>2 DEF Diff!AddRows, Diff!Single
    <3>3. CASE Diff!Expected
      <4>1. remaining' = [remaining EXCEPT ![Diff!row] = @ - 1] /\ remaining[Diff!row] > 0
        BY <3>3 DEF Diff!Expected, Diff!Take
      <4>2. remaining' \in Diff!Ledger
        BY <2>1, <2>2, <4>1 DEF DiffInv, Diff!Ledger
      <4>3. \A r \in Diff!Row : remaining'[r] = IF r = Diff!row THEN remaining[r] - 1
                                                      ELSE remaining[r]
        BY <2>1, <4>1 DEF DiffInv, Diff!Ledger
      <4> QED BY <2>1, <2>2, <3>3, <4>1, <4>2, <4>3 DEF Diff!Expected, DiffInv
    <3>4. CASE Diff!Deviates
      BY <2>1, <2>2, <3>1, <3>2, <3>4 DEF Diff!Deviates, Diff!IsDeviation, DiffInv
    <3>5. CASE Diff!Unexpected
      BY <2>1, <2>2, <3>1, <3>2, <3>5 DEF Diff!Unexpected, Diff!IsDeviation, DiffInv
    <3> QED BY <1>2, <3>3, <3>4, <3>5 DEF Diff!Next
  <2>6. ASSUME NEW r \in Diff!Row PROVE Accounted(r)'
    <3> DEFINE seen == Cardinality(SeenRows(r, looked))
               due  == Diff!CountOf(allowed)[r]
    <3>1. /\ remaining[r] = IF seen > due THEN 0 ELSE due - seen
          /\ unauthorized[r] + deviations[r] = IF seen > due THEN seen - due ELSE 0
          /\ deviations[r] > 0 => r.entity \in Diff!CoveredAttrs
          /\ unauthorized[r] > 0 => r.entity \notin Diff!CoveredAttrs
      BY DEF DiffInv, Accounted
    <3>2. /\ seen \in Nat /\ due \in Nat /\ remaining[r] \in Nat
          /\ unauthorized[r] \in Nat /\ deviations[r] \in Nat
          /\ seen' = IF Diff!row = r THEN seen + 1 ELSE seen
          /\ due' = due /\ Diff!CoveredAttrs' = Diff!CoveredAttrs
      BY <2>2, <2>3, <2>4
    <3> HIDE DEF seen, due
    <3>3. /\ remaining'[r] = IF seen' > due' THEN 0 ELSE due' - seen'
          /\ unauthorized'[r] + deviations'[r]
               = IF seen' > due' THEN seen' - due' ELSE 0
          /\ deviations'[r] > 0 => r.entity \in Diff!CoveredAttrs'
          /\ unauthorized'[r] > 0 => r.entity \notin Diff!CoveredAttrs'
      <4>1. CASE r = Diff!row
        <5>1. /\ remaining'[r] = IF remaining[r] > 0 THEN remaining[r] - 1
                                                     ELSE remaining[r]
              /\ deviations'[r] = IF remaining[r] = 0 /\ r.entity \in Diff!CoveredAttrs
                                  THEN deviations[r] + 1 ELSE deviations[r]
              /\ unauthorized'[r] = IF remaining[r] = 0 /\ r.entity \notin Diff!CoveredAttrs
                                    THEN unauthorized[r] + 1 ELSE unauthorized[r]
          BY <2>5, <4>1
        <5>2. seen' = seen + 1
          BY <3>2, <4>1
        <5>3. CASE remaining[r] > 0
          BY <3>1, <3>2, <5>1, <5>2, <5>3
        <5>4. CASE remaining[r] = 0
          BY <3>1, <3>2, <5>1, <5>2, <5>4
        <5> QED BY <3>2, <5>3, <5>4
      <4>2. CASE r # Diff!row
        BY <2>5, <3>1, <3>2, <4>2
      <4> QED BY <4>1, <4>2
    <3> QED BY <3>3 DEF Accounted, seen, due
  <2> QED BY <2>1, <2>5, <2>6 DEF DiffInv
<1> QED BY <1>1, <1>2

LEMMA AllRowsSeen ==
  ASSUME DiffInv, Diff!Finished, NEW r \in Diff!Row
  PROVE  /\ Cardinality(SeenRows(r, looked)) = Diff!CountOf(actual)[r]
         /\ Diff!CountOf(actual)[r] \in Nat /\ Diff!CountOf(allowed)[r] \in Nat
         /\ unauthorized[r] \in Nat /\ deviations[r] \in Nat
<1>1. DOMAIN actual = 1 .. looked
  BY DEF DiffInv, Diff!Finished
<1>2. SeenRows(r, looked) = {k \in DOMAIN actual : actual[k] = r}
  BY <1>1 DEF SeenRows
<1>3. Diff!CountOf(actual)[r] = Cardinality({k \in DOMAIN actual : actual[k] = r})
  BY DEF Diff!CountOf, Diff!Cardinality, Cardinality
<1> QED BY <1>2, <1>3, CountOfLedger DEF DiffInv, Diff!Ledger

(* The violating rows of diff are the excess of the journal over the ledger. *)
LEMMA DiffFindsTheExcess == DiffInv => Diff!FindsTheExcess
<1>1. ASSUME DiffInv, Diff!Finished
      PROVE  Diff!AddRows(unauthorized, deviations)
               = Diff!Excess(Diff!CountOf(actual), Diff!CountOf(allowed))
  <2>1. \A r \in Diff!Row : unauthorized[r] + deviations[r]
          = IF Diff!CountOf(actual)[r] > Diff!CountOf(allowed)[r]
            THEN Diff!CountOf(actual)[r] - Diff!CountOf(allowed)[r] ELSE 0
    BY <1>1, AllRowsSeen DEF DiffInv, Accounted
  <2> QED BY <2>1 DEF Diff!AddRows, Diff!Excess
<1> QED BY <1>1 DEF Diff!FindsTheExcess

(* The kinds of violation diff reports are those of the excess: a surplus on *)
(* a field the ledger declares is a deviation, any other is unauthorized.    *)
LEMMA DiffFindsTheKinds == DiffInv => Diff!FindsTheKinds
<1>1. ASSUME DiffInv, Diff!Finished
      PROVE  Diff!Violations = Diff!ViolationKinds(Diff!CountOf(actual), Diff!CountOf(allowed))
  <2>1. ASSUME NEW r \in Diff!Row
        PROVE  Diff!Covered(r, Diff!CountOf(allowed)) <=> r.entity \in Diff!CoveredAttrs
    <3>1. \A q \in Diff!Row : Diff!CountOf(allowed)[q] > 0
                           <=> \E k \in DOMAIN allowed : allowed[k] = q
      BY <1>1, RowPositions DEF Diff!CountOf, DiffInv, Diff!Cardinality, Cardinality
    <3>2. \A k \in DOMAIN allowed : allowed[k] \in Diff!Row
      BY <1>1 DEF DiffInv
    <3> QED BY <3>1, <3>2 DEF Diff!Covered, Diff!CoveredAttrs
  <2>2. ASSUME NEW r \in Diff!Row
        PROVE  /\ unauthorized[r] > 0 <=>
                    /\ Diff!CountOf(actual)[r] > Diff!CountOf(allowed)[r]
                    /\ ~Diff!Covered(r, Diff!CountOf(allowed))
               /\ deviations[r] > 0 <=>
                    /\ Diff!CountOf(actual)[r] > Diff!CountOf(allowed)[r]
                    /\ Diff!Covered(r, Diff!CountOf(allowed))
    <3>1. Accounted(r)
      BY <1>1 DEF DiffInv
    <3> QED BY <1>1, <2>1, <3>1, AllRowsSeen DEF Accounted
  <2>3. /\ unauthorized # Diff!NoRows <=> \E r \in Diff!Row : unauthorized[r] > 0
        /\ deviations # Diff!NoRows <=> \E r \in Diff!Row : deviations[r] > 0
    <3>1. ASSUME NEW l \in Diff!Ledger
          PROVE  l # Diff!NoRows <=> \E r \in Diff!Row : l[r] > 0
      BY DEF Diff!Ledger, Diff!NoRows
    <3> QED BY <1>1, <3>1 DEF DiffInv
  <2> QED BY <2>2, <2>3 DEF Diff!Violations, Diff!ViolationKinds
<1> QED BY <1>1 DEF Diff!FindsTheKinds

(* A step of a behaviour is one of the loop's or leaves it alone. *)
LEMMA DiffOnly == [MCNext]_<<which, fileVars, gameVars>> => [Diff!Next]_(Diff!vars)
BY DEF MCNext, FilesNext, GameNext, fileVars, diffVars, Diff!vars

(* The loop of diff ends with the excess of the journal over the ledger and  *)
(* with the kinds of violation the referee counts, for lists of any length.  *)
THEOREM DiffStaysExact == MCSpec => []DiffIsExact
<1>1. MCInit => DiffInv
  BY DiffStarts DEF MCInit
<1>2. DiffInv => DiffIsExact
  BY DiffFindsTheExcess, DiffFindsTheKinds DEF DiffIsExact, Diff!DiffIsExact
<1> QED BY <1>1, <1>2, DiffSteps, DiffOnly, PTL DEF MCSpec
=============================================================================
