-------------------------- MODULE RefereeLogProofs --------------------------
(***************************************************************************)
(* What the referee's log says: the counters, the idempotency index and    *)
(* the diary are what its records say, a key is carried out again only     *)
(* after a rollback, and an accepted call lies under its own lease.        *)
(*                                                                         *)
(* A handler appends segments of records to the log.  The first part says  *)
(* what appending a segment does to each thing that is read from a log,    *)
(* for any log; the second applies that to one handler after the other.    *)
(***************************************************************************)
EXTENDS RefereeProofs, FiniteSetTheorems, WellFoundedInduction

-----------------------------------------------------------------------------
(* Appending a segment *)

(* The records of a log and a segment behind it. *)
LEMMA Appended ==
  ASSUME NEW a \in Seq(Record), NEW b \in Seq(Record)
  PROVE  /\ a \o b \in Seq(Record)
         /\ Len(a) \in Nat /\ Len(b) \in Nat /\ Len(a \o b) = Len(a) + Len(b)
         /\ DOMAIN a = 1 .. Len(a) /\ DOMAIN b = 1 .. Len(b)
         /\ DOMAIN (a \o b) = 1 .. (Len(a) + Len(b))
         /\ \A i \in 1 .. Len(a) : (a \o b)[i] = a[i]
         /\ \A i \in 1 .. Len(b) : (a \o b)[Len(a) + i] = b[i]
         /\ \A i \in 1 .. (Len(a) + Len(b)) :
              i \in 1 .. Len(a) \/ \E j \in 1 .. Len(b) : i = Len(a) + j
<1>1. /\ a \o b \in Seq(Record) /\ Len(a) \in Nat /\ Len(b) \in Nat
      /\ Len(a \o b) = Len(a) + Len(b)
      /\ DOMAIN a = 1 .. Len(a) /\ DOMAIN b = 1 .. Len(b)
      /\ DOMAIN (a \o b) = 1 .. (Len(a) + Len(b))
  BY ConcatProperties, LenProperties
<1>2. \A i \in 1 .. Len(a) : (a \o b)[i] = a[i]
  BY <1>1, ConcatProperties
<1>3. \A i \in 1 .. Len(b) : (a \o b)[Len(a) + i] = b[i]
  BY <1>1, ConcatProperties
<1>4. \A i \in 1 .. (Len(a) + Len(b)) :
        i \in 1 .. Len(a) \/ \E j \in 1 .. Len(b) : i = Len(a) + j
  <2> TAKE i \in 1 .. (Len(a) + Len(b))
  <2>1. i <= Len(a) \/ i - Len(a) \in 1 .. Len(b)
    BY <1>1
  <2> QED BY <1>1, <2>1
<1> QED BY <1>1, <1>2, <1>3, <1>4

\* The same for a segment of two records.
LEMMA AppendedTwo ==
  ASSUME NEW a \in Seq(Record), NEW s \in Seq(Record), Len(s) = 2
  PROVE  /\ DOMAIN a = 1 .. Len(a) /\ DOMAIN (a \o s) = 1 .. (Len(a) + 2)
         /\ Len(a) \in Nat
         /\ \A i \in DOMAIN a : i \in DOMAIN (a \o s) /\ (a \o s)[i] = a[i]
         /\ (a \o s)[Len(a) + 1] = s[1] /\ (a \o s)[Len(a) + 2] = s[2]
<1> DEFINE b == a \o s
<1>1. /\ DOMAIN a = 1 .. Len(a) /\ DOMAIN b = 1 .. (Len(a) + Len(s))
      /\ Len(a) \in Nat
      /\ \A i \in 1 .. Len(a) : b[i] = a[i]
      /\ \A i \in 1 .. Len(s) : b[Len(a) + i] = s[i]
  BY Appended
<1> HIDE DEF b
<1>2. b[Len(a) + 1] = s[1] /\ b[Len(a) + 2] = s[2]
  BY <1>1
<1>3. DOMAIN b = 1 .. (Len(a) + 2) /\ \A i \in DOMAIN a : i \in DOMAIN b
  BY <1>1
<1> QED BY <1>1, <1>2, <1>3 DEF b

\* Segments that leave something alone.
Uncommitted(s) == \A i \in DOMAIN s : ~Committed(s[i])
Silent(s) == \A i \in DOMAIN s : ~Committed(s[i]) /\ ~Undone(s[i])
Unnoted(s) ==
  \A i \in DOMAIN s : ~(/\ s[i].kind = "TOOL_RESULT" /\ s[i].tool = "write_diary"
                        /\ s[i].status = "accepted")
Unaccepted(s) ==
  \A i \in DOMAIN s : ~(s[i].kind = "TOOL_RESULT" /\ s[i].status = "accepted")
Unleased(s) == \A i \in DOMAIN s : s[i].kind \notin {"LEASE_GRANT", "LEASE_RELEASE"}

(* The index is not touched by records that neither commit nor undo. *)
LEMMA IndexOverSilence ==
  ASSUME NEW a \in Seq(Record), NEW s \in Seq(Record), Silent(s)
  PROVE  DedupeFrom(a \o s) = DedupeFrom(a)
<1> DEFINE b == a \o s
<1>1. /\ DOMAIN a = 1 .. Len(a) /\ DOMAIN b = 1 .. (Len(a) + Len(s))
      /\ Len(a) \in Nat /\ Len(s) \in Nat
      /\ \A i \in DOMAIN a : i \in DOMAIN b /\ b[i] = a[i]
  BY Appended
<1>2. \A i \in DOMAIN b : Committed(b[i]) \/ Undone(b[i]) => i \in DOMAIN a
  BY Appended DEF Silent
<1> HIDE DEF b
<1>3. ASSUME NEW k
      PROVE  k \in DedupeFrom(a) <=> k \in DedupeFrom(b)
  <2>1. k \in DedupeFrom(a) => k \in DedupeFrom(b)
    BY <1>1, <1>2 DEF DedupeFrom
  <2>2. k \in DedupeFrom(b) => k \in DedupeFrom(a)
    BY <1>1, <1>2 DEF DedupeFrom
  <2> QED BY <2>1, <2>2
<1> QED BY <1>3 DEF b

\* The two records of a tool call.
IsPair(s, tool, p, arg, key, status, dup) ==
  /\ s \in Seq(Record) /\ Len(s) = 2 /\ DOMAIN s = {1, 2}
  /\ s[1].kind = "TOOL_CALL" /\ s[1].tool = tool /\ s[1].player = p
  /\ s[1].turn = turn /\ s[1].arg = arg
  /\ s[2].kind = "TOOL_RESULT" /\ s[2].tool = tool /\ s[2].player = p
  /\ s[2].turn = turn /\ s[2].key = key /\ s[2].status = status
  /\ s[2].duplicate = dup /\ s[2].rolled_back = FALSE

\* A call and its answer are the two records the log takes.
LEMMA PairRecords ==
  ASSUME turn \in Nat, NEW p \in Player, NEW tool \in Tool,
         NEW arg \in Entity \cup Note \cup {NoArg}, NEW key \in Key \cup {NoKey},
         NEW status \in {"accepted", "rejected"}, NEW dup \in BOOLEAN
  PROVE  IsPair(Pair(tool, p, arg, key, status, dup), tool, p, arg, key, status, dup)
<1> DEFINE c == ToolCall(tool, p, arg, key)
           r == ToolResult(tool, p, key, status, dup)
           s == Pair(tool, p, arg, key, status, dup)
<1>1. s \in Seq(Record)
  BY RecordTypes
<1>2. s = <<c, r>>
  BY DEF Pair
<1>3. /\ c.kind = "TOOL_CALL" /\ c.tool = tool /\ c.player = p
      /\ c.turn = turn /\ c.arg = arg
  BY DEF ToolCall, Event
<1>4. /\ r.kind = "TOOL_RESULT" /\ r.tool = tool /\ r.player = p
      /\ r.turn = turn /\ r.key = key /\ r.status = status
      /\ r.duplicate = dup /\ r.rolled_back = FALSE
  BY DEF ToolResult, Event
<1> HIDE DEF c, r
<1>5. Len(<<c, r>>) = 2 /\ DOMAIN <<c, r>> = {1, 2} /\ <<c, r>>[1] = c /\ <<c, r>>[2] = r
  OBVIOUS
<1>6. IsPair(s, tool, p, arg, key, status, dup)
  <2> HIDE DEF s
  <2> QED BY <1>1, <1>2, <1>3, <1>4, <1>5 DEF IsPair
<1> QED BY <1>6

(* An order that is carried out enters its key. *)
LEMMA IndexOverCommit ==
  ASSUME NEW a \in Seq(Record), NEW s \in Seq(Record), NEW k \in Key, Len(s) = 2,
         ~Committed(s[1]), ~Undone(s[1]),
         Committed(s[2]), ~Undone(s[2]), s[2].key = k
  PROVE  DedupeFrom(a \o s) = DedupeFrom(a) \cup {k}
<1> DEFINE b == a \o s
<1>1. /\ DOMAIN a = 1 .. Len(a) /\ DOMAIN b = 1 .. (Len(a) + 2)
      /\ Len(a) \in Nat
      /\ \A i \in DOMAIN a : i \in DOMAIN b /\ b[i] = a[i]
      /\ b[Len(a) + 1] = s[1] /\ b[Len(a) + 2] = s[2]
  BY AppendedTwo
<1>2. \A i \in DOMAIN b : Undone(b[i]) => i \in DOMAIN a
  BY <1>1
<1>3. \A i \in DOMAIN b : Committed(b[i]) => i \in DOMAIN a \/ i = Len(a) + 2
  BY <1>1
<1> HIDE DEF b
<1>4. k \in DedupeFrom(b)
  <2>1. Len(a) + 2 \in DOMAIN b /\ k # NoKey
    BY <1>1, NamesAssumption
  <2>2. \A j \in DOMAIN b : Undone(b[j]) /\ b[j].key = k => j < Len(a) + 2
    BY <1>1, <1>2
  <2> QED BY <1>1, <2>1, <2>2 DEF DedupeFrom
<1>5. ASSUME NEW x, x # k
      PROVE  x \in DedupeFrom(a) <=> x \in DedupeFrom(b)
  <2>1. x \in DedupeFrom(a) => x \in DedupeFrom(b)
    BY <1>1, <1>2 DEF DedupeFrom
  <2>2. ASSUME x \in DedupeFrom(b) PROVE x \in DedupeFrom(a)
    <3>1. PICK i \in DOMAIN b :
            /\ Committed(b[i]) /\ b[i].key = x
            /\ \A j \in DOMAIN b : Undone(b[j]) /\ b[j].key = x => j < i
      BY <2>2 DEF DedupeFrom
    <3>2. i \in DOMAIN a /\ a[i] = b[i]
      BY <1>1, <1>3, <1>5, <3>1
    <3>3. \A j \in DOMAIN a : Undone(a[j]) /\ a[j].key = x => j < i
      BY <1>1, <3>1
    <3>4. x # NoKey
      BY <2>2 DEF DedupeFrom
    <3> QED BY <3>1, <3>2, <3>3, <3>4 DEF DedupeFrom
  <2> QED BY <2>1, <2>2
<1> QED BY <1>4, <1>5 DEF b

(* A rollback takes its key out. *)
LEMMA IndexOverRollback ==
  ASSUME NEW a \in Seq(Record), NEW r \in Record, NEW k \in Key,
         ~Committed(r), Undone(r), r.key = k
  PROVE  DedupeFrom(a \o <<r>>) = DedupeFrom(a) \ {k}
<1> DEFINE b == a \o <<r>>
<1>1. /\ DOMAIN a = 1 .. Len(a) /\ DOMAIN b = 1 .. (Len(a) + 1)
      /\ Len(a) \in Nat
      /\ \A i \in DOMAIN a : i \in DOMAIN b /\ b[i] = a[i]
      /\ b[Len(a) + 1] = r
  BY Appended
<1>2. \A i \in DOMAIN b : Committed(b[i]) => i \in DOMAIN a
  BY <1>1
<1>3. \A i \in DOMAIN b : Undone(b[i]) => i \in DOMAIN a \/ i = Len(a) + 1
  BY <1>1
<1> HIDE DEF b
<1>4. k \notin DedupeFrom(b)
  <2>1. Len(a) + 1 \in DOMAIN b /\ Undone(b[Len(a) + 1]) /\ b[Len(a) + 1].key = k
    BY <1>1
  <2>2. \A i \in DOMAIN b : Committed(b[i]) => ~(Len(a) + 1 < i)
    BY <1>1, <1>2
  <2>3. ASSUME NEW i \in DOMAIN b, Committed(b[i]), Len(a) + 1 < i PROVE FALSE
    BY <2>2, <2>3
  <2>4. ASSUME k \in DedupeFrom(b) PROVE FALSE
    <3>1. PICK i \in DOMAIN b :
            /\ Committed(b[i])
            /\ \A j \in DOMAIN b : Undone(b[j]) /\ b[j].key = k => j < i
      BY <2>4 DEF DedupeFrom
    <3> QED BY <2>1, <2>3, <3>1
  <2> QED BY <2>4
<1>5. ASSUME NEW x, x # k
      PROVE  x \in DedupeFrom(a) <=> x \in DedupeFrom(b)
  <2>1. x \in DedupeFrom(a) => x \in DedupeFrom(b)
    BY <1>1, <1>3, <1>5 DEF DedupeFrom
  <2>2. x \in DedupeFrom(b) => x \in DedupeFrom(a)
    BY <1>1, <1>2 DEF DedupeFrom
  <2> QED BY <2>1, <2>2
<1> QED BY <1>4, <1>5 DEF b

\* AtMostOnce of any log.
Once(recs) ==
  \A i, j \in DOMAIN recs :
    i < j /\ Committed(recs[i]) /\ Committed(recs[j]) /\ recs[i].key = recs[j].key
      => \E k \in i .. j : Undone(recs[k]) /\ recs[k].key = recs[i].key

\* Appending what commits nothing lets no key be committed twice.
LEMMA OnceOverUncommitted ==
  ASSUME NEW a \in Seq(Record), NEW s \in Seq(Record), Uncommitted(s), Once(a)
  PROVE  Once(a \o s)
<1> DEFINE b == a \o s
<1>1. /\ DOMAIN a = 1 .. Len(a) /\ DOMAIN b = 1 .. (Len(a) + Len(s))
      /\ Len(a) \in Nat /\ Len(s) \in Nat
      /\ \A i \in DOMAIN a : i \in DOMAIN b /\ b[i] = a[i]
  BY Appended
<1>2. \A i \in DOMAIN b : Committed(b[i]) => i \in DOMAIN a
  BY Appended DEF Uncommitted
<1> HIDE DEF b
<1>3. ASSUME NEW i \in DOMAIN b, NEW j \in DOMAIN b, i < j,
             Committed(b[i]), Committed(b[j]), b[i].key = b[j].key
      PROVE  \E k \in i .. j : Undone(b[k]) /\ b[k].key = b[i].key
  <2>1. i \in DOMAIN a /\ j \in DOMAIN a /\ b[i] = a[i] /\ b[j] = a[j]
    BY <1>1, <1>2, <1>3
  <2>2. PICK k \in i .. j : Undone(a[k]) /\ a[k].key = a[i].key
    BY <1>3, <2>1 DEF Once
  <2>3. k \in DOMAIN a
    BY <1>1, <2>1
  <2> QED BY <1>1, <2>1, <2>2, <2>3
<1> QED BY <1>3 DEF Once, b

(* What is not in the index was never carried out, or undone since. *)
LEMMA OnceOverCommit ==
  ASSUME NEW a \in Seq(Record), NEW s \in Seq(Record), NEW k \in Key, Len(s) = 2,
         ~Committed(s[1]), Committed(s[2]), s[2].key = k,
         Once(a), k \notin DedupeFrom(a)
  PROVE  Once(a \o s)
<1> DEFINE b == a \o s
<1>1. /\ DOMAIN a = 1 .. Len(a) /\ DOMAIN b = 1 .. (Len(a) + 2)
      /\ Len(a) \in Nat
      /\ \A i \in DOMAIN a : i \in DOMAIN b /\ b[i] = a[i]
      /\ b[Len(a) + 1] = s[1] /\ b[Len(a) + 2] = s[2]
  BY AppendedTwo
<1>2. \A i \in DOMAIN b : Committed(b[i]) => i \in DOMAIN a \/ i = Len(a) + 2
  BY <1>1
<1> HIDE DEF b
<1>3. ASSUME NEW i \in DOMAIN a, Committed(a[i]), a[i].key = k
      PROVE  \E j \in DOMAIN a : Undone(a[j]) /\ a[j].key = k /\ ~(j < i)
  BY <1>3 DEF DedupeFrom, Committed
<1>4. ASSUME NEW i \in DOMAIN b, NEW j \in DOMAIN b, i < j,
             Committed(b[i]), Committed(b[j]), b[i].key = b[j].key
      PROVE  \E m \in i .. j : Undone(b[m]) /\ b[m].key = b[i].key
  <2>1. i \in DOMAIN a /\ b[i] = a[i]
    BY <1>1, <1>2, <1>4
  <2>2. CASE j \in DOMAIN a
    <3>1. PICK m \in i .. j : Undone(a[m]) /\ a[m].key = a[i].key
      BY <1>1, <1>4, <2>1, <2>2 DEF Once
    <3>2. m \in DOMAIN a
      BY <1>1, <2>1, <2>2
    <3> QED BY <1>1, <2>1, <3>1, <3>2
  <2>3. CASE j = Len(a) + 2
    <3>1. a[i].key = k
      BY <1>1, <1>4, <2>1, <2>3
    <3>2. PICK m \in DOMAIN a : Undone(a[m]) /\ a[m].key = k /\ ~(m < i)
      BY <1>3, <1>4, <2>1, <3>1
    <3>3. m \in i .. j /\ b[m] = a[m]
      BY <1>1, <2>1, <2>3, <3>2
    <3> QED BY <2>1, <3>1, <3>2, <3>3
  <2> QED BY <1>2, <1>4, <2>2, <2>3
<1> QED BY <1>4 DEF Once, b

-----------------------------------------------------------------------------
(* The diary *)

Below == {ss \in Nat \X Nat : ss[1] < ss[2]}

(* A set of naturals that is not empty has a least element. *)
LEMMA Least ==
  ASSUME NEW T, T \subseteq Nat, T # {}
  PROVE  \E x \in T : \A y \in T : x <= y
<1>1. IsWellFoundedOn(Below, Nat)
  BY NatLessThanWellFounded DEF OpToRel, Below
<1>2. PICK x \in T : \A y \in T : ~(<<y, x>> \in Below)
  BY <1>1, WFMin
<1>3. ASSUME NEW y \in T PROVE x <= y
  <2>1. x \in Nat /\ y \in Nat
    OBVIOUS
  <2>2. y < x => <<y, x>> \in Below
    BY <2>1 DEF Below
  <2> QED BY <1>2, <2>1, <2>2
<1> QED BY <1>3

(* And one that is bounded has a last. *)
LEMMA Last ==
  ASSUME NEW n \in Nat, NEW T, T \subseteq 0 .. n, T # {}
  PROVE  \E x \in T : \A y \in T : y <= x
<1> DEFINE U == {m \in Nat : n - m \in T}
<1>1. PICK t \in T : TRUE
  OBVIOUS
<1>2. n - t \in U
  <2>1. t \in 0 .. n /\ n - t \in Nat /\ n - (n - t) = t
    BY <1>1
  <2> QED BY <2>1
<1>3. PICK u \in U : \A v \in U : u <= v
  <2>1. U \subseteq Nat /\ U # {}
    BY <1>2
  <2> HIDE DEF U
  <2> QED BY <2>1, Least
<1>4. ASSUME NEW y \in T PROVE y <= n - u
  <2>1. y \in 0 .. n /\ n - y \in Nat /\ n - (n - y) = y
    OBVIOUS
  <2>2. n - y \in U
    BY <2>1
  <2> QED BY <1>3, <2>1, <2>2
<1> QED BY <1>3, <1>4

(* A diary is what it was under records that note nothing. *)
LEMMA DiaryOverUnnoted ==
  ASSUME NEW a \in Seq(Record), NEW s \in Seq(Record), Unnoted(s)
  PROVE  DiaryFrom(a \o s) = DiaryFrom(a)
<1> DEFINE b == a \o s
<1>1. /\ DOMAIN a = 1 .. Len(a) /\ DOMAIN b = 1 .. (Len(a) + Len(s))
      /\ Len(a) \in Nat /\ Len(s) \in Nat
      /\ \A i \in DOMAIN a : i \in DOMAIN b /\ b[i] = a[i]
  BY Appended
<1>2. \A i \in DOMAIN b :
        /\ b[i].kind = "TOOL_RESULT" /\ b[i].tool = "write_diary"
        /\ b[i].status = "accepted"
        => i \in DOMAIN a
  BY Appended DEF Unnoted
<1> HIDE DEF b
<1>3. ASSUME NEW p \in Player
      PROVE  Noted(b, p) = Noted(a, p)
  <2>1. ASSUME NEW i \in Noted(b, p) PROVE i \in Noted(a, p)
    <3>1. i \in DOMAIN b /\ i + 1 \in DOMAIN b /\ i + 1 \in DOMAIN a
      BY <1>2, <2>1 DEF Noted
    <3>2. i \in DOMAIN a
      BY <1>1, <3>1
    <3> QED BY <1>1, <2>1, <3>1, <3>2 DEF Noted
  <2>2. ASSUME NEW i \in Noted(a, p) PROVE i \in Noted(b, p)
    BY <1>1, <2>2 DEF Noted
  <2> QED BY <2>1, <2>2
<1>4. ASSUME NEW p \in Player
      PROVE  DiaryFrom(b)[p] = DiaryFrom(a)[p]
  <2> DEFINE T == Noted(a, p)
             c == CHOOSE i \in T : \A j \in T : j <= i
  <2>1. CASE T = {}
    BY <1>3, <2>1 DEF DiaryFrom
  <2>2. CASE T # {}
    <3>1. T \subseteq 0 .. Len(a) /\ T \subseteq DOMAIN a
      BY <1>1 DEF Noted
    <3>2. c \in T
      <4> HIDE DEF T
      <4>1. \E i \in T : \A j \in T : j <= i
        BY <1>1, <2>2, <3>1, Last
      <4> QED BY <4>1
    <3>3. a[c] = b[c]
      <4> HIDE DEF c, T
      <4> QED BY <1>1, <3>1, <3>2
    <3>4. DiaryFrom(a)[p] = a[c].arg /\ DiaryFrom(b)[p] = b[c].arg
      BY <1>3, <2>2 DEF DiaryFrom
    <3> HIDE DEF c
    <3> QED BY <3>3, <3>4
  <2> QED BY <2>1, <2>2
<1>5. DiaryFrom(a) = [p \in Player |-> DiaryFrom(a)[p]]
  BY DEF DiaryFrom
<1>6. DiaryFrom(b) = [p \in Player |-> DiaryFrom(b)[p]]
  BY DEF DiaryFrom
<1>7. DiaryFrom(b) = DiaryFrom(a)
  BY <1>4, <1>5, <1>6
<1> QED BY <1>7 DEF b

(* A note that is accepted is the last of its seat. *)
LEMMA DiaryOverNote ==
  ASSUME NEW a \in Seq(Record), NEW p \in Player, NEW note,
         NEW s, IsPair(s, "write_diary", p, note, NoKey, "accepted", FALSE)
  PROVE  DiaryFrom(a \o s) = [DiaryFrom(a) EXCEPT ![p] = note]
<1> DEFINE b == a \o s
           n == Len(a) + 1
<1>1. /\ s \in Seq(Record) /\ Len(s) = 2
      /\ s[1].kind = "TOOL_CALL" /\ s[1].tool = "write_diary" /\ s[1].player = p
      /\ s[1].turn = turn /\ s[1].arg = note
      /\ s[2].kind = "TOOL_RESULT" /\ s[2].tool = "write_diary" /\ s[2].player = p
      /\ s[2].turn = turn /\ s[2].status = "accepted"
  BY DEF IsPair
<1>2. /\ DOMAIN a = 1 .. Len(a) /\ DOMAIN b = 1 .. (Len(a) + 2)
      /\ Len(a) \in Nat
      /\ \A i \in DOMAIN a : i \in DOMAIN b /\ b[i] = a[i]
      /\ b[Len(a) + 1] = s[1] /\ b[Len(a) + 2] = s[2]
  BY <1>1, AppendedTwo
<1> HIDE DEF b
<1>3. Noted(b, p) = Noted(a, p) \cup {n}
  <2>1. n \in Noted(b, p)
    BY <1>1, <1>2 DEF Noted
  <2>2. ASSUME NEW i \in Noted(a, p) PROVE i \in Noted(b, p)
    BY <1>2, <2>2 DEF Noted
  <2>3. ASSUME NEW i \in Noted(b, p), i # n PROVE i \in Noted(a, p)
    <3>1. i \in 1 .. (Len(a) + 2) /\ i + 1 \in 1 .. (Len(a) + 2) /\ b[i].kind = "TOOL_CALL"
          /\ b[i + 1].kind = "TOOL_RESULT"
      BY <1>2, <2>3 DEF Noted
    <3>2. i + 1 \in DOMAIN a /\ i \in DOMAIN a
      BY <1>1, <1>2, <2>3, <3>1
    <3> QED BY <1>2, <2>3, <3>2 DEF Noted
  <2> QED BY <2>1, <2>2, <2>3
<1>4. ASSUME NEW q \in Player, q # p
      PROVE  Noted(b, q) = Noted(a, q)
  <2>1. ASSUME NEW i \in Noted(a, q) PROVE i \in Noted(b, q)
    BY <1>2, <2>1 DEF Noted
  <2>2. ASSUME NEW i \in Noted(b, q) PROVE i \in Noted(a, q)
    <3>1. i \in 1 .. (Len(a) + 2) /\ i + 1 \in 1 .. (Len(a) + 2) /\ b[i].kind = "TOOL_CALL"
          /\ b[i + 1].kind = "TOOL_RESULT" /\ b[i].player = q
      BY <1>2, <2>2 DEF Noted
    <3>2. i + 1 \in DOMAIN a /\ i \in DOMAIN a
      BY <1>1, <1>2, <1>4, <3>1
    <3> QED BY <1>2, <2>2, <3>2 DEF Noted
  <2> QED BY <2>1, <2>2
<1>5. DiaryFrom(b)[p] = note
  <2> DEFINE T == Noted(b, p)
             c == CHOOSE i \in T : \A j \in T : j <= i
  <2>1. n \in T /\ \A j \in T : j \in Nat /\ j <= n
    BY <1>2, <1>3 DEF Noted
  <2>2. c = n
    <3> HIDE DEF T
    <3>1. c \in T /\ \A j \in T : j <= c
      BY <2>1
    <3> QED BY <2>1, <3>1
  <2>3. DiaryFrom(b)[p] = b[c].arg
    BY <2>1 DEF DiaryFrom
  <2> HIDE DEF c
  <2> QED BY <1>1, <1>2, <2>2, <2>3
<1>6. ASSUME NEW q \in Player, q # p
      PROVE  DiaryFrom(b)[q] = DiaryFrom(a)[q]
  <2> DEFINE T == Noted(a, q)
             c == CHOOSE i \in T : \A j \in T : j <= i
  <2>1. CASE T = {}
    BY <1>4, <1>6, <2>1 DEF DiaryFrom
  <2>2. CASE T # {}
    <3>1. T \subseteq 0 .. Len(a) /\ T \subseteq DOMAIN a
      BY <1>2 DEF Noted
    <3>2. c \in T
      <4> HIDE DEF T
      <4>1. \E i \in T : \A j \in T : j <= i
        BY <1>2, <2>2, <3>1, Last
      <4> QED BY <4>1
    <3>3. a[c] = b[c]
      <4> HIDE DEF c, T
      <4> QED BY <1>2, <3>1, <3>2
    <3>4. DiaryFrom(a)[q] = a[c].arg /\ DiaryFrom(b)[q] = b[c].arg
      BY <1>4, <1>6, <2>2 DEF DiaryFrom
    <3> HIDE DEF c
    <3> QED BY <3>3, <3>4
  <2> QED BY <2>1, <2>2
<1>7. DiaryFrom(b) = [DiaryFrom(a) EXCEPT ![p] = note]
  <2>1. /\ DiaryFrom(a) = [q \in Player |-> DiaryFrom(a)[q]]
        /\ DiaryFrom(b) = [q \in Player |-> DiaryFrom(b)[q]]
    BY DEF DiaryFrom
  <2> QED BY <1>5, <1>6, <2>1
<1> QED BY <1>7 DEF b

-----------------------------------------------------------------------------
(* The counters *)

\* Where the records of a set are in a log.
Where(recs, set) == {i \in DOMAIN recs : recs[i] \in set}

FlagsOf(seats) == {r \in Record : r.kind = "VIOLATION" /\ r.player \in seats}

\* A count over the log is a number.
LEMMA WhereFinite ==
  ASSUME NEW recs \in Seq(Record), NEW set
  PROVE  IsFiniteSet(Where(recs, set)) /\ Cardinality(Where(recs, set)) \in Nat
<1>1. IsFiniteSet(1 .. Len(recs))
  BY FS_Interval
<1>2. Where(recs, set) \in SUBSET (1 .. Len(recs))
  BY DEF Where
<1> QED BY <1>1, <1>2, FS_Subset, FS_CardinalityType

(* Appending a segment adds its own occurrences. *)
LEMMA WhereOver ==
  ASSUME NEW a \in Seq(Record), NEW s \in Seq(Record), NEW set
  PROVE  Cardinality(Where(a \o s, set))
           = Cardinality(Where(a, set)) + Cardinality(Where(s, set))
<1> DEFINE b == a \o s
           W == Where(s, set)
           Moved == {i \in Len(a) + 1 .. Len(a) + Len(s) : b[i] \in set}
<1>1. /\ DOMAIN a = 1 .. Len(a) /\ DOMAIN s = 1 .. Len(s)
      /\ DOMAIN b = 1 .. (Len(a) + Len(s))
      /\ Len(a) \in Nat /\ Len(s) \in Nat
      /\ \A i \in 1 .. Len(a) : b[i] = a[i]
      /\ \A i \in 1 .. Len(s) : b[Len(a) + i] = s[i]
  BY Appended
<1> HIDE DEF b
<1>2. Where(b, set) = Where(a, set) \cup Moved /\ Where(a, set) \cap Moved = {}
  BY <1>1 DEF Where
<1>3. IsFiniteSet(W) /\ IsFiniteSet(Where(a, set))
      /\ Cardinality(W) \in Nat /\ Cardinality(Where(a, set)) \in Nat
  BY WhereFinite
<1>4. IsFiniteSet(Moved) /\ Cardinality(Moved) = Cardinality(W)
  <2> DEFINE f == [i \in W |-> Len(a) + i]
  <2>1. f \in [W -> Moved]
    BY <1>1 DEF Where
  <2>2. \A i, j \in W : f[i] = f[j] => i = j
    BY <1>1 DEF Where
  <2>3. ASSUME NEW m \in Moved PROVE \E i \in W : f[i] = m
    <3>1. m - Len(a) \in W /\ f[m - Len(a)] = m
      BY <1>1 DEF Where
    <3> QED BY <3>1
  <2> HIDE DEF f, Moved, W
  <2>4. f \in Bijection(W, Moved)
    BY <2>1, <2>2, <2>3 DEF Bijection, Injection, Surjection, IsInjective
  <2>5. ExistsBijection(W, Moved)
    BY <2>4 DEF ExistsBijection
  <2> QED BY <1>3, <2>5, FS_Bijection
<1>5. Cardinality(Where(b, set)) = Cardinality(Where(a, set)) + Cardinality(W)
  <2> HIDE DEF Moved, W
  <2>1. Cardinality(Where(a, set) \cup Moved)
          = Cardinality(Where(a, set)) + Cardinality(Moved) - Cardinality({})
    BY <1>2, <1>3, <1>4, FS_Union
  <2> QED BY <1>2, <1>3, <1>4, <2>1, FS_EmptySet
<1> QED BY <1>5 DEF b

\* Records outside a set do not change its count.
LEMMA WhereNot ==
  ASSUME NEW a \in Seq(Record), NEW s \in Seq(Record), NEW set,
         \A i \in DOMAIN s : s[i] \notin set
  PROVE  Cardinality(Where(a \o s, set)) = Cardinality(Where(a, set))
<1>1. Where(s, set) = {}
  BY DEF Where
<1>2. Cardinality(Where(s, set)) = 0
  BY <1>1, FS_EmptySet
<1> QED BY <1>2, WhereOver, WhereFinite

(* The records of a sweep that found n violations of seat p. *)
LEMMA WhereFlags ==
  ASSUME turn \in Nat, NEW a \in Seq(Record), NEW p \in Player, NEW n \in Nat,
         NEW seats
  PROVE  Cardinality(Where(a \o Flags(n, p, turn), FlagsOf(seats)))
           = Cardinality(Where(a, FlagsOf(seats))) + IF p \in seats THEN n ELSE 0
<1> DEFINE s == Flags(n, p, turn)
<1>1. s \in Seq(Record)
  BY RecordTypes
<1>2. DOMAIN s = 1 .. n /\ \A i \in 1 .. n : s[i].kind = "VIOLATION" /\ s[i].player = p
  BY DEF Flags, Event
<1>3. \A i \in 1 .. n : s[i] \in Record
  BY <1>1, <1>2
<1> HIDE DEF s
<1>4. CASE p \in seats
  <2>1. Where(s, FlagsOf(seats)) = 1 .. n
    BY <1>2, <1>3, <1>4 DEF Where, FlagsOf
  <2>2. Cardinality(1 .. n) = n
    BY FS_Interval
  <2> QED BY <1>1, <1>4, <2>1, <2>2, WhereOver DEF s
<1>5. CASE p \notin seats
  <2>1. \A i \in DOMAIN s : s[i] \notin FlagsOf(seats)
    BY <1>2, <1>5 DEF FlagsOf
  <2>2. Cardinality(Where(a \o s, FlagsOf(seats))) = Cardinality(Where(a, FlagsOf(seats)))
    BY <1>1, <2>1, WhereNot
  <2> QED BY <1>5, <2>2, WhereFinite DEF s
<1> QED BY <1>4, <1>5

\* The sets the counters count, by record kind and by seat.
LEMMA CountersAreWhere ==
  ASSUME NEW recs \in Seq(Record)
  PROVE  /\ {i \in DOMAIN recs : recs[i].kind = "VIOLATION"} = Where(recs, FlagsOf(Player))
         /\ \A p \in Player :
              {i \in {j \in DOMAIN recs : recs[j].kind = "VIOLATION"} : recs[i].player = p}
                = Where(recs, FlagsOf({p}))
<1>1. \A i \in DOMAIN recs : recs[i].player \in Player /\ recs[i] \in Record
  <2>1. \A i \in DOMAIN recs : recs[i] \in Record
    OBVIOUS
  <2>2. \A r \in Record : r.player \in Player
    BY DEF Record
  <2> QED BY <2>1, <2>2
<1> QED BY <1>1 DEF Where, FlagsOf

\* The counters are the records of a log.
Counted(v, b, recs) ==
  /\ v = Cardinality(Where(recs, FlagsOf(Player)))
  /\ \A p \in Player : b[p] = Cardinality(Where(recs, FlagsOf({p})))

\* Counted says of a log what CountersMatchLog says of the current one.
LEMMA CountedIsCounters ==
  /\ log \in Seq(Record) => (CountersMatchLog <=> Counted(violations, blame, log))
  /\ log' \in Seq(Record) => (CountersMatchLog' <=> Counted(violations', blame', log'))
<1>1. log \in Seq(Record) => (CountersMatchLog <=> Counted(violations, blame, log))
  BY CountersAreWhere DEF CountersMatchLog, Positions, Counted
<1>2. log' \in Seq(Record) => (CountersMatchLog' <=> Counted(violations', blame', log'))
  BY CountersAreWhere DEF CountersMatchLog, Positions, Counted
<1> QED BY <1>1, <1>2

\* A segment without violations.
Unflagged(s) == \A i \in DOMAIN s : s[i].kind # "VIOLATION"

\* Records that flag nothing leave the counters right.
LEMMA CountedOverUnflagged ==
  ASSUME NEW a \in Seq(Record), NEW s \in Seq(Record), Unflagged(s), NEW v, NEW b,
         Counted(v, b, a)
  PROVE  Counted(v, b, a \o s)
<1>1. \A seats : \A i \in DOMAIN s : s[i] \notin FlagsOf(seats)
  BY DEF Unflagged, FlagsOf
<1>2. \A seats : Cardinality(Where(a \o s, FlagsOf(seats)))
                   = Cardinality(Where(a, FlagsOf(seats)))
  BY <1>1, WhereNot
<1> QED BY <1>2 DEF Counted

(* The sweep counts what it writes down, for the seat it names. *)
LEMMA CountedOverFlags ==
  ASSUME turn \in Nat, NEW a \in Seq(Record), NEW p \in Player, NEW n \in Nat,
         NEW v \in Nat, NEW b \in [Player -> Nat], Counted(v, b, a)
  PROVE  Counted(v + n, [b EXCEPT ![p] = @ + n], a \o Flags(n, p, turn))
<1> DEFINE s == Flags(n, p, turn)
<1>1. \A seats : Cardinality(Where(a \o s, FlagsOf(seats)))
                   = Cardinality(Where(a, FlagsOf(seats))) + IF p \in seats THEN n ELSE 0
  BY WhereFlags
<1> HIDE DEF s
<1>2. v + n = Cardinality(Where(a \o s, FlagsOf(Player)))
  BY <1>1 DEF Counted
<1>3. ASSUME NEW q \in Player
      PROVE  [b EXCEPT ![p] = @ + n][q] = Cardinality(Where(a \o s, FlagsOf({q})))
  <2>1. b[q] = Cardinality(Where(a, FlagsOf({q}))) /\ b[q] \in Nat
    BY DEF Counted
  <2>2. Cardinality(Where(a \o s, FlagsOf({q}))) = b[q] + IF p \in {q} THEN n ELSE 0
    BY <1>1, <2>1
  <2> QED BY <2>1, <2>2
<1>4. Counted(v + n, [b EXCEPT ![p] = @ + n], a \o s)
  BY <1>2, <1>3 DEF Counted
<1> QED BY <1>4 DEF s

-----------------------------------------------------------------------------
(* Leases *)

\* A call accepted at j, under a lease granted at i.
UnderLease(recs, i, j) ==
  /\ recs[i].kind = "LEASE_GRANT" /\ i < j
  /\ recs[i].player = recs[j].player /\ recs[i].turn = recs[j].turn
  /\ \A k \in i + 1 .. j :
       /\ recs[k].kind # "LEASE_GRANT"
       /\ recs[k].kind = "LEASE_RELEASE" => recs[j].tool = "end_turn" /\ j = k + 3

Accepted(rec) == rec.kind = "TOOL_RESULT" /\ rec.status = "accepted"

\* AcceptedUnderOwnLease of any log.
Leased(recs) ==
  \A j \in DOMAIN recs : Accepted(recs[j]) => \E i \in DOMAIN recs : UnderLease(recs, i, j)

\* The last grant of a log is at g, for seat p in turn t, and it still stands.
Granted(recs, g, p, t) ==
  /\ g \in DOMAIN recs /\ recs[g].kind = "LEASE_GRANT"
  /\ recs[g].player = p /\ recs[g].turn = t
  /\ \A k \in DOMAIN recs :
       g < k => recs[k].kind # "LEASE_GRANT" /\ recs[k].kind # "LEASE_RELEASE"

\* It is enough to find a lease for the accepted calls appended.
LEMMA LeasedOver ==
  ASSUME NEW a \in Seq(Record), NEW s \in Seq(Record), Leased(a),
         \A j \in DOMAIN (a \o s) :
           Accepted((a \o s)[j]) /\ j \notin DOMAIN a
             => \E i \in DOMAIN (a \o s) : UnderLease(a \o s, i, j)
  PROVE  Leased(a \o s)
<1> DEFINE b == a \o s
<1>1. /\ DOMAIN a = 1 .. Len(a) /\ DOMAIN b = 1 .. (Len(a) + Len(s))
      /\ Len(a) \in Nat /\ Len(s) \in Nat
      /\ \A i \in DOMAIN a : i \in DOMAIN b /\ b[i] = a[i]
  BY Appended
<1> HIDE DEF b
<1>2. ASSUME NEW j \in DOMAIN a, Accepted(b[j])
      PROVE  \E i \in DOMAIN b : UnderLease(b, i, j)
  <2>1. PICK i \in DOMAIN a : UnderLease(a, i, j)
    BY <1>1, <1>2 DEF Leased
  <2>2. i \in Nat /\ j \in Nat /\ \A k \in i + 1 .. j : k \in DOMAIN a
    BY <1>1
  <2>3. UnderLease(b, i, j)
    BY <1>1, <2>1, <2>2 DEF UnderLease
  <2> QED BY <1>1, <2>3
<1> QED BY <1>2 DEF Leased, b

\* There is nothing to find when none is accepted.
LEMMA LeasedOverUnaccepted ==
  ASSUME NEW a \in Seq(Record), NEW s \in Seq(Record), Leased(a), Unaccepted(s)
  PROVE  Leased(a \o s)
<1>1. ASSUME NEW j \in DOMAIN (a \o s), Accepted((a \o s)[j]) PROVE j \in DOMAIN a
  BY <1>1, Appended DEF Unaccepted, Accepted
<1> QED BY <1>1, LeasedOver

(* A call that is answered under a standing lease of its seat and turn. *)
LEMMA LeasedOverPair ==
  ASSUME NEW a \in Seq(Record), Leased(a),
         NEW p, NEW g, Granted(a, g, p, turn),
         NEW s, NEW tool, NEW arg, NEW key, NEW status, NEW dup,
         IsPair(s, tool, p, arg, key, status, dup)
  PROVE  Leased(a \o s)
<1> DEFINE b == a \o s
<1>1. s \in Seq(Record) /\ Len(s) = 2
  BY DEF IsPair
<1>2. /\ DOMAIN a = 1 .. Len(a) /\ DOMAIN b = 1 .. (Len(a) + 2)
      /\ Len(a) \in Nat
      /\ \A i \in DOMAIN a : i \in DOMAIN b /\ b[i] = a[i]
      /\ b[Len(a) + 1] = s[1] /\ b[Len(a) + 2] = s[2]
  BY <1>1, AppendedTwo
<1> HIDE DEF b
<1>3. ASSUME NEW j \in DOMAIN b, Accepted(b[j]), j \notin DOMAIN a
      PROVE  \E i \in DOMAIN b : UnderLease(b, i, j)
  <2>1. j = Len(a) + 2
    BY <1>2, <1>3 DEF Accepted, IsPair
  <2>2. g \in DOMAIN a /\ g \in DOMAIN b /\ g < j /\ b[g] = a[g]
    BY <1>2, <2>1 DEF Granted
  <2>3. \A k \in g + 1 .. j : b[k].kind # "LEASE_GRANT" /\ b[k].kind # "LEASE_RELEASE"
    <3> TAKE k \in g + 1 .. j
    <3>1. k \in DOMAIN a \/ k = Len(a) + 1 \/ k = Len(a) + 2
      BY <1>2, <2>1, <2>2
    <3>2. CASE k \in DOMAIN a
      BY <1>2, <2>2, <3>2 DEF Granted
    <3>3. CASE k = Len(a) + 1 \/ k = Len(a) + 2
      BY <1>2, <3>3 DEF IsPair
    <3> QED BY <3>1, <3>2, <3>3
  <2>4. UnderLease(b, g, j)
    BY <1>2, <2>1, <2>2, <2>3 DEF UnderLease, Granted, IsPair
  <2> QED BY <2>2, <2>4
<1> QED BY <1>1, <1>3, LeasedOver DEF b

\* A grant stands until the log takes another record of a lease.
LEMMA GrantedOverUnleased ==
  ASSUME NEW a \in Seq(Record), NEW s \in Seq(Record), Unleased(s),
         NEW g, NEW p, NEW t, Granted(a, g, p, t)
  PROVE  Granted(a \o s, g, p, t)
<1> DEFINE b == a \o s
<1>1. /\ DOMAIN a = 1 .. Len(a) /\ DOMAIN b = 1 .. (Len(a) + Len(s))
      /\ \A i \in DOMAIN a : i \in DOMAIN b /\ b[i] = a[i]
      /\ \A i \in DOMAIN b : i \in DOMAIN a \/ b[i].kind \notin {"LEASE_GRANT", "LEASE_RELEASE"}
  BY Appended DEF Unleased
<1> HIDE DEF b
<1>2. Granted(b, g, p, t)
  BY <1>1 DEF Granted
<1> QED BY <1>2 DEF b

(* end_turn: the lease is released, the turn is over, and only then does the *)
(* call get its answer.                                                      *)
LEMMA LeasedOverEnd ==
  ASSUME NEW a \in Seq(Record), Leased(a),
         NEW p, NEW g, Granted(a, g, p, turn),
         NEW c \in Seq(Record), Len(c) = 2,
         c[1].kind = "LEASE_RELEASE", c[2].kind = "TURN_END",
         NEW s, IsPair(s, "end_turn", p, NoArg, NoKey, "accepted", FALSE)
  PROVE  Leased(a \o c \o s)
<1> DEFINE m == a \o c
           b == m \o s
<1>1. s \in Seq(Record) /\ Len(s) = 2
  BY DEF IsPair
<1>2. /\ DOMAIN a = 1 .. Len(a) /\ DOMAIN m = 1 .. (Len(a) + 2)
      /\ Len(a) \in Nat /\ m \in Seq(Record) /\ Len(m) = Len(a) + 2
      /\ \A i \in DOMAIN a : i \in DOMAIN m /\ m[i] = a[i]
      /\ m[Len(a) + 1] = c[1] /\ m[Len(a) + 2] = c[2]
  BY AppendedTwo, Appended
<1>3. Leased(m)
  <2>1. Unaccepted(c)
    BY DEF Unaccepted
  <2> QED BY <2>1, LeasedOverUnaccepted
<1> HIDE DEF m
<1>4. /\ DOMAIN b = 1 .. (Len(a) + 4)
      /\ \A i \in DOMAIN m : i \in DOMAIN b /\ b[i] = m[i]
      /\ b[Len(a) + 3] = s[1] /\ b[Len(a) + 4] = s[2]
  <2>1. /\ DOMAIN b = 1 .. (Len(m) + 2)
        /\ \A i \in DOMAIN m : i \in DOMAIN b /\ b[i] = m[i]
        /\ b[Len(m) + 1] = s[1] /\ b[Len(m) + 2] = s[2]
    BY <1>1, <1>2, AppendedTwo
  <2> HIDE DEF b
  <2> QED BY <1>2, <2>1
<1> HIDE DEF b
<1>5. ASSUME NEW j \in DOMAIN b, Accepted(b[j]), j \notin DOMAIN m
      PROVE  \E i \in DOMAIN b : UnderLease(b, i, j)
  <2>1. j = Len(a) + 4
    BY <1>2, <1>4, <1>5 DEF Accepted, IsPair
  <2>2. g \in DOMAIN a /\ g \in DOMAIN b /\ g < j /\ b[g] = a[g]
    BY <1>2, <1>4, <2>1 DEF Granted
  <2>3. ASSUME NEW k \in g + 1 .. j
        PROVE  /\ b[k].kind # "LEASE_GRANT"
               /\ b[k].kind = "LEASE_RELEASE" => j = k + 3
    <3>1. \/ k \in DOMAIN a \/ k = Len(a) + 1 \/ k = Len(a) + 2
          \/ k = Len(a) + 3 \/ k = Len(a) + 4
      <4>1. Len(a) \in Nat /\ k \in Nat /\ 1 <= k /\ k <= Len(a) + 4
        BY <1>2, <2>1, <2>2
      <4>2. \A n, q \in Nat : 1 <= q /\ q <= n + 4
              => q \in 1 .. n \/ q = n + 1 \/ q = n + 2 \/ q = n + 3 \/ q = n + 4
        OBVIOUS
      <4> QED BY <1>2, <4>1, <4>2
    <3>2. CASE k \in DOMAIN a
      BY <1>2, <1>4, <2>2, <3>2 DEF Granted
    <3>3. CASE k = Len(a) + 1 \/ k = Len(a) + 2
      BY <1>2, <1>4, <2>1, <3>3
    <3>4. CASE k = Len(a) + 3 \/ k = Len(a) + 4
      BY <1>4, <3>4 DEF IsPair
    <3> QED BY <3>1, <3>2, <3>3, <3>4
  <2>4. b[j].tool = "end_turn" /\ b[j].player = p /\ b[j].turn = turn
    BY <1>4, <2>1 DEF IsPair
  <2>5. UnderLease(b, g, j)
    BY <2>2, <2>3, <2>4 DEF UnderLease, Granted
  <2> QED BY <2>2, <2>5
<1> QED BY <1>1, <1>2, <1>3, <1>5, LeasedOver DEF b, m

-----------------------------------------------------------------------------
(* The inductive invariant.  AcceptedUnderOwnLease is not inductive alone: a *)
(* call is accepted on what the lease object says, so a lease that is not    *)
(* released must be the last grant of the log.                               *)
LogInv ==
  /\ CountersMatchLog
  /\ DerivedStateMatchesLog
  /\ AtMostOnce
  /\ AcceptedUnderOwnLease
  /\ ~lease.released => Granted(log, lease.id + 1, lease.player, lease.turn)

\* The properties of the current log, by their names for any log.
LEMMA OfTheLog ==
  /\ AtMostOnce <=> Once(log)
  /\ AtMostOnce' <=> Once(log')
  /\ AcceptedUnderOwnLease <=> Leased(log)
  /\ AcceptedUnderOwnLease' <=> Leased(log')
<1>1. (AtMostOnce <=> Once(log)) /\ (AtMostOnce' <=> Once(log'))
  BY DEF AtMostOnce, Once
<1>2. AcceptedUnderOwnLease <=> Leased(log)
  BY DEF AcceptedUnderOwnLease, Leased, UnderLease, Accepted, Positions
<1>3. AcceptedUnderOwnLease' <=> Leased(log')
  BY DEF AcceptedUnderOwnLease, Leased, UnderLease, Accepted, Positions
<1> QED BY <1>1, <1>2, <1>3

\* A segment that leaves the index, the diary and the counters alone.
Plain(s) == Silent(s) /\ Unnoted(s) /\ Unflagged(s) /\ Unleased(s)

\* A pair that commits no key and writes no diary is plain.
LEMMA PlainPair ==
  ASSUME NEW s, NEW tool, NEW p, NEW arg, NEW key, NEW status, NEW dup,
         IsPair(s, tool, p, arg, key, status, dup),
         key = NoKey \/ status = "rejected" \/ s[2].duplicate = TRUE,
         tool # "write_diary" \/ status = "rejected"
  PROVE  s \in Seq(Record) /\ Plain(s) /\ (status = "rejected" => Unaccepted(s))
<1>1. Silent(s)
  BY DEF IsPair, Silent, Committed, Undone
<1>2. Unnoted(s)
  BY DEF IsPair, Unnoted
<1>3. Unflagged(s) /\ Unleased(s)
  BY DEF IsPair, Unflagged, Unleased
<1>4. status = "rejected" => Unaccepted(s)
  BY DEF IsPair, Unaccepted
<1> QED BY <1>1, <1>2, <1>3, <1>4 DEF IsPair, Plain

(* A single record that is no part of a call. *)
LEMMA PlainEvent ==
  ASSUME turn \in Nat, NEW p \in Player, NEW kind \in Kind \ {"TOOL_CALL", "TOOL_RESULT"}
  PROVE  LET s == <<Event(kind, p, turn)>>
         IN  /\ s \in Seq(Record) /\ Silent(s) /\ Unnoted(s) /\ Unaccepted(s)
             /\ kind # "VIOLATION" => Unflagged(s)
             /\ kind \notin {"LEASE_GRANT", "LEASE_RELEASE"} => Unleased(s)
<1> DEFINE r == Event(kind, p, turn)
           s == <<r>>
<1>1. r \in Record /\ r.kind = kind
  BY RecordTypes DEF Event
<1>2. kind # "TOOL_RESULT"
  OBVIOUS
<1> HIDE DEF r
<1>3. s \in Seq(Record) /\ DOMAIN s = {1} /\ s[1] = r
  BY <1>1
<1> HIDE DEF s
<1> QED BY <1>1, <1>2, <1>3
        DEF Silent, Unnoted, Unaccepted, Unflagged, Unleased, Committed, Undone, s, r

\* Flags are plain but for the counters.
LEMMA PlainFlags ==
  ASSUME turn \in Nat, NEW p \in Player, NEW n \in Nat
  PROVE  LET s == Flags(n, p, turn)
         IN  /\ s \in Seq(Record) /\ Silent(s) /\ Unnoted(s) /\ Unaccepted(s) /\ Unleased(s)
<1> DEFINE s == Flags(n, p, turn)
<1>1. s \in Seq(Record)
  BY RecordTypes
<1>2. DOMAIN s = 1 .. n /\ \A i \in 1 .. n : s[i].kind = "VIOLATION"
  BY DEF Flags, Event
<1> HIDE DEF s
<1>3. Silent(s) /\ Unnoted(s) /\ Unaccepted(s) /\ Unleased(s)
  BY <1>2 DEF Silent, Unnoted, Unaccepted, Unleased, Committed, Undone
<1> QED BY <1>1, <1>3 DEF s

\* Two plain segments make one.
LEMMA JoinedSegments ==
  ASSUME NEW a \in Seq(Record), NEW s \in Seq(Record),
         Plain(a), Plain(s), Unaccepted(a), Unaccepted(s)
  PROVE  a \o s \in Seq(Record) /\ Plain(a \o s) /\ Unaccepted(a \o s)
<1> DEFINE b == a \o s
<1>1. /\ b \in Seq(Record)
      /\ \A i \in DOMAIN b : (\E j \in DOMAIN a : b[i] = a[j]) \/ (\E j \in DOMAIN s : b[i] = s[j])
  <2>1. /\ b \in Seq(Record) /\ DOMAIN b = 1 .. (Len(a) + Len(s))
        /\ DOMAIN a = 1 .. Len(a) /\ DOMAIN s = 1 .. Len(s)
        /\ \A i \in 1 .. Len(a) : b[i] = a[i]
        /\ \A i \in 1 .. Len(s) : b[Len(a) + i] = s[i]
        /\ \A i \in 1 .. (Len(a) + Len(s)) :
             i \in 1 .. Len(a) \/ \E j \in 1 .. Len(s) : i = Len(a) + j
    BY Appended
  <2> HIDE DEF b
  <2>2. ASSUME NEW i \in DOMAIN b
        PROVE  (\E j \in DOMAIN a : b[i] = a[j]) \/ (\E j \in DOMAIN s : b[i] = s[j])
    <3>1. CASE i \in 1 .. Len(a)
      BY <2>1, <3>1
    <3>2. CASE \E j \in 1 .. Len(s) : i = Len(a) + j
      BY <2>1, <3>2
    <3> QED BY <2>1, <2>2, <3>1, <3>2
  <2> QED BY <2>1, <2>2
<1> HIDE DEF b
<1>2. Silent(b) /\ Unnoted(b)
  BY <1>1 DEF Plain, Silent, Unnoted
<1>3. Unflagged(b) /\ Unleased(b) /\ Unaccepted(b)
  BY <1>1 DEF Plain, Unflagged, Unleased, Unaccepted
<1> QED BY <1>1, <1>2, <1>3 DEF b, Plain

(* A handler that only writes a plain segment. *)
LEMMA PlainStep ==
  ASSUME TypeOK, LogInv, NEW s \in Seq(Record), log' = log \o s,
         Plain(s), Leased(log \o s),
         UNCHANGED <<violations, blame, dedupe, diary, lease>>
  PROVE  LogInv'
<1>0. log \in Seq(Record) /\ log' \in Seq(Record)
  BY Appended DEF TypeOK
<1>1. CountersMatchLog'
  BY <1>0, CountedIsCounters, CountedOverUnflagged DEF LogInv, Plain
<1>2. DerivedStateMatchesLog'
  BY <1>0, IndexOverSilence, DiaryOverUnnoted DEF LogInv, Plain, DerivedStateMatchesLog
<1>3. AtMostOnce'
  <2>1. Uncommitted(s)
    BY DEF Plain, Silent, Uncommitted
  <2> QED BY <1>0, <2>1, OfTheLog, OnceOverUncommitted DEF LogInv
<1>4. AcceptedUnderOwnLease'
  BY OfTheLog
<1>5. ~lease'.released => Granted(log', lease'.id + 1, lease'.player, lease'.turn)
  BY <1>0, GrantedOverUnleased DEF LogInv, Plain
<1> QED BY <1>1, <1>2, <1>3, <1>4, <1>5 DEF LogInv

(* A call that is turned away, whoever makes it. *)
LEMMA RejectedStep ==
  ASSUME TypeOK, LogInv, NEW s \in Seq(Record), log' = log \o s,
         Plain(s), Unaccepted(s),
         UNCHANGED <<violations, blame, dedupe, diary, lease>>
  PROVE  LogInv'
<1>1. Leased(log \o s)
  BY OfTheLog, LeasedOverUnaccepted DEF TypeOK, LogInv
<1> QED BY <1>1, PlainStep

\* A seat that passes the gate holds the last lease granted.
LEMMA StandingLease ==
  ASSUME LogInv, NEW p, Valid(p)
  PROVE  Granted(log, lease.id + 1, p, turn)
BY DEF LogInv, Valid

\* Calls out of turn.
LEMMA RefusalsKeepLog ==
  ASSUME TypeOK, LogInv, NEW p \in Player, NEW tool \in {"write_diary", "end_turn"} \cup Read,
         RefuseOrder(p) \/ RefuseOther(p, tool)
  PROVE  LogInv'
<1> DEFINE u == <<Unauthorized(p)>>
           s == Pair(tool, p, NoArg, NoKey, "rejected", FALSE)
<1>0. log \in Seq(Record) /\ turn \in Nat
  BY DEF TypeOK
<1>1. u \in Seq(Record) /\ Plain(u) /\ Unaccepted(u)
  <2>1. "UNAUTHORIZED_TOOL_CALL" \in Kind \ {"TOOL_CALL", "TOOL_RESULT"}
    BY DEF Kind
  <2> QED BY <1>0, <2>1, PlainEvent DEF Plain, Unauthorized
<1>2. IsPair(s, tool, p, NoArg, NoKey, "rejected", FALSE)
  BY <1>0, PairRecords DEF Tool
<1>3. s \in Seq(Record) /\ Plain(s) /\ Unaccepted(s)
  <2> HIDE DEF s
  <2> QED BY <1>2, PlainPair
<1>4. UNCHANGED <<violations, blame, dedupe, diary, lease>>
  BY DEF RefuseOrder, RefuseOther, gameVars, countVars
<1>5. Append(log, Unauthorized(p)) = log \o u
  <2>1. Unauthorized(p) \in Record
    BY <1>0, RecordTypes DEF Unauthorized, Kind
  <2> QED BY <1>0, <2>1, AppendIsConcat
<1>6. CASE RefuseOrder(p)
  <2>1. log' = log \o u
    BY <1>5, <1>6 DEF RefuseOrder
  <2> HIDE DEF u
  <2> QED BY <1>1, <1>4, <2>1, RejectedStep
<1>7. CASE RefuseOther(p, tool)
  <2>1. log' = log \o (u \o s)
    <3>1. log' = (log \o u) \o s
      BY <1>5, <1>7 DEF RefuseOther
    <3> HIDE DEF u, s
    <3>2. (log \o u) \o s = log \o (u \o s)
      BY <1>0, <1>1, <1>3, ConcatAssociative
    <3> QED BY <3>1, <3>2
  <2> HIDE DEF u, s
  <2>2. u \o s \in Seq(Record) /\ Plain(u \o s) /\ Unaccepted(u \o s)
    BY <1>1, <1>3, JoinedSegments
  <2> QED BY <1>4, <2>1, <2>2, RejectedStep
<1> QED BY <1>6, <1>7

(* A call that is answered and changes nothing the log is read for. *)
LEMMA AnsweredStep ==
  ASSUME TypeOK, LogInv, NEW p \in Player, Valid(p),
         NEW s, NEW tool, NEW arg, NEW key, NEW status, NEW dup,
         IsPair(s, tool, p, arg, key, status, dup),
         key = NoKey \/ status = "rejected" \/ s[2].duplicate = TRUE,
         tool # "write_diary" \/ status = "rejected",
         log' = log \o s,
         UNCHANGED <<violations, blame, dedupe, diary, lease>>
  PROVE  LogInv'
<1>1. s \in Seq(Record) /\ Plain(s)
  BY PlainPair
<1>2. Leased(log \o s)
  <2>1. Leased(log) /\ log \in Seq(Record)
    BY OfTheLog DEF TypeOK, LogInv
  <2> QED BY <2>1, StandingLease, LeasedOverPair
<1> QED BY <1>1, <1>2, PlainStep

\* Reads.
LEMMA ObserveKeepsLog ==
  ASSUME TypeOK, LogInv, NEW p \in Player, NEW tool \in Read, Observe(p, tool)
  PROVE  LogInv'
<1> DEFINE s == Pair(tool, p, NoArg, NoKey, "accepted", FALSE)
<1>1. IsPair(s, tool, p, NoArg, NoKey, "accepted", FALSE)
  <2>1. turn \in Nat /\ tool \in Tool
    BY DEF TypeOK, Tool
  <2> QED BY <2>1, PairRecords
<1>2. /\ Valid(p) /\ log' = log \o s
      /\ UNCHANGED <<violations, blame, dedupe, diary, lease>>
  BY DEF Observe, gameVars, countVars
<1>3. tool # "write_diary"
  BY NamesAssumption
<1> HIDE DEF s
<1> QED BY <1>1, <1>2, <1>3, AnsweredStep

\* Orders that are refused, or answered from the index.
LEMMA AnsweredOrdersKeepLog ==
  ASSUME TypeOK, LogInv, NEW p \in Player, NEW e \in Entity, NEW nonce \in Nonce \cup {NoKey},
         OrderNotYours(p, e) \/ OrderDuplicate(p, e, nonce) \/ OrderIllegal(p, e, nonce)
  PROVE  LogInv'
<1> DEFINE key == KeyFor(p, e, nonce)
<1>0. turn \in Nat /\ "order" \in Tool /\ key \in Key
  BY KeyType DEF TypeOK, Tool
<1>1. /\ Valid(p)
      /\ UNCHANGED <<violations, blame, dedupe, diary, lease>>
  BY DEF OrderNotYours, OrderDuplicate, OrderIllegal, gameVars, countVars
<1>2. \/ log' = log \o Pair("order", p, e, NoKey, "rejected", FALSE)
      \/ log' = log \o Pair("order", p, e, key, "accepted", TRUE)
      \/ log' = log \o Pair("order", p, e, key, "rejected", FALSE)
  BY DEF OrderNotYours, OrderDuplicate, OrderIllegal
<1> HIDE DEF key
<1>3. /\ IsPair(Pair("order", p, e, NoKey, "rejected", FALSE),
                "order", p, e, NoKey, "rejected", FALSE)
      /\ IsPair(Pair("order", p, e, key, "accepted", TRUE),
                "order", p, e, key, "accepted", TRUE)
      /\ IsPair(Pair("order", p, e, key, "rejected", FALSE),
                "order", p, e, key, "rejected", FALSE)
  <2>1. e \in Entity \cup Note \cup {NoArg} /\ NoKey \in Key \cup {NoKey} /\ key \in Key \cup {NoKey}
    BY <1>0
  <2> QED BY <1>0, <2>1, PairRecords
<1>4. CASE log' = log \o Pair("order", p, e, NoKey, "rejected", FALSE)
  BY <1>1, <1>3, <1>4, AnsweredStep
<1>5. CASE log' = log \o Pair("order", p, e, key, "accepted", TRUE)
  <2> DEFINE s == Pair("order", p, e, key, "accepted", TRUE)
  <2>1. IsPair(s, "order", p, e, key, "accepted", TRUE)
    BY <1>3
  <2> HIDE DEF s
  <2>2. s[2].duplicate = TRUE
    BY <2>1 DEF IsPair
  <2>3. log' = log \o s
    BY <1>5 DEF s
  <2> QED BY <1>1, <2>1, <2>2, <2>3, AnsweredStep
<1>6. CASE log' = log \o Pair("order", p, e, key, "rejected", FALSE)
  BY <1>1, <1>3, <1>6, AnsweredStep
<1> QED BY <1>2, <1>4, <1>5, <1>6

\* A bounced end of the turn.
LEMMA BounceKeepsLog ==
  ASSUME TypeOK, LogInv, NEW p \in Player, BounceEndTurn(p)
  PROVE  LogInv'
<1>1. /\ Valid(p) /\ log' = log \o Pair("end_turn", p, NoArg, NoKey, "rejected", FALSE)
      /\ UNCHANGED <<violations, blame, dedupe, diary, lease>>
  BY DEF BounceEndTurn, gameVars, countVars
<1>2. IsPair(Pair("end_turn", p, NoArg, NoKey, "rejected", FALSE),
             "end_turn", p, NoArg, NoKey, "rejected", FALSE)
  BY PairRecords DEF TypeOK, Tool
<1> QED BY <1>1, <1>2, AnsweredStep

\* A note in the diary.
LEMMA DiaryKeepsLog ==
  ASSUME TypeOK, LogInv, NEW p \in Player, NEW note \in Note, WriteDiary(p, note)
  PROVE  LogInv'
<1> DEFINE s == Pair("write_diary", p, note, NoKey, "accepted", FALSE)
<1>0. log \in Seq(Record) /\ turn \in Nat /\ "write_diary" \in Tool
  BY DEF TypeOK, Tool
<1>1. IsPair(s, "write_diary", p, note, NoKey, "accepted", FALSE)
  BY <1>0, PairRecords
<1>2. /\ Valid(p) /\ log' = log \o s /\ diary' = [diary EXCEPT ![p] = note]
      /\ UNCHANGED <<violations, blame, dedupe, lease>>
  BY DEF WriteDiary, gameVars, countVars
<1> HIDE DEF s
<1>3. s \in Seq(Record) /\ Silent(s) /\ Unflagged(s) /\ Unleased(s) /\ Uncommitted(s)
  BY <1>1 DEF IsPair, Silent, Unflagged, Unleased, Uncommitted, Committed, Undone
<1>4. log' \in Seq(Record)
  BY <1>0, <1>2, <1>3, Appended
<1>5. CountersMatchLog'
  BY <1>0, <1>2, <1>3, <1>4, CountedIsCounters, CountedOverUnflagged DEF LogInv
<1>6. DerivedStateMatchesLog'
  <2>1. dedupe' = DedupeFrom(log')
    BY <1>0, <1>2, <1>3, IndexOverSilence DEF LogInv, DerivedStateMatchesLog
  <2>2. diary' = DiaryFrom(log')
    <3>1. DiaryFrom(log \o s) = [DiaryFrom(log) EXCEPT ![p] = note]
      BY <1>0, <1>1, DiaryOverNote
    <3>2. diary = DiaryFrom(log)
      BY DEF LogInv, DerivedStateMatchesLog
    <3> QED BY <1>2, <3>1, <3>2
  <2> QED BY <2>1, <2>2 DEF DerivedStateMatchesLog
<1>7. AtMostOnce'
  BY <1>0, <1>2, <1>3, OfTheLog, OnceOverUncommitted DEF LogInv
<1>8. AcceptedUnderOwnLease'
  <2>1. Leased(log)
    BY OfTheLog DEF LogInv
  <2>2. Leased(log \o s)
    BY <1>0, <1>1, <1>2, <2>1, StandingLease, LeasedOverPair
  <2> QED BY <1>2, <2>2, OfTheLog
<1>9. ~lease'.released => Granted(log', lease'.id + 1, lease'.player, lease'.turn)
  BY <1>0, <1>2, <1>3, GrantedOverUnleased DEF LogInv
<1> QED BY <1>5, <1>6, <1>7, <1>8, <1>9 DEF LogInv

(* A step that writes nothing. *)
LEMMA QuietLog ==
  ASSUME LogInv, UNCHANGED <<log, violations, blame, lease, dedupe, diary>>
  PROVE  LogInv'
<1>1. CountersMatchLog' /\ DerivedStateMatchesLog'
  BY DEF LogInv, CountersMatchLog, Positions, DerivedStateMatchesLog
<1>2. AtMostOnce' /\ AcceptedUnderOwnLease'
  BY OfTheLog DEF LogInv
<1> QED BY <1>1, <1>2 DEF LogInv

\* The grant of the next lease.
LEMMA GrantKeepsLog ==
  ASSUME TypeOK, LogInv, NEW p \in Player, GrantLease(p)
  PROVE  LogInv'
<1> DEFINE r == Event("LEASE_GRANT", p, turn)
           s == <<r>>
<1>0. log \in Seq(Record) /\ turn \in Nat /\ Len(log) \in Nat
  BY DEF TypeOK
<1>1. /\ s \in Seq(Record) /\ Silent(s) /\ Unnoted(s) /\ Unaccepted(s) /\ Unflagged(s)
      /\ Uncommitted(s) /\ r \in Record
      /\ r.kind = "LEASE_GRANT" /\ r.player = p /\ r.turn = turn
  <2>1. "LEASE_GRANT" \in Kind \ {"TOOL_CALL", "TOOL_RESULT"}
    BY DEF Kind
  <2>2. s \in Seq(Record) /\ Silent(s) /\ Unnoted(s) /\ Unaccepted(s) /\ Unflagged(s)
    BY <1>0, <2>1, PlainEvent
  <2>3. r \in Record
    BY <1>0, <2>1, RecordTypes
  <2>4. r.kind = "LEASE_GRANT" /\ r.player = p /\ r.turn = turn
    BY DEF Event
  <2>5. Uncommitted(s)
    BY <2>2 DEF Silent, Uncommitted
  <2> QED BY <2>2, <2>3, <2>4, <2>5
<1>2. /\ log' = log \o s
      /\ lease' = [id |-> Len(log), player |-> p, turn |-> turn, released |-> FALSE]
      /\ UNCHANGED <<violations, blame, dedupe, diary>>
  <2>1. Append(log, r) = log \o s
    BY <1>0, <1>1, AppendIsConcat
  <2> QED BY <2>1 DEF GrantLease, countVars
<1> HIDE DEF r
<1>3. log' \in Seq(Record)
  BY <1>0, <1>1, <1>2, Appended
<1>4. CountersMatchLog'
  BY <1>0, <1>1, <1>2, <1>3, CountedIsCounters, CountedOverUnflagged DEF LogInv
<1>5. DerivedStateMatchesLog'
  <2>1. DedupeFrom(log \o s) = DedupeFrom(log) /\ DiaryFrom(log \o s) = DiaryFrom(log)
    BY <1>0, <1>1, IndexOverSilence, DiaryOverUnnoted
  <2> QED BY <1>2, <2>1 DEF LogInv, DerivedStateMatchesLog
<1>6. AtMostOnce'
  BY <1>0, <1>1, <1>2, OfTheLog, OnceOverUncommitted DEF LogInv
<1>7. AcceptedUnderOwnLease'
  BY <1>0, <1>1, <1>2, OfTheLog, LeasedOverUnaccepted DEF LogInv
<1>8. Granted(log', lease'.id + 1, lease'.player, lease'.turn)
  <2>1. /\ DOMAIN log' = 1 .. (Len(log) + 1)
        /\ log'[Len(log) + 1] = r
    BY <1>0, <1>1, <1>2, Appended
  <2>2. lease'.id + 1 = Len(log) + 1 /\ lease'.player = p /\ lease'.turn = turn
    BY <1>2
  <2>3. Granted(log', Len(log) + 1, p, turn)
    BY <1>0, <1>1, <2>1 DEF Granted
  <2> QED BY <2>2, <2>3
<1> QED BY <1>4, <1>5, <1>6, <1>7, <1>8 DEF LogInv

(* What a sweep that found n violations of seat p writes and counts. *)
LEMMA FlagsKeepLog ==
  ASSUME TypeOK, NEW base \in Seq(Record), NEW p \in Player, NEW n \in Nat,
         log' = base \o Flags(n, p, turn),
         Counted(violations, blame, base),
         violations' = violations + n, blame' = [blame EXCEPT ![p] = @ + n],
         dedupe' = DedupeFrom(base), diary' = DiaryFrom(base),
         Once(base), Leased(base),
         ~lease'.released => Granted(base, lease'.id + 1, lease'.player, lease'.turn)
  PROVE  LogInv'
<1> DEFINE s == Flags(n, p, turn)
<1>0. turn \in Nat /\ violations \in Nat /\ blame \in [Player -> Nat]
  BY DEF TypeOK
<1>1. /\ s \in Seq(Record) /\ Silent(s) /\ Unnoted(s) /\ Unaccepted(s) /\ Unleased(s)
      /\ Uncommitted(s)
  <2>1. s \in Seq(Record) /\ Silent(s) /\ Unnoted(s) /\ Unaccepted(s) /\ Unleased(s)
    BY <1>0, PlainFlags
  <2>2. Uncommitted(s)
    BY <2>1 DEF Silent, Uncommitted
  <2> QED BY <2>1, <2>2
<1>2. Counted(violations', blame', base \o s)
  <2>1. Counted(violations + n, [blame EXCEPT ![p] = @ + n], base \o s)
    BY <1>0, CountedOverFlags
  <2> QED BY <2>1
<1> HIDE DEF s
<1>3. log' = base \o s /\ log' \in Seq(Record)
  BY <1>1, Appended DEF s
<1>4. CountersMatchLog'
  BY <1>2, <1>3, CountedIsCounters
<1>5. DerivedStateMatchesLog'
  <2>1. DedupeFrom(base \o s) = DedupeFrom(base) /\ DiaryFrom(base \o s) = DiaryFrom(base)
    BY <1>1, IndexOverSilence, DiaryOverUnnoted
  <2> QED BY <1>3, <2>1 DEF DerivedStateMatchesLog
<1>6. AtMostOnce'
  BY <1>1, <1>3, OfTheLog, OnceOverUncommitted
<1>7. AcceptedUnderOwnLease'
  BY <1>1, <1>3, OfTheLog, LeasedOverUnaccepted
<1>8. ~lease'.released => Granted(log', lease'.id + 1, lease'.player, lease'.turn)
  BY <1>1, <1>3, GrantedOverUnleased
<1> QED BY <1>4, <1>5, <1>6, <1>7, <1>8 DEF LogInv

\* The start of a phase, its flags and its rollback.
LEMMA BeginKeepsLog ==
  ASSUME TypeOK, LogInv, BeginAttempt
  PROVE  LogInv'
<1> DEFINE p    == lease.player
           hit  == ChaosWorld("begin_phase", world, 0)
           manifest == AmbientRows(hit, p)
           n    == Found(AddRows(ChaosRows("begin_phase", world, 0), manifest), manifest)
           r    == Event("AMBIENT", p, turn)
           s    == <<r>>
           base == log \o s
<1>0. log \in Seq(Record) /\ turn \in Nat /\ p \in Player /\ n \in Nat
  BY FoundType DEF TypeOK
<1>1. /\ s \in Seq(Record) /\ Plain(s) /\ Unaccepted(s) /\ Uncommitted(s) /\ r \in Record
  <2>1. "AMBIENT" \in Kind \ {"TOOL_CALL", "TOOL_RESULT"}
    BY DEF Kind
  <2>2. s \in Seq(Record) /\ Plain(s) /\ Unaccepted(s)
    BY <1>0, <2>1, PlainEvent DEF Plain
  <2>3. Uncommitted(s)
    BY <2>2 DEF Plain, Silent, Uncommitted
  <2>4. r \in Record
    BY <1>0, <2>1, RecordTypes
  <2> QED BY <2>2, <2>3, <2>4
<1>2. /\ log' = Append(log, r) \o Flags(n, p, turn)
      /\ violations' = violations + n /\ blame' = [blame EXCEPT ![p] = @ + n]
      /\ UNCHANGED <<lease, dedupe, diary>>
  BY DEF BeginAttempt
<1> HIDE DEF n, p, r
<1>3. Append(log, r) = base
  BY <1>0, <1>1, AppendIsConcat
<1>4. base \in Seq(Record)
  BY <1>0, <1>1, Appended
<1>5. Counted(violations, blame, base)
  BY <1>0, <1>1, CountedIsCounters, CountedOverUnflagged DEF LogInv, Plain
<1>6. dedupe' = DedupeFrom(base) /\ diary' = DiaryFrom(base)
  <2>1. DedupeFrom(log \o s) = DedupeFrom(log) /\ DiaryFrom(log \o s) = DiaryFrom(log)
    BY <1>0, <1>1, IndexOverSilence, DiaryOverUnnoted DEF Plain
  <2> QED BY <1>2, <2>1 DEF LogInv, DerivedStateMatchesLog
<1>7. Once(base) /\ Leased(base)
  BY <1>0, <1>1, OfTheLog, OnceOverUncommitted, LeasedOverUnaccepted DEF LogInv
<1>8. ~lease'.released => Granted(base, lease'.id + 1, lease'.player, lease'.turn)
  BY <1>0, <1>1, <1>2, GrantedOverUnleased DEF LogInv, Plain
<1>9. log' = base \o Flags(n, p, turn)
  BY <1>2, <1>3
<1> HIDE DEF base
<1> QED BY <1>0, <1>2, <1>4, <1>5, <1>6, <1>7, <1>8, <1>9, FlagsKeepLog

\* What an abort leaves behind.
LEMMA CleanupKeepsLog ==
  ASSUME TypeOK, LogInv, AbortCleanup
  PROVE  LogInv'
<1>0. log \in Seq(Record) /\ UNCHANGED <<lease, dedupe, diary>>
  BY DEF TypeOK, AbortCleanup
<1>1. CASE phasePlayer = -1
  <2>1. UNCHANGED <<log, violations, blame, lease, dedupe, diary>>
    BY <1>1 DEF AbortCleanup, countVars
  <2> QED BY <1>0, <2>1, QuietLog
<1>2. CASE phasePlayer # -1
  <2> DEFINE p == phasePlayer
             n == Found(AddRows(actual, ChaosRows("end_phase", world, p)), allowed)
  <2>1. /\ log' = log \o Flags(n, p, turn)
        /\ violations' = violations + n /\ blame' = [blame EXCEPT ![p] = @ + n]
    BY <1>2 DEF AbortCleanup, Sweep
  <2>2. p \in Player /\ n \in Nat
    BY <1>2, FoundType DEF TypeOK
  <2> HIDE DEF n
  <2>3. /\ Counted(violations, blame, log) /\ Once(log) /\ Leased(log)
        /\ dedupe' = DedupeFrom(log) /\ diary' = DiaryFrom(log)
        /\ ~lease'.released => Granted(log, lease'.id + 1, lease'.player, lease'.turn)
    BY <1>0, CountedIsCounters, OfTheLog DEF LogInv, DerivedStateMatchesLog
  <2> QED BY <1>0, <2>1, <2>2, <2>3, FlagsKeepLog
<1> QED BY <1>1, <1>2

(* An order that is carried out: its key enters the index, and leaves it     *)
(* again when the sweep undoes the order.                                    *)
LEMMA AppliedKeepsLog ==
  ASSUME TypeOK, LogInv, NEW p \in Player, NEW e \in Entity, NEW nonce \in Nonce \cup {NoKey},
         OrderApplied(p, e, nonce)
  PROVE  LogInv'
<1> DEFINE key      == KeyFor(p, e, nonce)
           receipt  == Single([entity |-> e, before |-> world[e], after |-> world[e] - 1])
           ordered  == [world EXCEPT ![e] = @ - 1]
           drained  == AddRows(receipt, ChaosRows("act", ordered, p))
           n        == Found(AddRows(actual, drained), AddRows(allowed, receipt))
           s        == Pair("order", p, e, key, "accepted", FALSE)
           base     == log \o s
           f        == Flags(n, p, turn)
           r        == RolledBack(p, key)
<1>0. /\ log \in Seq(Record) /\ turn \in Nat /\ n \in Nat /\ key \in Key
      /\ violations \in Nat /\ blame \in [Player -> Nat]
  BY FoundType, KeyType DEF TypeOK
<1>1. /\ Valid(p) /\ key \notin dedupe
      /\ violations' = violations + n /\ blame' = [blame EXCEPT ![p] = @ + n]
      /\ diary' = diary /\ lease' = lease
      /\ \/ dedupe' = dedupe \cup {key} /\ log' = base \o f \o <<>>
         \/ dedupe' = dedupe \ {key} /\ log' = base \o f \o <<r>>
  BY DEF OrderApplied, Sweep, IndexAfter
<1>2. IsPair(s, "order", p, e, key, "accepted", FALSE)
  <2>1. "order" \in Tool /\ e \in Entity \cup Note \cup {NoArg} /\ key \in Key \cup {NoKey}
    BY <1>0 DEF Tool
  <2> QED BY <1>0, <2>1, PairRecords
<1>3. r \in Record /\ r.kind = "TOOL_RESULT" /\ r.key = key /\ r.status = "rejected" /\ r.rolled_back
  <2>1. r \in Record
    BY <1>0, RecordTypes
  <2>2. r.kind = "TOOL_RESULT" /\ r.key = key /\ r.status = "rejected" /\ r.rolled_back
    BY DEF RolledBack, ToolResult, Event
  <2> QED BY <2>1, <2>2
<1>4. /\ f \in Seq(Record) /\ Silent(f) /\ Unnoted(f) /\ Unaccepted(f) /\ Unleased(f)
      /\ Uncommitted(f)
  <2>1. f \in Seq(Record) /\ Silent(f) /\ Unnoted(f) /\ Unaccepted(f) /\ Unleased(f)
    BY <1>0, PlainFlags
  <2>2. Uncommitted(f)
    BY <2>1 DEF Silent, Uncommitted
  <2> QED BY <2>1, <2>2
<1> HIDE DEF key, n, s, r
<1>5. /\ s \in Seq(Record) /\ Len(s) = 2 /\ ~Committed(s[1]) /\ ~Undone(s[1])
      /\ Committed(s[2]) /\ ~Undone(s[2]) /\ s[2].key = key
      /\ Unnoted(s) /\ Unflagged(s) /\ Unleased(s)
  <2>1. key # NoKey
    BY <1>0, NamesAssumption
  <2> QED BY <1>2, <2>1 DEF IsPair, Committed, Undone, Unnoted, Unflagged, Unleased
<1>6. base \in Seq(Record) /\ base \o f \in Seq(Record)
  <2>1. base \in Seq(Record)
    BY <1>0, <1>5, Appended
  <2> HIDE DEF base, f
  <2> QED BY <1>4, <2>1, Appended
<1>7. /\ DedupeFrom(base) = DedupeFrom(log) \cup {key} /\ DiaryFrom(base) = DiaryFrom(log)
  BY <1>0, <1>5, IndexOverCommit, DiaryOverUnnoted
<1>8. dedupe = DedupeFrom(log) /\ diary = DiaryFrom(log) /\ Once(log) /\ Leased(log)
      /\ Counted(violations, blame, log)
  BY <1>0, OfTheLog, CountedIsCounters DEF LogInv, DerivedStateMatchesLog
<1>9. Once(base)
  <2>1. key \notin DedupeFrom(log)
    BY <1>1, <1>8
  <2> QED BY <1>0, <1>5, <1>8, <2>1, OnceOverCommit
<1>10. Leased(base)
  BY <1>0, <1>1, <1>2, <1>8, StandingLease, LeasedOverPair
<1>11. Counted(violations', blame', base \o f)
  <2>1. Counted(violations, blame, base)
    BY <1>0, <1>5, <1>8, CountedOverUnflagged
  <2> HIDE DEF base
  <2>2. Counted(violations + n, [blame EXCEPT ![p] = @ + n], base \o Flags(n, p, turn))
    BY <1>0, <1>6, <2>1, CountedOverFlags
  <2> QED BY <1>1, <2>2
<1>12. ~lease'.released => Granted(base, lease'.id + 1, lease'.player, lease'.turn)
  BY <1>0, <1>1, <1>5, GrantedOverUnleased DEF LogInv
<1> HIDE DEF base, f
<1>13. /\ DedupeFrom(base \o f) = DedupeFrom(log) \cup {key}
       /\ DiaryFrom(base \o f) = DiaryFrom(log)
       /\ Once(base \o f) /\ Leased(base \o f)
       /\ ~lease'.released => Granted(base \o f, lease'.id + 1, lease'.player, lease'.turn)
  <2>1. DedupeFrom(base \o f) = DedupeFrom(base) /\ DiaryFrom(base \o f) = DiaryFrom(base)
    BY <1>4, <1>6, IndexOverSilence, DiaryOverUnnoted
  <2>2. Once(base \o f) /\ Leased(base \o f)
    BY <1>4, <1>6, <1>9, <1>10, OnceOverUncommitted, LeasedOverUnaccepted
  <2>3. ~lease'.released => Granted(base \o f, lease'.id + 1, lease'.player, lease'.turn)
    BY <1>4, <1>6, <1>12, GrantedOverUnleased
  <2> QED BY <1>7, <2>1, <2>2, <2>3
<1>14. CASE dedupe' = dedupe \cup {key} /\ log' = base \o f \o <<>>
  <2>1. log' = base \o f
    BY <1>6, <1>14, ConcatEmptySeq
  <2>2. CountersMatchLog'
    BY <1>6, <1>11, <2>1, CountedIsCounters
  <2>3. DerivedStateMatchesLog'
    BY <1>1, <1>8, <1>13, <1>14, <2>1 DEF DerivedStateMatchesLog
  <2> QED BY <1>13, <2>1, <2>2, <2>3, OfTheLog DEF LogInv
<1>15. CASE dedupe' = dedupe \ {key} /\ log' = base \o f \o <<r>>
  <2> DEFINE whole == base \o f
             u == <<r>>
  <2>0. /\ whole \in Seq(Record) /\ Counted(violations', blame', whole)
        /\ DedupeFrom(whole) = DedupeFrom(log) \cup {key} /\ DiaryFrom(whole) = DiaryFrom(log)
        /\ Once(whole) /\ Leased(whole)
        /\ ~lease'.released => Granted(whole, lease'.id + 1, lease'.player, lease'.turn)
    BY <1>6, <1>11, <1>13
  <2>1. u \in Seq(Record) /\ DOMAIN u = {1} /\ u[1] = r /\ log' = whole \o u
    BY <1>3, <1>15
  <2> HIDE DEF whole, u
  <2>2. Uncommitted(u) /\ Unnoted(u) /\ Unflagged(u) /\ Unaccepted(u) /\ Unleased(u)
    BY <1>3, <2>1
    DEF Uncommitted, Unnoted, Unflagged, Unaccepted, Unleased, Committed
  <2>3. log' = whole \o u /\ log' \in Seq(Record)
    BY <2>0, <2>1, Appended
  <2>4. CountersMatchLog'
    BY <2>0, <2>1, <2>2, <2>3, CountedIsCounters, CountedOverUnflagged
  <2>5. DerivedStateMatchesLog'
    <3>1. DedupeFrom(whole \o <<r>>) = DedupeFrom(whole) \ {key}
      <4>1. ~Committed(r) /\ Undone(r)
        BY <1>3 DEF Committed, Undone
      <4> QED BY <1>0, <1>3, <2>0, <4>1, IndexOverRollback
    <3>2. DedupeFrom(log') = dedupe'
      BY <1>1, <1>8, <1>15, <2>0, <2>3, <3>1 DEF u
    <3>3. DiaryFrom(log') = DiaryFrom(log)
      BY <2>0, <2>1, <2>2, <2>3, DiaryOverUnnoted
    <3> QED BY <1>1, <1>8, <3>2, <3>3 DEF DerivedStateMatchesLog
  <2>6. AtMostOnce' /\ AcceptedUnderOwnLease'
    BY <2>0, <2>1, <2>2, <2>3, OfTheLog, OnceOverUncommitted, LeasedOverUnaccepted
  <2>7. ~lease'.released => Granted(log', lease'.id + 1, lease'.player, lease'.turn)
    BY <2>0, <2>1, <2>2, <2>3, GrantedOverUnleased
  <2> QED BY <2>4, <2>5, <2>6, <2>7 DEF LogInv
<1> QED BY <1>1, <1>14, <1>15

\* The end of a turn: the release, the closing records and the answer.
LEMMA EndTurnKeepsLog ==
  ASSUME TypeOK, LogInv, NEW p \in Player, EndTurn(p)
  PROVE  LogInv'
<1> DEFINE n    == Found(AddRows(actual, ChaosRows("end_phase", world, p)), allowed)
           c    == <<Event("LEASE_RELEASE", p, turn), Event("TURN_END", p, turn)>>
           s    == Pair("end_turn", p, NoArg, NoKey, "accepted", FALSE)
           base == log \o c \o s
<1>0. log \in Seq(Record) /\ turn \in Nat /\ n \in Nat /\ "end_turn" \in Tool
  BY FoundType DEF TypeOK, Tool
<1>1. /\ Valid(p) /\ UNCHANGED <<dedupe, diary>> /\ lease'.released
      /\ violations' = violations + n /\ blame' = [blame EXCEPT ![p] = @ + n]
      /\ log' = base \o Flags(n, p, turn)
  BY DEF EndTurn, Sweep, TypeOK
<1>2. /\ c \in Seq(Record) /\ Len(c) = 2 /\ DOMAIN c = {1, 2}
      /\ c[1].kind = "LEASE_RELEASE" /\ c[2].kind = "TURN_END"
  <2>1. /\ Event("LEASE_RELEASE", p, turn) \in Record
        /\ Event("TURN_END", p, turn) \in Record
    BY <1>0, RecordTypes DEF Kind
  <2>2. /\ Event("LEASE_RELEASE", p, turn).kind = "LEASE_RELEASE"
        /\ Event("TURN_END", p, turn).kind = "TURN_END"
    BY DEF Event
  <2> QED BY <2>1, <2>2
<1> HIDE DEF c, n
<1>3. IsPair(s, "end_turn", p, NoArg, NoKey, "accepted", FALSE)
  BY <1>0, PairRecords
<1> HIDE DEF s
<1>4. s \in Seq(Record) /\ Plain(s) /\ Silent(s) /\ Unnoted(s) /\ Unflagged(s) /\ Uncommitted(s)
  <2>1. s \in Seq(Record) /\ Plain(s)
    BY <1>3, PlainPair
  <2> QED BY <2>1 DEF Plain, Silent, Uncommitted
<1>5. Silent(c) /\ Unnoted(c) /\ Unflagged(c) /\ Uncommitted(c)
  BY <1>2 DEF Silent, Unnoted, Unflagged, Uncommitted, Committed, Undone
<1>6. /\ dedupe = DedupeFrom(log) /\ diary = DiaryFrom(log) /\ Once(log) /\ Leased(log)
      /\ Counted(violations, blame, log)
  BY <1>0, OfTheLog, CountedIsCounters DEF LogInv, DerivedStateMatchesLog
<1>7. Leased(base)
  BY <1>0, <1>1, <1>2, <1>3, <1>6, StandingLease, LeasedOverEnd
<1> DEFINE m == log \o c
<1>8. /\ m \in Seq(Record) /\ DedupeFrom(m) = dedupe /\ DiaryFrom(m) = diary
      /\ Once(m) /\ Counted(violations, blame, m)
  <2>1. m \in Seq(Record)
    BY <1>0, <1>2, Appended
  <2>2. DedupeFrom(m) = dedupe /\ DiaryFrom(m) = diary
    BY <1>0, <1>2, <1>5, <1>6, IndexOverSilence, DiaryOverUnnoted
  <2>3. Once(m)
    BY <1>0, <1>2, <1>5, <1>6, OnceOverUncommitted
  <2>4. Counted(violations, blame, m)
    BY <1>0, <1>2, <1>5, <1>6, CountedOverUnflagged
  <2> QED BY <2>1, <2>2, <2>3, <2>4
<1>9. base = m \o s
  OBVIOUS
<1> HIDE DEF m, base
<1>10. /\ base \in Seq(Record) /\ DedupeFrom(base) = dedupe /\ DiaryFrom(base) = diary
       /\ Once(base) /\ Counted(violations, blame, base)
  <2>1. base \in Seq(Record)
    BY <1>4, <1>8, <1>9, Appended
  <2>2. DedupeFrom(base) = dedupe /\ DiaryFrom(base) = diary
    BY <1>4, <1>8, <1>9, IndexOverSilence, DiaryOverUnnoted
  <2>3. Once(base)
    BY <1>4, <1>8, <1>9, OnceOverUncommitted
  <2>4. Counted(violations, blame, base)
    BY <1>4, <1>8, <1>9, CountedOverUnflagged
  <2> QED BY <2>1, <2>2, <2>3, <2>4
<1> QED BY <1>0, <1>1, <1>7, <1>10, FlagsKeepLog

\* The log is empty at first.
LEMMA InitLog == Init => LogInv
<1> SUFFICES ASSUME Init PROVE LogInv
  OBVIOUS
<1> DEFINE r == Event("MATCH_START", 0, 0)
<1>1. log \in Seq(Record)
  BY InitTyped DEF TypeOK
<1>2. log = <<r>> /\ r.kind = "MATCH_START" /\ r.key = NoKey
  BY DEF Init, Event
<1> HIDE DEF r
<1>3. DOMAIN log = {1} /\ log[1].kind = "MATCH_START"
  BY <1>2
<1>4. CountersMatchLog
  <2>1. Positions("VIOLATION") = {}
    BY <1>3 DEF Positions
  <2>2. \A p \in Player : {i \in Positions("VIOLATION") : log[i].player = p} = {}
    BY <2>1
  <2>3. violations = 0 /\ \A p \in Player : blame[p] = 0
    BY DEF Init
  <2> QED BY <2>1, <2>2, <2>3, FS_EmptySet DEF CountersMatchLog
<1>5. DerivedStateMatchesLog
  <2>1. DedupeFrom(log) = {}
    BY <1>3 DEF DedupeFrom, Committed
  <2>2. \A p \in Player : Noted(log, p) = {}
    BY <1>3 DEF Noted
  <2>3. DiaryFrom(log) = [p \in Player |-> NoArg]
    BY <2>2 DEF DiaryFrom
  <2> QED BY <2>1, <2>3 DEF DerivedStateMatchesLog, Init
<1>6. AtMostOnce
  BY <1>3 DEF AtMostOnce, Committed
<1>7. AcceptedUnderOwnLease
  BY <1>3 DEF AcceptedUnderOwnLease, Positions
<1>8. lease.released
  BY DEF Init
<1> QED BY <1>4, <1>5, <1>6, <1>7, <1>8 DEF LogInv

\* Every step keeps the invariant.
LEMMA StepKeepsLog ==
  ASSUME TypeOK, LogInv, [Next]_vars
  PROVE  LogInv'
<1>1. ASSUME NEW p \in Player, GrantLease(p) PROVE LogInv'
  BY <1>1, GrantKeepsLog
<1>2. CASE BeginAttempt
  BY <1>2, BeginKeepsLog
<1>3. ASSUME NEW p \in Player, Call(p) PROVE LogInv'
  <2>1. CASE RefuseOrder(p)
    <3>1. PICK tool \in {"write_diary", "end_turn"} \cup Read : TRUE
      OBVIOUS
    <3> QED BY <2>1, RefusalsKeepLog
  <2>2. ASSUME NEW tool \in {"write_diary", "end_turn"} \cup Read, RefuseOther(p, tool)
        PROVE  LogInv'
    BY <2>2, RefusalsKeepLog
  <2>3. ASSUME NEW tool \in Read, Observe(p, tool) PROVE LogInv'
    BY <2>3, ObserveKeepsLog
  <2>4. ASSUME NEW note \in Note, WriteDiary(p, note) PROVE LogInv'
    BY <2>4, DiaryKeepsLog
  <2>5. ASSUME Order(p) PROVE LogInv'
    <3>1. PICK e \in Entity :
            \/ OrderNotYours(p, e)
            \/ \E nonce \in Nonce \cup {NoKey} :
                 OrderDuplicate(p, e, nonce) \/ OrderIllegal(p, e, nonce)
                                             \/ OrderApplied(p, e, nonce)
      BY <2>5 DEF Order
    <3>2. CASE OrderNotYours(p, e)
      BY <3>2, AnsweredOrdersKeepLog
    <3>3. ASSUME NEW nonce \in Nonce \cup {NoKey},
                 OrderDuplicate(p, e, nonce) \/ OrderIllegal(p, e, nonce)
          PROVE  LogInv'
      BY <3>3, AnsweredOrdersKeepLog
    <3>4. ASSUME NEW nonce \in Nonce \cup {NoKey}, OrderApplied(p, e, nonce)
          PROVE  LogInv'
      BY <3>4, AppliedKeepsLog
    <3> QED BY <3>1, <3>2, <3>3, <3>4
  <2> QED BY <1>3, <2>1, <2>2, <2>3, <2>4, <2>5 DEF Call
<1>4. ASSUME NEW p \in Player, BounceEndTurn(p) PROVE LogInv'
  BY <1>4, BounceKeepsLog
<1>5. ASSUME NEW p \in Player, EndTurn(p) PROVE LogInv'
  BY <1>5, EndTurnKeepsLog
<1>6. CASE Return \/ RuntimeAborts
  BY <1>6, QuietLog DEF Return, RuntimeAborts, countVars
<1>7. CASE AbortCleanup
  BY <1>7, CleanupKeepsLog
<1>8. CASE UNCHANGED vars
  BY <1>8, QuietLog DEF vars, countVars
<1> QED BY <1>1, <1>2, <1>3, <1>4, <1>5, <1>6, <1>7, <1>8 DEF Next, TurnStep

-----------------------------------------------------------------------------
(* A violation leaves no trace *)

(* A sweep that counts nothing has flagged nothing. *)
LEMMA NothingFound ==
  ASSUME IInv, NEW happened \in Ledger, NEW expected \in Ledger,
         ~(Found(happened, expected) > 0)
  PROVE  AddRows(flagged, Excess(happened, AddRows(expected, acknowledged))) = flagged
<1> DEFINE known == AddRows(expected, acknowledged)
<1>1. known \in Ledger /\ flagged \in Ledger
  BY LedgerTypes, LedgersTyped
<1> HIDE DEF known
<1>2. ViolationCount(happened, known) = 0
  <2>1. Found(happened, expected) \in Nat
    BY FoundType
  <2> QED BY <2>1 DEF Found, known
<1>3. \A r \in Row : happened[r] <= known[r]
  BY <1>1, <1>2, CleanIffAuthorized
<1>4. \A r \in Row : happened[r] \in Nat /\ known[r] \in Nat /\ flagged[r] \in Nat
  BY <1>1 DEF Ledger
<1>5. \A r \in Row : Excess(happened, known)[r] = 0
  BY <1>3, <1>4 DEF Excess
<1>6. \A r \in Row : AddRows(flagged, Excess(happened, known))[r] = flagged[r]
  BY <1>4, <1>5 DEF AddRows
<1>7. AddRows(flagged, Excess(happened, known)) \in Ledger
  BY <1>1, LedgerTypes
<1> QED BY <1>1, <1>6, <1>7, SameLedger DEF known

\* A start that is rolled back has put the game back, or was the last attempt.
LEMMA BeginLeavesNoTrace ==
  ASSUME IInv, BeginAttempt, Rollback, flagged' # flagged
  PROVE  UNCHANGED <<world, dedupe, phasePlayer>> \/ (phasePlayer = -1 /\ attempt = 2)
<1> DEFINE p        == lease.player
           manifest == AmbientRows(ChaosWorld("begin_phase", world, 0), p)
           happened == AddRows(ChaosRows("begin_phase", world, 0), manifest)
           excess   == Excess(happened, AddRows(manifest, acknowledged))
           n        == Found(happened, manifest)
<1>1. manifest \in Ledger /\ happened \in Ledger
  BY EngineRowsAreLedgers, LedgerTypes
<1>2. /\ flagged' = AddRows(flagged, excess) /\ phasePlayer = -1
      /\ dedupe' = dedupe
      /\ n > 0 /\ ~LastAttempt => UNCHANGED <<world, phasePlayer>>
  BY DEF BeginAttempt
<1>3. n > 0
  <2> HIDE DEF manifest, happened
  <2> QED BY <1>1, <1>2, NothingFound
<1> HIDE DEF n
<1> QED BY <1>2, <1>3 DEF LastAttempt

\* An order that is rolled back has put the game and the index back.
LEMMA OrderLeavesNoTrace ==
  ASSUME IInv, NEW p \in Player, NEW e \in Entity, NEW nonce, OrderApplied(p, e, nonce),
         Rollback, flagged' # flagged
  PROVE  UNCHANGED <<world, dedupe, phasePlayer>>
<1> DEFINE key      == KeyFor(p, e, nonce)
           receipt  == Single([entity |-> e, before |-> world[e], after |-> world[e] - 1])
           ordered  == [world EXCEPT ![e] = @ - 1]
           expected == AddRows(allowed, receipt)
           happened == AddRows(actual, AddRows(receipt, ChaosRows("act", ordered, p)))
           excess   == Excess(happened, AddRows(expected, acknowledged))
           n        == Found(happened, expected)
<1>1. expected \in Ledger /\ happened \in Ledger
  BY EngineRowsAreLedgers, LedgerTypes DEF IInv
<1>2. /\ flagged' = AddRows(flagged, excess) /\ phasePlayer' = phasePlayer
      /\ key \notin dedupe
      /\ n > 0 => world' = world /\ dedupe' = dedupe \ {key}
  BY DEF OrderApplied, Sweep, IndexAfter
<1>3. n > 0
  <2> HIDE DEF expected, happened
  <2> QED BY <1>1, <1>2, NothingFound
<1>4. dedupe \ {key} = dedupe
  <2> HIDE DEF key
  <2> QED BY <1>2
<1> QED BY <1>2, <1>3, <1>4

\* A step that leaves game or ledgers alone flags nothing.
LEMMA QuietLeavesNoFlag ==
  ASSUME UNCHANGED gameVars \/ UNCHANGED ledgerVars
  PROVE  flagged' = flagged
BY DEF gameVars, ledgerVars

\* A step that flags has rolled back, or the phase is over.
LEMMA StepLeavesNoTrace ==
  ASSUME IInv, [Next]_vars, Rollback, flagged' # flagged
  PROVE  \/ UNCHANGED <<world, dedupe, phasePlayer>>
         \/ phasePlayer = -1 /\ attempt = 2
         \/ phasePlayer' = -1
<1>1. ASSUME NEW p \in Player, GrantLease(p) PROVE FALSE
  BY <1>1 DEF GrantLease
<1>2. CASE BeginAttempt
  BY <1>2, BeginLeavesNoTrace
<1>3. ASSUME NEW p \in Player, Call(p) PROVE UNCHANGED <<world, dedupe, phasePlayer>>
  <2>1. \E e \in Entity, nonce \in Nonce \cup {NoKey} : OrderApplied(p, e, nonce)
    <3>1. ~UNCHANGED gameVars
      BY QuietLeavesNoFlag
    <3> QED BY <1>3, <3>1
        DEF Call, Order, RefuseOrder, RefuseOther, Observe, WriteDiary,
            OrderNotYours, OrderDuplicate, OrderIllegal
  <2> QED BY <2>1, OrderLeavesNoTrace
<1>4. ASSUME NEW p \in Player, BounceEndTurn(p) PROVE FALSE
  BY <1>4, QuietLeavesNoFlag DEF BounceEndTurn
<1>5. ASSUME NEW p \in Player, EndTurn(p) PROVE phasePlayer' = -1
  BY <1>5 DEF EndTurn, ClosePhase
<1>6. CASE Return \/ RuntimeAborts
  BY <1>6, QuietLeavesNoFlag DEF Return, RuntimeAborts
<1>7. CASE AbortCleanup
  BY <1>7, QuietLeavesNoFlag DEF AbortCleanup, ClosePhase
<1>8. CASE UNCHANGED vars
  BY <1>8, QuietLeavesNoFlag DEF vars
<1> QED BY <1>1, <1>2, <1>3, <1>4, <1>5, <1>6, <1>7, <1>8 DEF Next, TurnStep

-----------------------------------------------------------------------------
(* Theorems *)

LEMMA LogInvHolds == Spec => [](TypeOK /\ LogInv)
<1>1. LogInv /\ TypeOK /\ [Next]_vars => LogInv'
  BY StepKeepsLog
<1>2. Init => LogInv
  BY InitLog
<1>3. Spec => []TypeOK
  BY RefereeTyped
<1> QED BY <1>1, <1>2, <1>3, PTL DEF Spec

(* The counters are the violations on record: no sweep counts what it does   *)
(* not write down or blames another seat, whatever aborts or rolls back.     *)
THEOREM CountersAreTheLog == Spec => []CountersMatchLog
<1>1. LogInv => CountersMatchLog
  BY DEF LogInv
<1> QED BY <1>1, LogInvHolds, PTL

(* The live index and diary are what a resume rebuilds from the log, after   *)
(* any sequence of duplicates, refusals, rollbacks and repeated keys.        *)
THEOREM LogIsTheSource == Spec => []DerivedStateMatchesLog
<1>1. LogInv => DerivedStateMatchesLog
  BY DEF LogInv
<1> QED BY <1>1, LogInvHolds, PTL

(* A key is carried out again only after its last execution was rolled back. *)
THEOREM KeysAreCarriedOutOnce == Spec => []AtMostOnce
<1>1. LogInv => AtMostOnce
  BY DEF LogInv
<1> QED BY <1>1, LogInvHolds, PTL

(* Every accepted call lies under the caller's own lease, of its turn, which *)
(* nothing ended before it but the call's own end_turn.                      *)
THEOREM CallsHaveTheirLease == Spec => []AcceptedUnderOwnLease
<1>1. LogInv => AcceptedUnderOwnLease
  BY DEF LogInv
<1> QED BY <1>1, LogInvHolds, PTL

(* In rollback mode a flagged order or attempt is taken back whole: world,   *)
(* phase and index are what they were, unless no attempt is left or the      *)
(* phase is being closed, where the code flags without restoring.            *)
THEOREM NoTraceIsLeft == Spec => RollbackLeavesNoTrace
<1> DEFINE Leaves == Rollback /\ flagged' # flagged =>
                       \/ UNCHANGED <<world, dedupe, phasePlayer>>
                       \/ phasePlayer = -1 /\ attempt = 2
                       \/ phasePlayer' = -1
<1>1. IInv /\ [Next]_vars => Leaves
  BY StepLeavesNoTrace
<1>2. Spec => []IInv
  BY InitIInv, StepPreserves, PTL DEF Spec
<1>3. Spec => [][Leaves]_vars
  BY <1>1, <1>2, PTL DEF Spec
<1> QED BY <1>3 DEF RollbackLeavesNoTrace
=============================================================================
