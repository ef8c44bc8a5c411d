----------------------------- MODULE Production -----------------------------
(***************************************************************************)
(* What a city of the live seat is told to build: the ordinary orders of   *)
(* firetuner.py and lua_translator.py, which are sent again when their     *)
(* answer is lost, and the districts and projects of productive_native.py, *)
(* which are sent once.  The game only takes a request down and carries it *)
(* out later, so both are read back before they are reported accepted.     *)
(*                                                                         *)
(* That an answer is taken for that of another command is TunerLink's.     *)
(***************************************************************************)
EXTENDS Naturals, Sequences, FiniteSets

CONSTANTS
  Tries,      \* how often an ordinary order may be sent in all
  MaxOrders,  \* bound: orders
  MaxTrouble, \* bound: answers lost, sockets and cities lost
  Nothing

Ordinary == {"unit", "building"}
Placed == {"district"}
Typed(o) == o.item \notin Ordinary
Orders(n) == [id : {n}, item : Ordinary \cup Placed \cup {"project"}, dest : {Nothing, "near", "far"}]

VARIABLES
  city,      \* [item, plot, mine]: what it builds and where; the seat's own
  asked,     \* the requests that the game has taken down, in order
  scripts,   \* what was sent and the game has not run: [order, copy, what]
  reply,     \* the answer to the last script run: [copy, row, city]
  conn,      \* the connection in use
  pc, order, \* the order under way: [id, item, dest]
  copy,      \* copies of orders sent
  seenConn,  \* execute_once: the connection when it began to wait for the lock
  trouble,
  copies,    \* history: [order, copy] of every copy of an order sent
  requested, \* history: the orders whose request was taken down
  results    \* history: [order, status, read]

vars == <<city, asked, scripts, reply, conn, pc, order, copy, seenConn, trouble,
          copies, requested, results>>
gameVars == <<city, asked, scripts, reply>>
historyVars == <<copies, requested, results>>

NoReply == [copy |-> 0, row |-> "none", city |-> Nothing]
NoOrder == [id |-> 0, item |-> "unit", dest |-> Nothing]

Init ==
  /\ city \in [item : {Nothing, "unit"}, plot : {Nothing}, mine : {TRUE}]
  /\ asked = <<>> /\ scripts = <<>> /\ reply = NoReply /\ conn = 1
  /\ pc = "idle" /\ order = NoOrder /\ copy = 0 /\ seenConn = 0 /\ trouble = 0
  /\ copies = {} /\ requested = {} /\ results = {}

Trouble == trouble < MaxTrouble /\ trouble' = trouble + 1

-----------------------------------------------------------------------------
(* The game.  A district or a project is only taken by a city that builds  *)
(* nothing; whether the item and the plot are legal is the game's to say,  *)
(* the plot once more when the request is made.                            *)
Owned == city.mine
Vacant == city.item = Nothing

Taken(s) == Owned /\ (Typed(s.order) => Vacant)
Refused(s) == Owned \/ ~Typed(s.order)

RunOrder(s) ==
  /\ \/ /\ Taken(s)
        /\ asked' = Append(asked, s.order) /\ requested' = requested \cup {s.order}
        /\ reply' = [copy |-> s.copy, row |-> "OK", city |-> Nothing]
     \/ /\ UNCHANGED <<asked, requested>>
        /\ reply' = [copy |-> s.copy, row |-> IF Refused(s) THEN "ERR" ELSE "LuaError",
                     city |-> Nothing]
  /\ UNCHANGED city

RunRead(s) ==
  /\ reply' = [copy |-> s.copy, row |-> IF Owned THEN "state" ELSE "gone", city |-> city]
  /\ UNCHANGED <<city, asked, requested>>

RunScript ==
  /\ scripts # <<>> /\ scripts' = Tail(scripts)
  /\ LET s == Head(scripts) IN IF s.what = "order" THEN RunOrder(s) ELSE RunRead(s)
  /\ UNCHANGED <<conn, pc, order, copy, seenConn, trouble, copies, results>>

\* VALUE_EXCLUSIVE: what the city built before is replaced.  The game may also let a
\* request drop.
CarryOut ==
  /\ asked # <<>> /\ asked' = Tail(asked)
  /\ \/ /\ Owned /\ UNCHANGED trouble
        /\ city' = [city EXCEPT !.item = Head(asked).item, !.plot = Head(asked).dest]
     \/ ~Owned /\ UNCHANGED <<city, trouble>>
     \/ Trouble /\ UNCHANGED city
  /\ UNCHANGED <<scripts, reply, conn, pc, order, copy, seenConn, historyVars>>

\* The city changes hands, or the turn ends and another player is the local one.
CityLost ==
  /\ Owned /\ Trouble /\ city' = [city EXCEPT !.mine = FALSE]
  /\ UNCHANGED <<asked, scripts, reply, conn, pc, order, copy, seenConn, historyVars>>

\* Another command, of the popup monitor, finds the socket dead and makes a new one.
\* The readback goes on over it: generation is asked of the proxy, which stays.
Reconnects ==
  /\ Trouble /\ conn' = conn + 1
  /\ UNCHANGED <<gameVars, pc, order, copy, seenConn, historyVars>>

-----------------------------------------------------------------------------
(* The adapter.  An act that raises ends the match. *)
Answer(status) ==
  /\ results' = results \cup {[order |-> order, status |-> status, read |-> reply.city]}
  /\ pc' = IF status = "unclear" THEN "over" ELSE "idle"

Shape(o) ==
  IF o.item \in Placed THEN o.dest # Nothing ELSE o.dest = Nothing

\* act: what _arg_violation turns down is not sent.
Act ==
  /\ pc = "idle" /\ order.id < MaxOrders
  /\ \E o \in Orders(order.id + 1) :
       /\ order' = o
       /\ IF Shape(o)
          THEN pc' = (IF Typed(o) THEN "lock" ELSE "send") /\ UNCHANGED results
          ELSE pc' = "idle" /\ results' = results \cup {[order |-> o, status |-> "rejected", read |-> Nothing]}
  /\ seenConn' = conn
  /\ UNCHANGED <<gameVars, conn, copy, trouble, copies, requested>>

SendOrder ==
  /\ copy' = copy + 1 /\ pc' = "answer"
  /\ scripts' = Append(scripts, [order |-> order, copy |-> copy + 1, what |-> "order"])
  /\ copies' = copies \cup {[order |-> order, copy |-> copy + 1]}

\* execute_once: over the connection that was there before the wait for its lock.
MayGoOut == conn = seenConn
ExecuteOnce ==
  /\ pc = "lock"
  /\ IF MayGoOut THEN SendOrder /\ UNCHANGED results
     ELSE Answer("unclear") /\ UNCHANGED <<scripts, copy, copies>>
  /\ UNCHANGED <<city, asked, reply, conn, order, seenConn, trouble, requested>>

Execute ==
  /\ pc = "send" /\ SendOrder
  /\ UNCHANGED <<city, asked, reply, conn, order, seenConn, trouble, requested, results>>

Answered == reply.copy = copy

\* parse_act, and for a typed order parse_receipt, which wants its own three rows.
Verdict ==
  /\ pc = "answer" /\ Answered
  /\ CASE reply.row = "OK"  -> pc' = "verify" /\ UNCHANGED results
       [] reply.row = "ERR" -> Answer("rejected")
       [] OTHER             -> Answer("unclear")
  /\ UNCHANGED <<gameVars, conn, order, copy, seenConn, trouble, copies, requested>>

Sent(o) == Cardinality({c \in copies : c.order = o})
MayRepeat(o) == ~Typed(o) /\ Sent(o) < Tries

\* The answer does not come in time or the socket dies: the proxy, the connection
\* and act itself each send an ordinary order again.
Lost ==
  /\ pc = "answer" /\ Trouble
  /\ IF MayRepeat(order) THEN pc' = "send" /\ UNCHANGED results ELSE Answer("unclear")
  /\ UNCHANGED <<gameVars, conn, order, copy, seenConn, copies, requested>>

\* verify and verify_production.
ReadBack ==
  /\ pc = "verify"
  /\ pc' = "reading" /\ reply' = NoReply
  /\ scripts' = Append(scripts, [order |-> order, copy |-> copy, what |-> "read"])
  /\ UNCHANGED <<city, asked, conn, order, copy, seenConn, trouble, historyVars>>

Matches(o, c) == c.item = o.item /\ (o.item \in Placed => c.plot = o.dest)

\* It is read until it matches or time is up; the request may still apply.
Read ==
  /\ pc = "reading" /\ Answered
  /\ IF reply.row = "gone" THEN Answer("unclear")
     ELSE IF Matches(order, reply.city) THEN Answer("accepted")
     ELSE pc' = "verify" /\ UNCHANGED results
  /\ UNCHANGED <<gameVars, conn, order, copy, seenConn, trouble, copies, requested>>

TimeIsUp ==
  /\ pc \in {"verify", "reading"} /\ Trouble /\ Answer("unclear")
  /\ UNCHANGED <<gameVars, conn, order, copy, seenConn, copies, requested>>

Next ==
  \/ RunScript \/ CarryOut \/ CityLost \/ Reconnects
  \/ Act \/ ExecuteOnce \/ Execute \/ Verdict \/ Lost \/ ReadBack \/ Read \/ TimeIsUp

Spec == Init /\ [][Next]_vars

-----------------------------------------------------------------------------
\* A district or a project is sent at most once, whatever is lost or broken
\* (productive_native: "a request is sent once").
SentOnce ==
  \A c \in copies : Typed(c.order) => Sent(c.order) = 1

\* What an order is answered is what became of it.  An accepted one was taken down by
\* the game and is what the city was read to build, where it was to be built; a
\* rejected one was not taken down.  An ordinary order that was sent again is left
\* out of the second: the first copy may have been taken down when the answer that
\* counts refuses the next one.
AnswersAreTrue ==
  \A r \in results :
    /\ r.status = "accepted" => r.order \in requested /\ r.read.item = r.order.item
                              /\ r.read.plot = r.order.dest
    /\ r.status = "rejected" /\ Sent(r.order) <= 1 => r.order \notin requested

\* After an accepted order the city builds it: no late copy or request of an earlier
\* one takes its place.  As long as no order was refused as above though an earlier
\* copy of it was taken down, for that one is carried out all the same.
Misanswered == \E r \in results : r.status = "rejected" /\ r.order \in requested
LastOrderStands ==
  \A r \in results :
    pc = "idle" /\ r.order = order /\ r.status = "accepted" /\ Owned /\ ~Misanswered
      => city.item = order.item /\ city.plot = order.dest
=============================================================================
