------------------------------ MODULE LlmSeat ------------------------------
(***************************************************************************)
(* One turn after the other of a seat a language model plays: the loop of  *)
(* tool calls (mode "tools"), or the controller that asks for a directive  *)
(* when it has a reason to and carries it out by itself (mode              *)
(* "strategic"), and the client that posts their requests.  Prompts and    *)
(* answers are reduced to what is done with them, a directive to its       *)
(* tactical overrides; the policy that picks what to build and the routine *)
(* of the scouts are any choice.  A kill loses the runtime; the requests   *)
(* it has noted are counted again by the next one.                         *)
(***************************************************************************)
EXTENDS Integers, Sequences, FiniteSets

CONSTANTS
  Unit, City,      \* of the seat; a city is a number
  Gate,            \* TRUE: a turn with unmoved units is not ended
  Cadence, MaxRounds, MaxRequests, MaxRetries,
  MaxUses,         \* bound: tool calls in one reply
  MaxTurn, MaxKills, MaxDecisions,   \* bounds
  None

VARIABLES
  mode, adaptive,  \* of the seat's profile
  turn, open,      \* the turn to play, and whether it is begun and not ended
  pc,
  ctl,             \* what the controller keeps between turns
  client,          \* posts counted, the decision they are booked on
  ask,             \* the decision being made
  uses,            \* tool calls of the last reply, still to be made
  todo, idle,      \* cities to look at; cities with an empty queue
  unmoved,         \* units with movement left
  rows,            \* the cost ledger: the decision of each post
  boundaries,      \* decision boundaries on the audit
  orders,          \* what was ordered, and on whose authority
  minted, kills

vars == <<mode, adaptive, turn, open, pc, ctl, client, ask, uses, todo, idle, unmoved, rows,
          boundaries, orders, minted, kills>>

NewController ==
  [failed |-> FALSE, lastTurn |-> 0, lastDecision |-> 0, directive |-> None, directiveId |-> None]

Init ==
  /\ mode \in {"tools", "strategic"} /\ adaptive \in (IF mode = "tools" THEN {FALSE} ELSE BOOLEAN)
  /\ turn = 1 /\ open = FALSE /\ pc = "between" /\ ctl = NewController
  /\ client = [posts |-> 0, decision |-> None]
  /\ ask = [left |-> 0, asked |-> 0, before |-> 0, late |-> FALSE, kind |-> None, attempt |-> 0]
  /\ uses = <<>> /\ todo = {} /\ idle = {} /\ unmoved = {}
  /\ rows = <<>> /\ boundaries = <<>> /\ orders = {} /\ minted = 0 /\ kills = 0

-----------------------------------------------------------------------------
SameSeat == UNCHANGED <<mode, adaptive, turn, kills>>

BookedOn_First(late) == IF late THEN client.decision ELSE minted + 1

\* The decision the posts to come are booked on: a new one for each request for
\* a directive, one made late in a turn too.
BookedOn(late) == minted + 1

\* A new decision id, put on the client before anything is asked.
Mint(late, asked, left) ==
  /\ minted < MaxDecisions /\ minted' = minted + 1
  /\ client' = [client EXCEPT !.decision = BookedOn(late)]
  /\ ask' = [ask EXCEPT !.late = late, !.asked = asked, !.left = left, !.before = client.posts]

\* How often a directive may be asked for: once, and once more to repair its
\* format, within the rounds the turn has left.
Attempts(asked) == IF MaxRounds - asked < 2 THEN MaxRounds - asked ELSE 2

\* MatchAborted. The controller stays failed.
Abort ==
  /\ pc' = "aborted"
  /\ UNCHANGED <<open, ctl, client, ask, uses, todo, idle, unmoved, rows, boundaries, orders, minted>>

\* take_turn of a seat whose model calls the tools.
TakeTurn ==
  /\ mode = "tools" /\ pc = "between" /\ turn <= MaxTurn
  /\ Mint(FALSE, 0, MaxRounds)
  /\ open' = TRUE /\ unmoved' = Unit /\ pc' = "asking"
  /\ UNCHANGED <<ctl, uses, todo, idle, rows, boundaries, orders>> /\ SameSeat

\* A turn is played once, in order, and not after one that failed.
MayTakeTurn == ~ctl.failed /\ turn = ctl.lastTurn + 1

\* take_turn of the controller, poisoned until the turn is closed. It may be
\* called again after a turn that failed.
Take ==
  /\ mode = "strategic" /\ pc \in {"between", "aborted"} /\ turn <= MaxTurn
  /\ MayTakeTurn
  /\ ctl' = [ctl EXCEPT !.failed = TRUE]
  /\ Mint(FALSE, 0, 0)
  /\ open' = TRUE /\ unmoved' = Unit /\ idle' \in SUBSET City /\ pc' = "observed"
  /\ UNCHANGED <<uses, todo, rows, boundaries, orders>> /\ SameSeat

Refuse ==
  /\ mode = "strategic" /\ pc = "between" /\ turn <= MaxTurn /\ ~MayTakeTurn
  /\ Abort /\ SameSeat

\* decision_boundary: what the decision cost and which directive now runs.
Boundary(id) ==
  boundaries' = Append(boundaries, [decision |-> client.decision, directive |-> id,
                                    requests |-> client.posts - ask.before])

MustDecide == ctl.directive = None \/ turn - ctl.lastDecision >= Cadence

\* _reasons finds none: the directive runs on.
Quiet ==
  /\ pc = "observed" /\ ~MustDecide
  /\ Boundary(ctl.directiveId) /\ pc' = "scouting"
  /\ UNCHANGED <<open, ctl, client, ask, uses, todo, idle, unmoved, rows, orders, minted>>
  /\ SameSeat

\* _reasons finds one: the cadence, a change of what is seen, or a request.
Decide ==
  /\ pc = "observed" /\ pc' = "asking"
  /\ ask' = [ask EXCEPT !.left = Attempts(ask.asked)]
  /\ UNCHANGED <<open, ctl, client, uses, todo, idle, unmoved, rows, boundaries, orders, minted>>
  /\ SameSeat

-----------------------------------------------------------------------------
OutOfRequests == client.posts >= MaxRequests

Send(kind) ==
  /\ pc' = "posting"
  /\ ask' = [ask EXCEPT !.kind = kind, !.attempt = 0,
               !.left = IF kind = "generation" THEN @ - 1 ELSE @,
               !.asked = IF kind = "generation" THEN @ + 1 ELSE @]
  /\ UNCHANGED <<open, ctl, client, uses, todo, idle, unmoved, rows, boundaries, orders, minted>>

\* _create, or an attempt of _decide, which counts the tokens first when the
\* context is adaptive.
Ask ==
  /\ pc = "asking" /\ ask.left > 0 /\ ~OutOfRequests
  /\ Send(IF adaptive THEN "count_tokens" ELSE "generation") /\ SameSeat

CannotAsk ==
  /\ pc = "asking" /\ IF mode = "tools" THEN ask.left > 0 /\ OutOfRequests
                                        ELSE ask.left < 1 \/ OutOfRequests
  /\ Abort /\ SameSeat

\* The rounds are used up: the runtime closes the turn itself.
OutOfRounds ==
  /\ pc = "asking" /\ mode = "tools" /\ ask.left = 0 /\ pc' = "closing"
  /\ UNCHANGED <<open, ctl, client, ask, uses, todo, idle, unmoved, rows, boundaries, orders, minted>>
  /\ SameSeat

\* One attempt of _post_doc, counted and booked before it is made. "busy" is
\* a transport error or a status worth another attempt; "refused" any other
\* failure, a malformed answer and a counter past its deadline included.
Post(answer) ==
  /\ pc = "posting" /\ ~OutOfRequests
  /\ client' = [client EXCEPT !.posts = @ + 1]
  /\ rows' = Append(rows, client.decision)
  /\ \/ answer = "ok" /\ pc' = IF ask.kind = "generation" THEN "replied" ELSE "counted"
     \/ answer = "busy" /\ pc' = IF ask.attempt < MaxRetries THEN "posting" ELSE "aborted"
     \/ answer = "refused" /\ pc' = "aborted"
  /\ ask' = [ask EXCEPT !.attempt = @ + 1]
  /\ UNCHANGED <<open, ctl, uses, todo, idle, unmoved, boundaries, orders, minted>> /\ SameSeat

CannotPost == pc = "posting" /\ OutOfRequests /\ Abort /\ SameSeat

\* The count is in: too long a context, or no request left, and the turn fails.
Admit == pc = "counted" /\ ~OutOfRequests /\ Send("generation") /\ SameSeat
NotAdmitted == pc = "counted" /\ Abort /\ SameSeat

-----------------------------------------------------------------------------
\* A reply of the tool loop; one that calls no tool ends the turn.
Reply(calls) ==
  /\ pc = "replied" /\ mode = "tools"
  /\ uses' = calls /\ pc' = IF calls = <<>> THEN "closing" ELSE "calling"
  /\ UNCHANGED <<open, ctl, client, ask, todo, idle, unmoved, rows, boundaries, orders, minted>>
  /\ SameSeat

Order(kind, directive, given, late) ==
  [kind |-> kind, turn |-> turn, open |-> open, directive |-> directive, given |-> given,
   late |-> late, cited |-> IF boundaries = <<>> THEN None ELSE boundaries[Len(boundaries)].directive]

Ended == unmoved = {} \/ ~Gate

\* After an accepted end_turn the calls beside it are not made.
After(call, rest) == IF call = "end" /\ Ended THEN <<>> ELSE rest

\* _call_tool: an unknown tool or a bad argument is an error result, an action
\* is accepted or not, end_turn is refused while a unit may still move.
CallTool ==
  /\ pc = "calling" /\ uses # <<>>
  /\ LET call == Head(uses)
     IN /\ orders' = IF call = "bad" THEN orders
                     ELSE orders \cup {Order("tool", None, turn, FALSE)}
        /\ unmoved' \in IF call = "act" THEN {unmoved} \cup {unmoved \ {u} : u \in unmoved}
                        ELSE {unmoved}
        /\ open' = (open /\ ~(call = "end" /\ Ended))
        /\ uses' = After(call, Tail(uses))
  /\ UNCHANGED <<pc, ctl, client, ask, todo, idle, rows, boundaries, minted>> /\ SameSeat

\* All calls are made: the next round, or the next turn.
CallsMade ==
  /\ pc = "calling" /\ uses = <<>>
  /\ pc' = IF open THEN "asking" ELSE "between"
  /\ turn' = IF open THEN turn ELSE turn + 1
  /\ UNCHANGED <<mode, adaptive, kills, open, ctl, client, ask, uses, todo, idle, unmoved, rows,
                 boundaries, orders, minted>>

\* What the controller keeps of a directive: late overrides are discarded.
Accepted(overrides) ==
  [ctl EXCEPT !.directive = [by |-> client.decision, turn |-> turn, late |-> ask.late,
                             overrides |-> IF ask.late THEN {} ELSE overrides],
              !.directiveId = client.decision, !.lastDecision = turn]

\* A reply of _decide. With adaptive context an economy directive may not
\* carry overrides. A rejected one is asked for once more, if it may be.
Directive(valid, overrides) ==
  /\ pc = "replied" /\ mode = "strategic"
  /\ LET good == valid /\ ~(adaptive /\ ask.late /\ overrides # {})
     IN /\ IF good THEN ctl' = Accepted(overrides) /\ Boundary(ctl'.directiveId)
                   ELSE UNCHANGED <<ctl, boundaries>>
        /\ pc' = CASE good -> (IF ask.late THEN "economy" ELSE "scouting")
                   [] ~good /\ ask.left > 0 /\ ~OutOfRequests -> "asking"
                   [] OTHER -> "aborted"
  /\ UNCHANGED <<open, client, ask, uses, todo, idle, unmoved, rows, orders, minted>> /\ SameSeat

-----------------------------------------------------------------------------
\* run_scouting: every override, carried out or rejected, and the routine.
Scout ==
  /\ pc = "scouting"
  /\ orders' = orders \cup {Order("override", ctl.directive.by, ctl.directive.turn, ctl.directive.late) :
                              u \in ctl.directive.overrides}
  /\ unmoved' \in SUBSET unmoved
  /\ todo' = City /\ pc' = "economy"
  /\ UNCHANGED <<open, ctl, client, ask, uses, idle, rows, boundaries, minted>> /\ SameSeat

NextCity == CHOOSE c \in todo : \A d \in todo : c <= d

\* A city of _economy: left alone when it builds, or given the policy's item,
\* which the game accepts or rejects; a rejected district ends the match.
Produce ==
  /\ pc = "economy" /\ todo # {}
  /\ todo' = todo \ {NextCity}
  /\ \/ NextCity \notin idle /\ UNCHANGED <<orders, idle>>
     \/ /\ NextCity \in idle
        /\ orders' = orders \cup {Order("produce", ctl.directive.by, turn, FALSE)}
        /\ idle' \in {idle, idle \ {NextCity}}
  /\ UNCHANGED <<pc, open, ctl, client, ask, uses, unmoved, rows, boundaries, minted>>
  /\ SameSeat

CannotProduce == pc = "economy" /\ todo \cap idle # {} /\ Abort /\ SameSeat

\* The directive's targets are all met: one new directive a turn, a decision
\* of its own.
Refresh ==
  /\ pc = "economy" /\ todo # {} /\ NextCity \in idle /\ ~ask.late
  /\ Mint(TRUE, ask.asked, Attempts(ask.asked)) /\ pc' = "asking"
  /\ UNCHANGED <<open, ctl, uses, todo, idle, unmoved, rows, boundaries, orders>> /\ SameSeat

\* Overrides end with the turn they were given for.
Expired == [ctl EXCEPT !.directive.overrides = {}]

EconomyDone ==
  /\ pc = "economy" /\ todo = {}
  /\ ctl' = Expired /\ pc' = "closing"
  /\ UNCHANGED <<open, client, ask, uses, todo, idle, unmoved, rows, boundaries, orders, minted>>
  /\ SameSeat

\* _close_turn: end_turn; if units are unmoved they fortify, those that can,
\* and end_turn is tried once more. Then the controller commits the turn.
Close ==
  /\ pc = "closing"
  /\ \E held \in SUBSET unmoved :
       /\ Ended => held = {}
       /\ unmoved' = unmoved \ held
       /\ orders' = IF held = {} THEN orders ELSE orders \cup {Order("tool", None, turn, FALSE)}
       /\ IF Ended \/ unmoved' = {}
          THEN /\ open' = FALSE /\ pc' = "between" /\ turn' = turn + 1
               /\ ctl' = IF mode = "strategic" THEN [ctl EXCEPT !.lastTurn = turn, !.failed = FALSE]
                         ELSE ctl
          ELSE pc' = "aborted" /\ UNCHANGED <<open, turn, ctl>>
  /\ UNCHANGED <<mode, adaptive, kills, client, ask, uses, todo, idle, rows, boundaries, minted>>

\* The process dies and the match is resumed at the turn: a new runtime, whose
\* posts are those of the spend ledger; what the turn did is undone.
Kill ==
  /\ kills < MaxKills /\ pc # "aborted" /\ kills' = kills + 1
  /\ ctl' = NewController /\ client' = [posts |-> Len(rows), decision |-> None]
  /\ pc' = "between" /\ open' = FALSE /\ uses' = <<>> /\ todo' = {} /\ idle' = {} /\ unmoved' = {}
  /\ orders' = {o \in orders : o.turn # turn}
  /\ UNCHANGED <<mode, adaptive, turn, ask, rows, boundaries, minted>>

Calls == UNION {[1..n -> {"bad", "act", "end"}] : n \in 0..MaxUses}
Next ==
  \/ TakeTurn \/ Take \/ Refuse \/ Quiet \/ Decide
  \/ Ask \/ CannotAsk \/ OutOfRounds \/ CannotPost \/ Admit \/ NotAdmitted
  \/ \E answer \in {"ok", "busy", "refused"} : Post(answer)
  \/ \E calls \in Calls : Reply(calls)
  \/ CallTool \/ CallsMade
  \/ \E valid \in BOOLEAN, overrides \in SUBSET Unit : Directive(valid, overrides)
  \/ Scout \/ Produce \/ CannotProduce \/ Refresh \/ EconomyDone \/ Close \/ Kill

Spec == Init /\ [][Next]_vars

-----------------------------------------------------------------------------
\* The budget of the match bounds what is posted in all its legs, the rounds
\* of a turn bound what is asked in it, and every decision boundary on the
\* audit names the number of posts the cost ledger books on that decision,
\* whatever failed, was retried or was asked for after it.
CostsAddUp ==
  /\ client.posts <= MaxRequests /\ Len(rows) <= MaxRequests /\ ask.asked <= MaxRounds
  /\ \A i, j \in DOMAIN boundaries :
       i # j => boundaries[i].decision # boundaries[j].decision
  /\ \A i \in DOMAIN boundaries :
       boundaries[i].requests = Cardinality({k \in DOMAIN rows : rows[k] = boundaries[i].decision})

\* What the controller orders is done under the directive that the latest
\* decision boundary cites, and a tactical override only in the turn it was
\* given for, by a decision made before that turn's orders; no order is sent
\* when end_turn was accepted, and no turn is left open but by an abort.
OrdersHaveAuthority ==
  /\ \A o \in orders : /\ o.open
                       /\ o.kind \in {"override", "produce"} => o.directive = o.cited
                       /\ o.kind = "override" => o.given = o.turn /\ ~o.late
  /\ pc = "between" => ~open

\* A turn that failed under the controller is never picked up again.
FailedForGood == [][pc = "aborted" /\ mode = "strategic" => pc' = "aborted"]_vars
=============================================================================
