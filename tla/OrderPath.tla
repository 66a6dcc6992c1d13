------------------------------ MODULE OrderPath ------------------------------
(***************************************************************************)
(* One governed agent's way from a proposal to its books                   *)
(* (docs/INTEGRATION.md, "Call order"): the runtime issues permissions as  *)
(* governance moves, the agent proposes, apply_permission() or             *)
(* execute_hybrid() answers, and the venue fills what was allowed, in      *)
(* parts, later, or never.  Time passes between any two of these steps.    *)
(* The agent is untrusted: it may present the permission it was last       *)
(* issued, the one before, or any that was issued to another agent.  The   *)
(* caller passes the time at which the gate runs, or leaves it to default  *)
(* to the time of the proposal.                                            *)
(***************************************************************************)
EXTENDS OrderGate

CONSTANTS
    States,         \* governance states explored
    Window,         \* how long a permission is valid (60 seconds in the code)
    MaxClock,       \* bound of the model: the last instant
    Proposals,      \* the orders the agent may propose
    MaxFill,        \* bound of the model: the largest single fill
    MaxOrders,      \* bound of the model: the most orders allowed in one interval
    MaxBook         \* bound of the model: the largest book

ASSUME OrderPathAssumption ==
    /\ States \subseteq GovernanceState
    /\ "NORMAL" \in States
    /\ Proposals \subseteq Order
    /\ {Window, MaxClock, MaxFill, MaxOrders, MaxBook} \subseteq Nat

VARIABLES
    clock,
    permission,             \* the permission in force
    former,                 \* the one it replaced
    severe_since,           \* history: when governance last turned severe, -1 if it is not
    book,                   \* the agent's long and short positions
    order,                  \* the proposal under way, or NoOrder
    orders_this_interval,   \* orders allowed since the last permission
    resting                 \* what the venue still holds of the last allowed order, or NoOrder

vars == <<clock, permission, former, severe_since, book, order,
          orders_this_interval, resting>>

NoOrder == [side |-> "NONE"]
Permission == [agent : {"self", "other"}, state : GovernanceState, from : Nat]

\* Permissions of another agent, under a governance of its own.
Foreign == {[agent |-> "other", state |-> "NORMAL", from |-> t] : t \in 0..clock}

Presented == {permission, former} \cup Foreign

-----------------------------------------------------------------------------
(* authorize_permission() *)

\* Mutant: the window has no end.
NeverExpires(p, t) == p.from <= t

WithinWindow(p, t) == p.from <= t /\ t <= p.from + Window

IssuedTo(p) == p.agent = "self"

Authorized(p, t) == IssuedTo(p) /\ WithinWindow(p, t)

\* The evaluation time: the caller's clock, if it passes it, or else proposed_at.
EvaluationTime(timed) == IF timed THEN clock ELSE order.proposed_at

-----------------------------------------------------------------------------
(* The runtime around the gate. *)

Tick ==
    /\ clock < MaxClock
    /\ clock' = clock + 1
    /\ UNCHANGED <<permission, former, severe_since, book, order,
                   orders_this_interval, resting>>

\* permission_for() with the state governance is in at this instant.
Issue(s) ==
    /\ permission' = [agent |-> "self", state |-> s, from |-> clock]
    /\ former' = permission
    /\ severe_since' = CASE s \notin Severe -> -1
                         [] s \in Severe /\ severe_since >= 0 -> severe_since
                         [] OTHER -> clock
    /\ orders_this_interval' = 0
    /\ UNCHANGED <<clock, book, order, resting>>

Propose(o) ==
    /\ order = NoOrder
    /\ order' = [side |-> o.side, quantity |-> o.quantity, order_type |-> o.order_type,
                 quote |-> o.quote, proposed_at |-> clock]
    /\ UNCHANGED <<clock, permission, former, severe_since, book,
                   orders_this_interval, resting>>

-----------------------------------------------------------------------------
(* The gate. *)

\* Submit what was allowed, by which of the two answers and as of which time, as the
\* venue's closing and opening legs; nothing if refused.
Submit(p, quantity, by, time) ==
    /\ orders_this_interval < MaxOrders
    /\ resting' = IF quantity = 0 THEN NoOrder
                  ELSE [side |-> order.side, state |-> p.state, by |-> by, at |-> time,
                        closing |-> Closing(order.side, quantity, book),
                        opening |-> Opening(order.side, quantity, book)]
    /\ orders_this_interval' = orders_this_interval + (IF quantity = 0 THEN 0 ELSE 1)
    /\ order' = NoOrder
    /\ UNCHANGED <<clock, permission, former, severe_since, book>>

\* An exception: PermissionInvalidError ends the order; after PermissionExpiredError the
\* caller still has it, to retry under another permission.
Raise(p) ==
    /\ order' = IF IssuedTo(p) THEN order ELSE NoOrder
    /\ UNCHANGED <<clock, permission, former, severe_since, book,
                   orders_this_interval, resting>>

Answering(p) ==
    /\ order # NoOrder
    /\ resting = NoOrder
    /\ p \in Presented

\* apply_permission()
ApplyPermission(p, timed) ==
    /\ Answering(p)
    /\ Authorized(p, EvaluationTime(timed))
    /\ Submit(p, GateQuantity(order, Net(book), p.state, orders_this_interval),
              "gate", EvaluationTime(timed))

ApplyPermissionRaises(p, timed) ==
    /\ Answering(p)
    /\ ~Authorized(p, EvaluationTime(timed))
    /\ Raise(p)

\* execute_hybrid() over apply_permission(), which it calls without the evaluation time:
\* the gate checks the window again, at proposed_at.
ExecuteHybrid(p, timed) ==
    /\ Answering(p)
    /\ Authorized(p, EvaluationTime(timed))
    /\ Authorized(p, order.proposed_at)
    /\ Submit(p, HybridQuantity(order, book, p.state, orders_this_interval),
              "gate", EvaluationTime(timed))

ExecuteHybridRaises(p, timed) ==
    /\ Answering(p)
    /\ ~Authorized(p, EvaluationTime(timed)) \/ ~Authorized(p, order.proposed_at)
    /\ Raise(p)

\* execute_hybrid() over an adapter that raises GovernanceAdapterError before it looks at
\* the window.
ExecuteFallback(p, timed) ==
    /\ Answering(p)
    /\ Authorized(p, EvaluationTime(timed))
    /\ Submit(p, FallbackQuantity(order, book, p.state), "fallback", EvaluationTime(timed))

-----------------------------------------------------------------------------
(* The venue: fills in parts, closing legs clamped to what is held. *)

Remaining(closing, opening) ==
    IF closing + opening = 0 THEN NoOrder
    ELSE [resting EXCEPT !.closing = closing, !.opening = opening]

FillClosing(n) ==
    /\ resting # NoOrder
    /\ n <= resting.closing
    /\ book' = AfterLeg(resting.side,
                        [quantity |-> n, is_short |-> FALSE,
                         is_short_cover |-> resting.side = "BUY"], book)
    /\ resting' = Remaining(resting.closing - n, resting.opening)
    /\ UNCHANGED <<clock, permission, former, severe_since, order, orders_this_interval>>

FillOpening(n) ==
    /\ resting # NoOrder
    /\ n <= resting.opening
    /\ book' = AfterLeg(resting.side,
                        [quantity |-> n, is_short |-> resting.side = "SELL",
                         is_short_cover |-> FALSE], book)
    /\ book'.long <= MaxBook
    /\ book'.short <= MaxBook
    /\ resting' = Remaining(resting.closing, resting.opening - n)
    /\ UNCHANGED <<clock, permission, former, severe_since, order, orders_this_interval>>

Cancel ==
    /\ resting # NoOrder
    /\ resting' = NoOrder
    /\ UNCHANGED <<clock, permission, former, severe_since, book, order, orders_this_interval>>

-----------------------------------------------------------------------------
Init ==
    /\ clock = 0
    /\ permission = [agent |-> "self", state |-> "NORMAL", from |-> 0]
    /\ former = permission
    /\ severe_since = -1
    /\ book \in [long : 0..MaxBook, short : 0..MaxBook]
    /\ order = NoOrder
    /\ orders_this_interval = 0
    /\ resting = NoOrder

Next ==
    \/ Tick
    \/ \E s \in States : Issue(s)
    \/ \E o \in Proposals : Propose(o)
    \/ \E p \in Presented, timed \in BOOLEAN :
          \/ ApplyPermission(p, timed)
          \/ ApplyPermissionRaises(p, timed)
          \/ ExecuteHybrid(p, timed)
          \/ ExecuteHybridRaises(p, timed)
          \/ ExecuteFallback(p, timed)
    \/ \E n \in 1..MaxFill : FillClosing(n) \/ FillOpening(n)
    \/ Cancel

Spec == Init /\ [][Next]_vars

-----------------------------------------------------------------------------
(* Properties. *)

\* Every variable keeps its type; books never go negative.
TypeOK ==
    /\ clock \in Nat
    /\ permission \in Permission /\ former \in Permission
    /\ severe_since \in Nat \cup {-1}
    /\ book \in Book
    /\ order = NoOrder \/ order \in [side : Side, quantity : Nat \ {0}, quote : BOOLEAN,
                                   order_type : {"MARKET", "LIMIT"}, proposed_at : Nat]
    /\ orders_this_interval \in Nat
    /\ \/ resting = NoOrder
       \/ resting \in [side : Side, state : GovernanceState, by : {"gate", "fallback"},
                       at : Nat, closing : Nat, opening : Nat]

\* Authority from before a tightening runs out: once governance is severe, an opening is
\* submitted as of no later than one window on, whichever permission is presented, the
\* agent's former one or another agent's, and whichever path answers.  As of: the time the
\* caller passes; a caller that passes none bounds the proposal, not the submission.
StaleAuthorityExpires ==
    resting # NoOrder /\ severe_since >= 0 /\ resting.opening > 0 =>
        resting.at <= severe_since + Window

\* The net position stays where it is or moves towards zero, not through it.
TowardsZero ==
    \/ 0 <= Net(book') /\ Net(book') <= Net(book)
    \/ Net(book) <= Net(book') /\ Net(book') <= 0

\* What was allowed under a severe state only takes away, whichever answer it was and
\* however it fills: no fill adds to either book, and none moves the net position away
\* from zero or through it, unless the fallback answered over two-sided books.
ReduceOnlyReduces ==
    [][book' # book /\ resting.state \in Severe =>
          /\ book'.long <= book.long
          /\ book'.short <= book.short
          /\ resting.by = "gate" \/ Smaller(book.long, book.short) = 0 => TowardsZero]_vars

\* README: "Reduce-only cannot reverse a position through zero".
ReduceOnlyNeverReverses ==
    [][book' # book /\ resting.state \in Severe =>
          /\ Net(book) > 0 => Net(book') >= 0
          /\ Net(book) < 0 => Net(book') <= 0]_vars

\* A step in which the gate, scaled or not, answers the proposal.
GateAnswers ==
    \E p \in Presented, timed \in BOOLEAN : ApplyPermission(p, timed) \/ ExecuteHybrid(p, timed)

\* The exit stays open: with inventory on one side only, the gate lets a reduction
\* through whole in every state, whatever its type and however many orders came before.
ExitKept ==
    [][GateAnswers /\ Smaller(book.long, book.short) = 0
            /\ Opening(order.side, order.quantity, book) = 0 =>
        resting' # NoOrder /\ resting'.closing = order.quantity]_vars

\* An opening the gate allows ends, if filled whole, inside the exposure limits of the
\* state it was allowed under, also when it crosses zero and after scaling.
LimitsHeld ==
    [][GateAnswers /\ resting' # NoOrder /\ resting'.opening > 0 =>
        Abs(Net(After(order.side, resting'.closing + resting'.opening, book)))
            <= projected_limit(resting'.state)]_vars

\* Where the state grants no open short, the gate lets no sale take a flat or long agent
\* short, unless it is a market-making quote.
NoNewShort ==
    [][GateAnswers /\ resting' # NoOrder /\ resting'.opening > 0
            /\ order.side = "SELL" /\ Net(book) >= 0 /\ ~order.quote =>
        allow_open_short(resting'.state)]_vars

\* A step in which the scalar fallback answers it.
FallbackAnswers == \E p \in Presented, timed \in BOOLEAN : ExecuteFallback(p, timed)

\* README: "Every state, including full isolation, keeps a protected path for
\* risk-reducing actions": with inventory on one side only, an order that only closes
\* is never answered with nothing, by the gate or by the fallback.
ExitNeverBlocked ==
    [][(GateAnswers \/ FallbackAnswers) /\ Smaller(book.long, book.short) = 0
            /\ Opening(order.side, order.quantity, book) = 0 =>
        resting' # NoOrder]_vars

\* docs/INTEGRATION.md on an expired permission: "Re-issue a permission, then retry".
\* A permission valid now, presented by a caller that says when now is, is never answered
\* with PermissionExpiredError.
ReissueThenRetry ==
    Authorized(permission, clock) => ~ENABLED ExecuteHybridRaises(permission, TRUE)
=============================================================================
