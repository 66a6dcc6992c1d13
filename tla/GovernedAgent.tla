----------------------------- MODULE GovernedAgent -----------------------------
(***************************************************************************)
(* One agent under the whole layer: the recovery ladder decides a state,   *)
(* the runtime issues a permission for it, the gate sizes orders under the *)
(* permission, native legs rest at the venue and fill in parts, and the    *)
(* guard (pending_guard.py) judges what rests on the books and permission  *)
(* of the moment.  A cancel is a request: until the venue confirms it the  *)
(* leg may still fill.                                                     *)
(*                                                                         *)
(* The permission in force carries the governance state it was issued for, *)
(* which is the present one, because the runtime issues it with every      *)
(* evaluation.  Time is the age of permissions, saturated once they have   *)
(* expired.  Orders are not counted per interval (the gate's default).     *)
(* The runtime passes its time to the gate, as docs/INTEGRATION.md has it; *)
(* what follows when it does not is in OrderPath.                          *)
(***************************************************************************)
EXTENDS OrderGate, RecoveryLadder, FiniteSets

CONSTANTS
    Signals,    \* the classes of signals explored
    Window,     \* how long a permission is valid
    Proposals,  \* the orders the agent may propose
    Slots,      \* bound of the model: native legs that rest at once
    MaxBook,    \* bound of the model: the largest book
    None        \* absent

ASSUME GovernedAgentAssumption ==
    /\ Signals \subseteq Class
    /\ Proposals \subseteq Order
    /\ Slots \subseteq Nat /\ IsFiniteSet(Slots)
    /\ {Window, MaxBook} \subseteq Nat

VARIABLES
    age,            \* of the permission in force
    former,         \* a permission of before that the agent kept, any that could open
    book,           \* the agent's long and short positions
    legs,           \* per slot: a native leg at the venue, or None
    severe_for,     \* history: instants since governance turned severe, -1 if it is not
    debt            \* history: cooldown and outcomes owed since the last isolation

agent == <<ladder, age, former, book, legs, severe_for, debt>>

Age == 0..Window + 1
Permission == [state : GovernanceState, age : Age]
Resting == [side : Side, opens : BOOLEAN, quantity : Nat \ {0},
            order_type : {"MARKET", "LIMIT"}, kept : BOOLEAN, cancel : BOOLEAN]

InForce == [state |-> state, age |-> age]
Older(a) == Smaller(a + 1, Window + 1)

\* What the agent kept, an instant later: expired permissions are not told apart.
Kept(p) == IF p.age < Window THEN [p EXCEPT !.age = @ + 1]
                             ELSE [state |-> "NORMAL", age |-> Window + 1]

\* A verdict of the guard holds for the books and the permission it was given on.
Unjudged(rest) ==
    [i \in Slots |-> IF rest[i] = None THEN None ELSE [rest[i] EXCEPT !.kept = FALSE]]

-----------------------------------------------------------------------------
(* The runtime's interval: evaluate(), then permission_for(). *)

SevereFor(next) ==
    CASE next \notin Severe -> -1
      [] next \in Severe /\ state \in Severe -> severe_for
      [] OTHER -> 0

Owed(next, advance, completed) ==
    IF next = "ISOLATED" /\ state # "ISOLATED"
    THEN [cooldown |-> CooldownIntervals, outcomes |-> MinNewOutcomes]
    ELSE [cooldown |-> AtLeast(0, debt.cooldown - advance),
          outcomes |-> AtLeast(0, debt.outcomes - completed)]

Evaluate(class, advance, completed) ==
    /\ Interval(class, class = "missing", advance, completed)
    /\ age' = 0
    /\ former' \in {former} \cup (IF state \in Severe \/ age > Window THEN {} ELSE {InForce})
    /\ legs' = Unjudged(legs)
    /\ severe_for' = SevereFor(state')
    /\ debt' = Owed(state', advance, completed)
    /\ UNCHANGED book

Tick ==
    /\ age' = Older(age)
    /\ former' = Kept(former)
    /\ severe_for' = IF severe_for = -1 THEN -1 ELSE Older(severe_for)
    /\ UNCHANGED <<ladder, book, legs, debt>>

-----------------------------------------------------------------------------
(* An order is answered under a permission and becomes one native leg or two. *)

Vacant(rest) == {i \in Slots : rest[i] = None}

\* A native leg takes the first slot; there is none for a quantity of zero.
Placed(rest, order, quantity, opens) ==
    IF quantity = 0 THEN rest
    ELSE [rest EXCEPT ![CHOOSE i \in Vacant(rest) : \A k \in Vacant(rest) : i <= k] =
             [side |-> order.side, opens |-> opens, quantity |-> quantity,
              order_type |-> order.order_type, kept |-> FALSE, cancel |-> FALSE]]

\* Mutant: an expired permission is as good as a live one.
LiveLong(p) == TRUE

\* Age runs to the instant the gate is called, which is the evaluation_time it is given.
Live(p) == p.age <= Window

\* execute_hybrid() under permission p, then assess_risk_change() splits what it allowed
\* over the books.
Submit(order, p) ==
    LET allowed == HybridQuantity(order, book, p.state, 0)
        closing == Closing(order.side, allowed, book)
        opening == Opening(order.side, allowed, book)
        legs_of == Smaller(1, closing) + Smaller(1, opening)
    IN  /\ Live(p)
        /\ allowed > 0
        /\ Cardinality(Vacant(legs)) >= legs_of
        /\ legs' = Placed(Placed(legs, order, closing, FALSE), order, opening, TRUE)
        /\ UNCHANGED <<ladder, age, former, book, severe_for, debt>>

-----------------------------------------------------------------------------
(* pending_native_order_action() *)

NativeLeg(leg, n) ==
    [quantity       |-> n,
     is_short       |-> leg.side = "SELL" /\ leg.opens,
     is_short_cover |-> leg.side = "BUY" /\ ~leg.opens]

IfExecuted(leg) == AfterLeg(leg.side, NativeLeg(leg, leg.quantity), book)

\* Exposure limits of a state, in units of the instrument.
max_gross(s) == Units(Envelope.max_gross_exposure, s)
max_net(s) == Units(Envelope.max_net_exposure, s)

\* Mutant: a leg is judged by its side and the net position, not by its native flags.
OpensNetNow(leg) ==
    IF Increases([side |-> leg.side, quantity |-> leg.quantity], Net(book))
    THEN leg.quantity ELSE 0

\* Mutant: only long positions count as opened.
OpensLongNow(leg) == Larger(0, IfExecuted(leg).long - book.long)

\* What the leg opens on the books as they are.
OpensNow(leg) ==
    LET after == IfExecuted(leg)
    IN  Larger(0, after.long - book.long) + Larger(0, after.short - book.short)

ExposureBreach(leg) ==
    \/ Gross(IfExecuted(leg)) > max_gross(state)
    \/ Abs(Net(IfExecuted(leg))) > max_net(state)

\* Mutant: the exposure limits are not looked at again.
ForbiddenOnceJudged(leg) ==
    \/ reduce_only(state) \/ ~allow_risk_increase(state)
    \/ IfExecuted(leg).short > book.short /\ ~allow_open_short(state)
    \/ Gross(book) = 0 /\ ~allow_new_position(state)
    \/ leg.order_type = "MARKET" /\ ~allow_market_order(state)

Forbidden(leg) ==
    \/ reduce_only(state) \/ ~allow_risk_increase(state)
    \/ IfExecuted(leg).short > book.short /\ ~allow_open_short(state)
    \/ Gross(book) = 0 /\ ~allow_new_position(state)
    \/ ExposureBreach(leg)
    \/ leg.order_type = "MARKET" /\ ~allow_market_order(state)

GuardCancels(leg) == OpensNow(leg) > 0 /\ Forbidden(leg)

Judge(i) ==
    /\ legs[i] # None
    /\ ~legs[i].cancel
    /\ legs' = IF GuardCancels(legs[i])
               THEN [legs EXCEPT ![i].cancel = TRUE, ![i].kept = FALSE]
               ELSE [legs EXCEPT ![i].kept = legs[i].opens]
    /\ UNCHANGED <<ladder, age, former, book, severe_for, debt>>

-----------------------------------------------------------------------------
(* The venue. *)

Left(leg, n) == IF leg.quantity = n THEN None ELSE [leg EXCEPT !.quantity = @ - n]

Fill(i, n) ==
    /\ legs[i] # None
    /\ n <= legs[i].quantity
    /\ book' = AfterLeg(legs[i].side, NativeLeg(legs[i], n), book)
    /\ book'.long <= MaxBook
    /\ book'.short <= MaxBook
    /\ legs' = LET rest == [legs EXCEPT ![i] = Left(@, n)]
               IN  IF book' = book THEN rest ELSE Unjudged(rest)
    /\ UNCHANGED <<ladder, age, former, severe_for, debt>>

Cancelled(i) ==
    /\ legs[i] # None
    /\ legs[i].cancel
    /\ legs' = [legs EXCEPT ![i] = None]
    /\ UNCHANGED <<ladder, age, former, book, severe_for, debt>>

-----------------------------------------------------------------------------
Init ==
    /\ LadderInit
    /\ age = 0
    /\ former = InForce
    /\ book \in [long : 0..MaxBook, short : 0..MaxBook]
    /\ legs = [i \in Slots |-> None]
    /\ severe_for = -1
    /\ debt = [cooldown |-> 0, outcomes |-> 0]

SubmitAny ==
    \E order \in Proposals, p \in {InForce, former} : Submit(order, p)

EvaluateAny ==
    \E class \in Signals, advance \in 0..CooldownIntervals, completed \in 0..MinNewOutcomes :
        Evaluate(class, advance, completed)

Next ==
    \/ EvaluateAny
    \/ Tick
    \/ SubmitAny
    \/ \E i \in Slots :
          \/ Judge(i)
          \/ \E n \in 1..MaxBook : Fill(i, n)
          \/ Cancelled(i)

\* The clock runs, the runtime has every resting leg judged and the venue answers a
\* cancel.  Nothing is assumed of the agent, of the signals or of fills.
Spec ==
    /\ Init /\ [][Next]_agent
    /\ WF_agent(Tick)
    /\ \A i \in Slots : WF_agent(Judge(i)) /\ WF_agent(Cancelled(i))

-----------------------------------------------------------------------------
(* Properties. *)

\* Every variable keeps its type; books stay natural numbers.
TypeOK ==
    /\ state \in GovernanceState
    /\ age \in Age
    /\ former \in Permission
    /\ book \in [long : 0..MaxBook, short : 0..MaxBook]
    /\ \A i \in Slots : legs[i] = None \/ legs[i] \in Resting
    /\ severe_for \in Age \cup {-1}
    /\ debt \in [cooldown : 0..CooldownIntervals, outcomes : 0..MinNewOutcomes]

\* The guard never asks to cancel a leg that closes, whatever the books have become since
\* it was submitted (pending_guard.py: "Closing and covering legs remain available").
ReductionsNeverCancelled == \A i \in Slots : legs[i] # None /\ legs[i].cancel => legs[i].opens

OpeningsAt(rest) == {i \in Slots : rest[i] # None /\ rest[i].opens}

\* After an isolation nothing that opens is submitted, once the permissions of before have
\* expired, until a cooldown and new outcomes were earned.
ReopeningEarned ==
    [][(\E i \in OpeningsAt(legs') : legs[i] = None) =>
          \/ debt = [cooldown |-> 0, outcomes |-> 0]
          \/ severe_for \in 0..Window]_agent

Shut ==
    /\ severe_for > Window
    /\ \A i \in OpeningsAt(legs) : legs[i].cancel

\* Once the permissions of before have expired and the guard has been over the openings
\* that rest, only a race can still open, for as long as governance stays severe.
ShutStaysShut == [][Shut /\ state' \in Severe => Shut']_agent

\* An opening the guard kept on the present books and permission may fill in any parts
\* without carrying the agent beyond the limits it was judged by.
VettedFillsKeepLimits ==
    [][\A i \in OpeningsAt(legs), n \in 1..MaxBook : legs[i].kept /\ Fill(i, n) =>
          /\ Gross(book') <= max_gross(state)
          /\ Abs(Net(book')) <= Larger(max_net(state), Abs(Net(book)))]_agent

\* When governance turns severe to stay, the venue is rid of openings in the end, whatever
\* the agent goes on presenting.
SevereShutsOpenings ==
    <>[](state \in Severe) => <>[](OpeningsAt(legs) = {})
=============================================================================
