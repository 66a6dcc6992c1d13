---------------------------- MODULE FillRetention ----------------------------
(***************************************************************************)
(* The ledger behind the corrected retention rates (fill_retention.py), as *)
(* functions from ledger to ledger.  The rates are quotients of its        *)
(* fields.                                                                 *)
(***************************************************************************)
EXTENDS Integers, FiniteSets

Ledger == [proposed_quantity : Nat, authorized_quantity : Nat, executed_quantity : Nat,
           eligible_order_count : Nat, excluded_order_count : Nat,
           filled_order_count : Nat, fill_event_count : Nat, filled_orders : SUBSET Nat]

EmptyLedger ==
    [proposed_quantity |-> 0, authorized_quantity |-> 0, executed_quantity |-> 0,
     eligible_order_count |-> 0, excluded_order_count |-> 0,
     filled_order_count |-> 0, fill_event_count |-> 0, filled_orders |-> {}]

\* Mutant: an order that cannot fill keeps its quantities in the denominators.
observe_order_whole(ledger, proposed, authorized, venue_eligible) ==
    [ledger EXCEPT
        !.excluded_order_count = IF venue_eligible THEN @ ELSE @ + 1,
        !.eligible_order_count = IF venue_eligible THEN @ + 1 ELSE @,
        !.proposed_quantity = @ + proposed,
        !.authorized_quantity = @ + authorized]

observe_order(ledger, proposed, authorized, venue_eligible) ==
    IF ~venue_eligible THEN [ledger EXCEPT !.excluded_order_count = @ + 1]
    ELSE [ledger EXCEPT
             !.eligible_order_count = @ + 1,
             !.proposed_quantity = @ + proposed,
             !.authorized_quantity =
                 @ + (IF authorized < proposed THEN authorized ELSE proposed)]

observe_fill(ledger, order, quantity) ==
    [ledger EXCEPT
        !.executed_quantity = @ + quantity,
        !.fill_event_count = @ + 1,
        !.filled_order_count = IF order \in ledger.filled_orders THEN @ ELSE @ + 1,
        !.filled_orders = @ \cup {order}]
=============================================================================
