----------------------------- MODULE MC_OrderPath -----------------------------
(* A small market maker, retail or institutional agent for OrderPath. *)
EXTENDS OrderPath

MC_Envelope == [max_order_notional |-> 4, max_position_notional |-> 3,
                max_gross_exposure |-> 4, max_net_exposure |-> 3,
                max_orders_per_interval |-> 2]

\* A small market order and a limit order that crosses zero, either way, and a quote.
MC_Proposals ==
    [side : Side, quantity : {1}, order_type : {"MARKET"}, quote : {FALSE}]
        \cup [side : Side, quantity : {3}, order_type : {"LIMIT"}, quote : {FALSE}]
        \cup [side : {"SELL"}, quantity : {3}, order_type : {"LIMIT"}, quote : {TRUE}]
=============================================================================
