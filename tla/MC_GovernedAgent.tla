--------------------------- MODULE MC_GovernedAgent ---------------------------
(* A small retail agent for GovernedAgent. *)
EXTENDS GovernedAgent

MC_Envelope == [max_order_notional |-> 4, max_position_notional |-> 4,
                max_gross_exposure |-> 4, max_net_exposure |-> 4,
                max_orders_per_interval |-> 2]

MC_Proposals ==
    {[side |-> "SELL", quantity |-> 1, order_type |-> "MARKET", quote |-> FALSE],
     [side |-> "BUY", quantity |-> 2, order_type |-> "LIMIT", quote |-> FALSE]}
=============================================================================
