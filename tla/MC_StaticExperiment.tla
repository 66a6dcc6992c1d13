------------------------ MODULE MC_StaticExperiment ------------------------
(* The harness with the envelopes of permissions.py and prices of one hundred. *)
EXTENDS StaticExperiment

MC_Envelope == [max_order_notional |-> 5000, max_position_notional |-> 20000,
                max_gross_exposure |-> 20000, max_net_exposure |-> 20000,
                max_orders_per_interval |-> 2]
MC_InstEnvelope == [max_order_notional |-> 20000, max_position_notional |-> 100000,
                    max_gross_exposure |-> 120000, max_net_exposure |-> 100000,
                    max_orders_per_interval |-> 3]
MC_MakerEnvelope == [max_order_notional |-> 12000, max_position_notional |-> 30000,
                     max_gross_exposure |-> 40000, max_net_exposure |-> 25000,
                     max_orders_per_interval |-> 4]

MC_OtherSignals ==
    {[class |-> class, missing |-> class = "missing"] :
        class \in {"none", "soft", "missing", "severe", "override"}}

MC_OtherOrders ==
    {Static("BUY", 20, "LIMIT"), Static("SELL", 15, "LIMIT"), Static("SELL", 2, "MARKET")}
=============================================================================
