-------------------------- MODULE MC_ExecutionAudit --------------------------
(***************************************************************************)
(* Two kinds of run for ExecutionAudit: one order in three units, with     *)
(* every cancel, and two orders over one book, in strict mode.             *)
(***************************************************************************)
EXTENDS ExecutionAudit, TLC

CONSTANTS o1, o2

MC_Orders == {o1, o2}
MC_Symmetry == Permutations(MC_Orders)

OneOrder(longs) ==
    [quantity : {[o \in MC_Orders |-> IF o = only THEN 3 ELSE 0] : only \in MC_Orders},
     long : longs, origins : {{"agent_quote_management", "governance_guard"}}, strict : {FALSE}]

TwoOrders ==
    [quantity : {[o \in MC_Orders |-> 2]}, long : {2}, origins : {{}}, strict : {TRUE}]

MC_Setups == OneOrder({2, 4}) \cup TwoOrders
MC_OneOrder == OneOrder({0, 1})
=============================================================================
