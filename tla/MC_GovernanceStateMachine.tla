---------------------- MODULE MC_GovernanceStateMachine ----------------------
(***************************************************************************)
(* Bounded observation streams for GovernanceStateMachine: every kind of   *)
(* signal at every index and outcome count, in any order, with repeats and *)
(* replays.  The machine itself rejects what is out of order.              *)
(***************************************************************************)
EXTENDS LadderRefinement

CONSTANTS Indices, LastCompleted

Clean == [index |-> 0, time |-> 0, cutoff |-> 0, result |-> 0, completed |-> 0,
          missing |-> FALSE, age |-> "ok", reliability |-> "ok", calibration |-> "ok",
          delayed |-> "ok", exposure |-> "ok", breach |-> FALSE, limit |-> FALSE,
          signals |-> "ok"]

Signals ==
    {Clean,
     [Clean EXCEPT !.calibration = "severe"],
     [Clean EXCEPT !.delayed = "soft"],
     [Clean EXCEPT !.missing = TRUE],
     [Clean EXCEPT !.exposure = "severe"],
     [Clean EXCEPT !.missing = TRUE, !.age = "severe"],
     [Clean EXCEPT !.breach = TRUE, !.calibration = "soft"]}

\* One observation validate() refuses for each of its clauses.
Refused ==
    {[Clean EXCEPT !.index = -1],
     [Clean EXCEPT !.completed = -1],
     [Clean EXCEPT !.reliability = "invalid"],
     [Clean EXCEPT !.cutoff = 1],
     [Clean EXCEPT !.result = 1]}

MC_Observations ==
    Refused \cup
    {[s EXCEPT !.index = i, !.time = i, !.cutoff = i, !.result = i, !.completed = c] :
        s \in Signals, i \in Indices, c \in 0..LastCompleted}
=============================================================================
