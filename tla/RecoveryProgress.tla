--------------------------- MODULE RecoveryProgress ---------------------------
(***************************************************************************)
(* The recovery ladder under a runtime that keeps evaluating: intervals    *)
(* keep coming, the governance index keeps advancing and outcomes keep     *)
(* completing.  That is assumed of the environment: nothing in the package *)
(* calls evaluate().  Which signals the intervals bring is up to the       *)
(* market and the agent.                                                   *)
(***************************************************************************)
EXTENDS RecoveryLadder

VARIABLE tick   \* parity of the intervals: an interval is never a stutter

progress == <<profile, state, wait, evidence, loss, signal, tick>>

ProgressInit == LadderInit /\ tick = FALSE

Evaluate(advances) ==
    \E class \in Class, missing \in BOOLEAN, completed \in 0..MinNewOutcomes,
       advance \in 0..CooldownIntervals :
        /\ advances => advance > 0 /\ completed > 0
        /\ Interval(class, missing, advance, completed)
        /\ tick' = ~tick

ProgressNext == Evaluate(FALSE)

ProgressSpec ==
    ProgressInit /\ [][ProgressNext]_progress /\ WF_progress(Evaluate(TRUE))

-----------------------------------------------------------------------------
\* Recovery never deadlocks: when the signals stay quiet, whatever happened before,
\* the agent is back in NORMAL to stay.
QuietReachesNormal == <>[](signal = "none") => <>[](state = "NORMAL")

\* Nobody stays isolated, or half-way through re-entry, for want of anything but hard
\* signals: soft and confidence warnings cannot lock an agent in.
IsolationEnds ==
    <>[](signal \notin Hard) =>
        <>[](state \notin {"ISOLATED", "STAGED_REENTRY_1", "STAGED_REENTRY_2"})
=============================================================================
