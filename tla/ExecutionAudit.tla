---------------------------- MODULE ExecutionAudit ----------------------------
(***************************************************************************)
(* The audit of one agent's executions: the recorder (runtime_binding.py)  *)
(* over the bridge (execution_audit.py), between a runtime and a venue.    *)
(* The gate decides on the books of one moment, the legs are submitted on  *)
(* those of a later one, and authorization and native ids are registered   *)
(* later still, while other orders fill.  Every fill reaches the recorder  *)
(* as a callback with the books before and after it; a callback may be     *)
(* delivered again, any write to the audit directory may fail, and cancels *)
(* come from the agent and from the guard.                                 *)
(*                                                                         *)
(* One event loop: a callback is one step.  Native ids are unique to an    *)
(* order, as the venue makes them.  Prices, exposure limits, the state at  *)
(* execution, the counters no property reads and the layout of records are *)
(* left out.                                                               *)
(***************************************************************************)
EXTENDS RiskChange, FiniteSets

CONSTANTS
    Orders,         \* logical order ids
    Setups,         \* the runs explored: see Setup
    None,           \* absent
    MaxRepeats      \* bound of the model: callbacks delivered again

\* What one run has: the quantity each order is allowed, whole (zero if it is never
\* proposed), the long position to start with, who cancels, strict_on_unattributed.
Setup == [quantity : [Orders -> Nat], long : Nat,
          origins : SUBSET {"agent_quote_management", "governance_guard"}, strict : BOOLEAN]

ASSUME ExecutionAuditAssumption ==
    /\ IsFiniteSet(Orders)
    /\ Setups \subseteq Setup
    /\ MaxRepeats \in Nat

VARIABLES
    setup,          \* fixed for the run
    book,           \* the agent's long and short positions
    decision,       \* per order: its side and the books the gate saw, or None
    resting,        \* per order: what is unfilled of its native legs, or None
    message,        \* the last callback, which may come again, or None
    repeats,        \* callbacks delivered again
    tracked,        \* per order: the bridge's _TrackedOrder, or None
    bound,          \* native orders bound to their logical order
    seen,           \* _seen_fill_keys
    origin,         \* _cancel_origin_by_native
    logical_origin, \* _cancel_origin_by_logical
    tally,          \* counters of the closing report
    audit_valid,
    report,         \* eligible_for_effect_analysis of the last close(), or None
    lost,           \* history: a record that should be on disk is not
    truth           \* history: what happened, whoever was listening

venue == <<book, resting, message, repeats>>
bridge == <<tracked, bound>>
recorder == <<seen, origin, logical_origin, tally, report>>
log == <<audit_valid, lost>>
vars == <<setup, venue, decision, bridge, recorder, log, truth>>

Leg == {"close", "open"}

\* Nothing the audit keeps about an order looks like its absence.
ASSUME NoneAssumption ==
    /\ None \notin [side : Side, pre : Book]
    /\ None \notin [Leg -> Nat]
    /\ None \notin [closed : Nat, opened : Nat, cancel_requested : BOOLEAN, exceeded : BOOLEAN]

Native == Orders \X Leg

\* The native orders of a submitted order: there is none for a leg of nothing, only for one
\* that still has something to fill or has filled to the last.
NativeOf(o) ==
    {o} \X {leg \in Leg : resting[o] # None
                           /\ (resting[o][leg] > 0 \/ <<o, leg, 0>> \in seen)}

Quantity == setup.quantity
Origins == setup.origins

\* What the gate authorized, on the books it saw.
AuthorizedOpening(o) == Opening(decision[o].side, Quantity[o], decision[o].pre)

\* Mutant: a failed write is printed and forgotten.
AppendQuietly(written) ==
    /\ UNCHANGED audit_valid
    /\ lost' = (lost \/ ~written)

\* _append(): a failed write invalidates the audit and lets the run go on.
Append(written) ==
    /\ audit_valid' = (audit_valid /\ written)
    /\ lost' = (lost \/ ~written)

-----------------------------------------------------------------------------
(* The runtime: decide, submit, register and bind, in the documented order.   *)
(* Native ids are bound at registration or later, together or one by one.  A  *)
(* native id that is the logical id as well is bound by its registration.     *)

Decide(o, side) ==
    /\ decision[o] = None
    /\ Quantity[o] > 0
    /\ decision' = [decision EXCEPT ![o] = [side |-> side, pre |-> book]]
    /\ UNCHANGED <<venue, bridge, recorder, log, truth>>

\* The native legs come from the live books, not from those of the decision.
SubmitLegs(o) ==
    /\ decision[o] # None
    /\ resting[o] = None
    /\ resting' = [resting EXCEPT ![o] =
           [close |-> Closing(decision[o].side, Quantity[o], book),
            open  |-> Opening(decision[o].side, Quantity[o], book)]]
    /\ UNCHANGED <<book, message, repeats, decision, bridge, recorder, log, truth>>

register_order(o, native, written) ==
    /\ resting[o] # None
    /\ tracked[o] = None
    /\ tracked' = [tracked EXCEPT ![o] =
           [closed |-> 0, opened |-> 0, cancel_requested |-> FALSE, exceeded |-> FALSE]]
    /\ bound' = bound \cup native
    /\ Append(written)
    /\ UNCHANGED <<venue, decision, recorder, truth>>

\* register_order() of a known order, bind_native_order_ids() of an unknown order or of
\* ids already bound: refused, and the audit is invalid.  The recorder binds none of the
\* ids it was called with; those the bridge bound before it met the bad one are left out,
\* since all they can do is refuse once more in an audit that is invalid already.
RegistrationFails(o) ==
    /\ tracked[o] # None \/ resting[o] # None
    /\ audit_valid' = FALSE
    /\ UNCHANGED <<venue, decision, bridge, recorder, lost, truth>>

bind_native_order_ids(o, native) ==
    /\ tracked[o] # None
    /\ bound \cap native = {}
    /\ bound' = bound \cup native
    /\ UNCHANGED <<venue, decision, tracked, recorder, log, truth>>

-----------------------------------------------------------------------------
(* Cancels.  A request for a native order that is not bound is not noted. *)

note_cancel_request(o, leg, by, written) ==
    /\ <<o, leg>> \in bound
    /\ tracked' = [tracked EXCEPT ![o].cancel_requested = TRUE]
    /\ origin' = [origin EXCEPT ![<<o, leg>>] = by]
    /\ logical_origin' = [logical_origin EXCEPT ![o] =
           IF by = "governance_guard" \/ @ = None THEN by ELSE @]
    /\ Append(written)
    /\ truth' = [truth EXCEPT
           !.cancelled = @ \cup {o},
           !.guarded = IF by = "governance_guard" THEN @ \cup {<<o, leg>>} ELSE @]
    /\ UNCHANGED <<venue, decision, bound, seen, tally, report>>

\* The venue's confirmation names no origin: it keeps the request's, or fills the gap.
\* A leg may still fill: what the venue executed before it cancelled arrives later.
note_cancel_confirmed(o, leg, written) ==
    /\ <<o, leg>> \in bound
    /\ tracked' = [tracked EXCEPT ![o].cancel_requested = TRUE]
    /\ origin' = [origin EXCEPT ![<<o, leg>>] = IF @ = None THEN "unknown" ELSE @]
    /\ Append(written)
    /\ truth' = [truth EXCEPT !.cancelled = @ \cup {o}]
    /\ UNCHANGED <<venue, decision, bound, seen, logical_origin, tally, report>>

cancel_origin(o, leg) ==
    IF origin[<<o, leg>>] # None THEN origin[<<o, leg>>] ELSE logical_origin[o]

-----------------------------------------------------------------------------
(* record_fill(): one callback, m, with the books around one fill of one leg. *)

\* Mutant: the fills of a native order share a key.
message_fill_key_native(m) == <<m.order, m.leg>>

message_fill_key(m) == <<m.order, m.leg, m.seq>>

SideOf(m) == decision[m.order].side
FillQuantity(m) == ObservedQuantity(m.before, m.after)
FillOpening(m) == ObservedOpening(SideOf(m), m.before, m.after)

\* The order's executions with this fill, and where they leave the books it was
\* registered with.
Opened(m) == tracked[m.order].opened + FillOpening(m)
Closed(m) == tracked[m.order].closed + FillQuantity(m) - FillOpening(m)
Attributable(m) ==
    /\ DeltaOfSide(SideOf(m), m.before, m.after)
    /\ Closed(m) <= Closing(SideOf(m), Closed(m), decision[m.order].pre)

\* Mutant: every event that exceeds counts as the order's first.
FirstExceedEach(m) == Opened(m) > AuthorizedOpening(m.order)

FirstExceed(m) == Opened(m) > AuthorizedOpening(m.order) /\ ~tracked[m.order].exceeded

\* Mutant: only a confirmed cancel makes a race.
RacesOrigin(m) == tracked[m.order].cancel_requested /\ origin[<<m.order, m.leg>>] # None

Races(m) == tracked[m.order].cancel_requested

Duplicate(m, written) ==
    /\ message_fill_key(m) \in seen
    /\ Append(written)
    /\ UNCHANGED <<tracked, seen, tally>>

Unattributed(m, written) ==
    /\ message_fill_key(m) \notin seen
    /\ <<m.order, m.leg>> \notin bound
    /\ seen' = seen \cup {message_fill_key(m)}
    /\ tally' = [tally EXCEPT !.unattributed = @ + 1]
    /\ audit_valid' = (audit_valid /\ written /\ ~setup.strict)
    /\ lost' = (lost \/ ~written)
    /\ UNCHANGED tracked

\* What the three branches of an attributed callback begin with.
Attributed(m) ==
    /\ message_fill_key(m) \notin seen
    /\ <<m.order, m.leg>> \in bound
    /\ seen' = seen \cup {message_fill_key(m)}

Unchanged(m, written) ==
    /\ Attributed(m)
    /\ FillQuantity(m) = 0
    /\ Append(written)
    /\ UNCHANGED <<tracked, tally>>

\* POSITION_DELTA_INCONSISTENT or POSITION_MISMATCH
Mismatch(m, written) ==
    /\ Attributed(m)
    /\ FillQuantity(m) > 0
    /\ ~Attributable(m)
    /\ audit_valid' = FALSE
    /\ lost' = (lost \/ ~written)
    /\ UNCHANGED <<tracked, tally>>

Audited(m, written) ==
    /\ Attributed(m)
    /\ FillQuantity(m) > 0
    /\ Attributable(m)
    /\ tracked' = [tracked EXCEPT ![m.order] =
           [tracked[m.order] EXCEPT !.opened = Opened(m), !.closed = Closed(m),
                                    !.exceeded = @ \/ Opened(m) > AuthorizedOpening(m.order)]]
    /\ tally' = [tally EXCEPT
           !.exceed_orders = @ + (IF FirstExceed(m) THEN 1 ELSE 0),
           !.race_fills = @ + (IF Races(m) THEN 1 ELSE 0),
           !.guard_races = @ + (IF Races(m) /\ cancel_origin(m.order, m.leg) = "governance_guard"
                                THEN 1 ELSE 0)]
    /\ Append(written)

\* The raw record is written before any of the branches decides.
record_fill(m, written) ==
    /\ \/ Duplicate(m, written)
       \/ Unattributed(m, written)
       \/ Unchanged(m, written)
       \/ Mismatch(m, written)
       \/ Audited(m, written)
    /\ UNCHANGED <<decision, bound, origin, logical_origin, report>>

-----------------------------------------------------------------------------
(* The venue fills part of a leg; its callback reaches the recorder, perhaps again. *)

LegFill(o, leg, n) ==
    [quantity       |-> n,
     is_short       |-> decision[o].side = "SELL" /\ leg = "open",
     is_short_cover |-> decision[o].side = "BUY" /\ leg = "close"]

\* What the venue leaves to fill stands for its sequence number: it never repeats.
FillMessage(o, leg, n) ==
    [order |-> o, leg |-> leg, seq |-> resting[o][leg] - n,
     before |-> book, after |-> AfterLeg(decision[o].side, LegFill(o, leg, n), book)]

Fill(o, leg, n, written) ==
    /\ resting[o] # None
    /\ n \in 1..resting[o][leg]
    /\ LET m     == FillMessage(o, leg, n)
           moved == FillQuantity(m)
           late  == moved > 0 /\ o \in truth.cancelled
       IN /\ book' = m.after
          /\ message' = m
          /\ truth' = [truth EXCEPT
                 !.executed[o] = [closed |-> @.closed + moved - FillOpening(m),
                                  opened |-> @.opened + FillOpening(m)],
                 !.late = @ + (IF late THEN 1 ELSE 0),
                 !.guard_late = @ + (IF late /\ <<o, leg>> \in truth.guarded THEN 1 ELSE 0)]
          /\ record_fill(m, written)
    /\ resting' = [resting EXCEPT ![o][leg] = @ - n]
    /\ UNCHANGED repeats

Redeliver(written) ==
    /\ message # None
    /\ repeats < MaxRepeats
    /\ repeats' = repeats + 1
    /\ record_fill(message, written)
    /\ UNCHANGED <<book, resting, message, truth>>

-----------------------------------------------------------------------------
(* close(): certify the audit, or refuse to. *)

Eligible == audit_valid /\ tally.unattributed = 0

\* The report a failed integrity write has spoilt is the caller's copy; a second call
\* builds a new one.  With strict, the first call raises AuditInvalidError in place of
\* returning an invalid report, after the same writes: refused either way.
Close(written) ==
    /\ report' = IF Eligible /\ (written \/ report # None) THEN "eligible" ELSE "refused"
    /\ UNCHANGED <<venue, decision, bridge, seen, origin, logical_origin, tally, log, truth>>

-----------------------------------------------------------------------------

Init ==
    /\ setup \in Setups
    /\ book = [long |-> setup.long, short |-> 0]
    /\ decision = [o \in Orders |-> None]
    /\ resting = [o \in Orders |-> None]
    /\ message = None
    /\ repeats = 0
    /\ tracked = [o \in Orders |-> None]
    /\ bound = {}
    /\ seen = {}
    /\ origin = [l \in Native |-> None]
    /\ logical_origin = [o \in Orders |-> None]
    /\ tally = [unattributed |-> 0, exceed_orders |-> 0, race_fills |-> 0, guard_races |-> 0]
    /\ audit_valid \in BOOLEAN       \* _prepare_dir() may fail
    /\ report = None
    /\ lost = ~audit_valid
    /\ truth = [cancelled |-> {}, guarded |-> {}, late |-> 0, guard_late |-> 0,
                executed |-> [o \in Orders |-> [closed |-> 0, opened |-> 0]]]

Order(o, written) ==
    \/ \E side \in Side : Decide(o, side)
    \/ SubmitLegs(o)
    \/ \E native \in SUBSET NativeOf(o) : register_order(o, native, written)
    \/ RegistrationFails(o)
    \/ \E native \in SUBSET NativeOf(o) : bind_native_order_ids(o, native)
    \/ \E leg \in Leg, by \in Origins : note_cancel_request(o, leg, by, written)
    \/ \E leg \in Leg : note_cancel_confirmed(o, leg, written)
    \/ \E leg \in Leg, n \in 1..Quantity[o] : Fill(o, leg, n, written)

Next ==
    \E written \in BOOLEAN :
        /\ lost => written              \* bound of the model: one write is lost
        /\ \/ \E o \in Orders : Order(o, written)
           \/ Redeliver(written)
           \/ Close(written)
        /\ UNCHANGED setup

Spec == Init /\ [][Next]_vars

-----------------------------------------------------------------------------
(* Properties *)

\* Type invariant: books stay natural numbers, whatever fills arrive in what order.
TypeOK ==
    /\ setup \in Setups
    /\ book \in Book
    /\ \A o \in Orders : decision[o] # None => decision[o] \in [side : Side, pre : Book]
    /\ \A o \in Orders : resting[o] # None => resting[o] \in [Leg -> 0..Quantity[o]]
    /\ repeats \in 0..MaxRepeats
    /\ \A o \in Orders : tracked[o] # None => tracked[o] \in
           [closed : 0..Quantity[o], opened : 0..Quantity[o], cancel_requested : BOOLEAN, exceeded : BOOLEAN]
    /\ bound \subseteq Native
    /\ origin \in [Native -> Origins \cup {None, "unknown"}]
    /\ logical_origin \in [Orders -> Origins \cup {None}]
    /\ tally \in [{"unattributed", "exceed_orders", "race_fills", "guard_races"} -> Nat]
    /\ audit_valid \in BOOLEAN
    /\ report \in {None, "eligible", "refused"}
    /\ lost \in BOOLEAN

\* An audit that may be certified has every execution of the venue on the order that
\* authorized it, once, and nothing missing on disk (record_fill() and _report()).
EligibleMeansComplete ==
    Eligible =>
        /\ ~lost
        /\ \A o \in Orders :
              truth.executed[o] =
                  IF tracked[o] = None THEN [closed |-> 0, opened |-> 0]
                  ELSE [closed |-> tracked[o].closed, opened |-> tracked[o].opened]

\* In such an audit every fill that came after a cancel was noted on its order, on
\* whichever of its legs, is counted as a race, once (record_execution()'s "remains
\* visible as a race rather than being silently discarded").
RaceFlagged == Eligible => tally.race_fills = truth.late

\* In such an audit the orders whose executions opened more than the gate had authorized
\* are each counted once, however many fills and duplicates it took.
ExceedCountedOnce ==
    Eligible => tally.exceed_orders =
        Cardinality({o \in Orders : decision[o] # None
                                    /\ truth.executed[o].opened > AuthorizedOpening(o)})

\* In such an audit every fill of a leg the guard had asked to cancel is counted as a race
\* the guard lost: note_cancel_request() says that a cancel issued by governance outranks
\* a routine one.  (Violated: see the findings.)
GuardRaceCounted == Eligible => tally.guard_races >= truth.guard_late

\* An audit that close() has refused to certify is never certified by closing it again.
\* (Violated: see the findings.)
RefusalIsFinal == [][report = "refused" => report' = "refused"]_vars
=============================================================================
