------------------------- MODULE ExecutionAudit_proofs -------------------------
(***************************************************************************)
(* Proofs about ExecutionAudit, for every set of orders, quantity, opening *)
(* position, canceller, mode and number of repeated callbacks: what an     *)
(* audit that may be certified says is what happened at the venue.         *)
(***************************************************************************)
EXTENDS ExecutionAudit, RiskChange_proofs, FiniteSetTheorems

-----------------------------------------------------------------------------
(* The invariant. *)

Decision == [side : Side, pre : Book]
Tracked == [closed : Nat, opened : Nat, cancel_requested : BOOLEAN, exceeded : BOOLEAN]
Truth == [cancelled : SUBSET Orders, guarded : SUBSET Native, late : Nat, guard_late : Nat,
          executed : [Orders -> [closed : Nat, opened : Nat]]]
Counter == {"unattributed", "exceed_orders", "race_fills", "guard_races"}

\* The venue's side of the state, then the audit's.
VenueTypes ==
    /\ setup \in Setups
    /\ book \in Book
    /\ decision \in [Orders -> Decision \cup {None}]
    /\ resting \in [Orders -> [Leg -> Nat] \cup {None}]
    /\ repeats \in 0..MaxRepeats
    /\ truth \in Truth

AuditTypes ==
    /\ tracked \in [Orders -> Tracked \cup {None}]
    /\ bound \subseteq Native
    /\ seen \subseteq Orders \X Leg \X Nat
    /\ origin \in [Native -> Origins \cup {None, "unknown"}]
    /\ logical_origin \in [Orders -> Origins \cup {None}]
    /\ tally \in [Counter -> Nat]
    /\ audit_valid \in BOOLEAN
    /\ report \in {None, "eligible", "refused"}
    /\ lost \in BOOLEAN

\* Decided before it rests, resting before it is registered, registered before it is bound.
Registered ==
    /\ \A o \in Orders : resting[o] # None => decision[o] # None
    /\ \A o \in Orders : tracked[o] # None => resting[o] # None
    /\ \A l \in bound : tracked[l[1]] # None

\* What the bridge has for an order and what is still unfilled of it are within its quantity.
Budget ==
    \A o \in Orders : resting[o] # None =>
        /\ resting[o]["close"] + resting[o]["open"] <= Quantity[o]
        /\ tracked[o] # None =>
              resting[o]["close"] + resting[o]["open"] + tracked[o].closed + tracked[o].opened
                  <= Quantity[o]

\* A key the recorder has seen is of a fill made before: the next one has another.
Keyed ==
    /\ \A k \in seen : resting[k[1]] # None /\ k[3] >= resting[k[1]][k[2]]
    /\ message # None => message_fill_key(message) \in seen

NothingLost == audit_valid => ~lost

\* The bridge knows of a cancel just when there was one it could be told of.
CancelsNoted ==
    \A o \in Orders :
        /\ tracked[o] = None => o \notin truth.cancelled
        /\ tracked[o] # None => (tracked[o].cancel_requested <=> o \in truth.cancelled)

\* An order is marked as having exceeded just when it has.
ExceedsNoted ==
    \A o \in Orders : tracked[o] # None =>
        (tracked[o].exceeded <=> tracked[o].opened > AuthorizedOpening(o))

\* What the bridge says was executed of an order.
Booked(o) ==
    IF tracked[o] = None THEN [closed |-> 0, opened |-> 0]
    ELSE [closed |-> tracked[o].closed, opened |-> tracked[o].opened]

\* The orders that opened more than they were authorized to.
Exceeding ==
    {o \in Orders : decision[o] # None /\ truth.executed[o].opened > AuthorizedOpening(o)}

Certified ==
    Eligible =>
        /\ \A o \in Orders : truth.executed[o] = Booked(o)
        /\ tally.race_fills = truth.late
        /\ tally.exceed_orders = Cardinality(Exceeding)

IInv ==
    /\ VenueTypes
    /\ AuditTypes
    /\ Registered
    /\ Budget
    /\ Keyed
    /\ NothingLost
    /\ CancelsNoted
    /\ ExceedsNoted
    /\ Certified

-----------------------------------------------------------------------------
(* Facts about one state. *)

\* The setup of a run gives its orders quantities and names its cancellers.
LEMMA SetupType ==
    ASSUME setup \in Setups
    PROVE  /\ Quantity \in [Orders -> Nat]
           /\ setup.long \in Nat
           /\ Origins \subseteq {"agent_quote_management", "governance_guard"}
           /\ setup.strict \in BOOLEAN
  BY ExecutionAuditAssumption DEF Setup, Quantity, Origins

\* Present and absent are told apart.
LEMMA Present ==
    ASSUME VenueTypes, AuditTypes, NEW o \in Orders
    PROVE  /\ decision[o] # None <=> decision[o] \in Decision
           /\ resting[o] # None <=> resting[o] \in [Leg -> Nat]
           /\ tracked[o] # None <=> tracked[o] \in Tracked
  BY NoneAssumption DEF VenueTypes, AuditTypes, Decision, Tracked

\* The opening an order was authorized to make is a number.
LEMMA AuthorizedType ==
    ASSUME VenueTypes, AuditTypes, NEW o \in Orders, decision[o] # None
    PROVE  AuthorizedOpening(o) \in Nat
  <1>1. decision[o].side \in Side /\ decision[o].pre \in Book
    BY Present DEF Decision
  <1>2. Quantity[o] \in Nat
    BY SetupType DEF VenueTypes
  <1> QED  BY <1>1, <1>2, Split DEF AuthorizedOpening

\* The invariant is what the properties need.
LEMMA InvariantSuffices ==
    ASSUME IInv
    PROVE  TypeOK /\ EligibleMeansComplete /\ RaceFlagged /\ ExceedCountedOnce
  <1>1. TypeOK
    <2>1. \A o \in Orders : decision[o] # None => decision[o] \in [side : Side, pre : Book]
      BY Present DEF IInv, Decision
    <2>2. ASSUME NEW o \in Orders, resting[o] # None
          PROVE  resting[o] \in [Leg -> 0..Quantity[o]]
      <3>1. /\ resting[o] \in [Leg -> Nat] /\ Quantity[o] \in Nat
            /\ resting[o]["close"] + resting[o]["open"] <= Quantity[o]
        BY <2>2, Present, SetupType DEF IInv, VenueTypes, Budget
      <3>2. resting[o]["close"] \in 0..Quantity[o] /\ resting[o]["open"] \in 0..Quantity[o]
        BY <3>1 DEF Leg
      <3> QED  BY <3>1, <3>2 DEF Leg
    <2>3. ASSUME NEW o \in Orders, tracked[o] # None
          PROVE  tracked[o] \in [closed : 0..Quantity[o], opened : 0..Quantity[o],
                                 cancel_requested : BOOLEAN, exceeded : BOOLEAN]
      <3>1. resting[o] # None
        BY <2>3 DEF IInv, Registered
      <3>2. /\ resting[o]["close"] \in Nat /\ resting[o]["open"] \in Nat
            /\ Quantity[o] \in Nat /\ tracked[o] \in Tracked
        BY <2>3, <3>1, Present, SetupType DEF IInv, VenueTypes, Leg
      <3>3. resting[o]["close"] + resting[o]["open"] + tracked[o].closed + tracked[o].opened
                <= Quantity[o]
        BY <2>3, <3>1 DEF IInv, Budget
      <3>4. tracked[o].closed \in 0..Quantity[o] /\ tracked[o].opened \in 0..Quantity[o]
        BY <3>2, <3>3 DEF Tracked
      <3> QED  BY <3>2, <3>4 DEF Tracked
    <2> QED  BY <2>1, <2>2, <2>3 DEF IInv, VenueTypes, AuditTypes, TypeOK, Counter
  <1>2. EligibleMeansComplete
    BY DEF IInv, NothingLost, Certified, Eligible, EligibleMeansComplete, Booked
  <1>3. RaceFlagged /\ ExceedCountedOnce
    BY DEF IInv, Certified, RaceFlagged, ExceedCountedOnce, Exceeding
  <1> QED  BY <1>1, <1>2, <1>3

-----------------------------------------------------------------------------
(* Steps that execute nothing. *)

\* Where no fill is booked, certified stays certified.
LEMMA CertifiedStays ==
    ASSUME IInv, Eligible' => Eligible, UNCHANGED <<setup, decision>>,
           truth'.executed = truth.executed, truth'.late = truth.late,
           tally'.race_fills = tally.race_fills, tally'.exceed_orders = tally.exceed_orders,
           \A o \in Orders : Booked(o)' = Booked(o)
    PROVE  Certified'
  <1>1. Exceeding' = Exceeding
    BY DEF Exceeding, AuthorizedOpening, Quantity
  <1> QED  BY <1>1 DEF IInv, Certified

\* A step of the recorder that only writes: it may lose the record, and the audit with it.
LEMMA OnlyWritten ==
    ASSUME IInv,
           UNCHANGED <<setup, book, decision, resting, message, bridge, seen, origin,
                       logical_origin, tally, truth>>,
           repeats' \in 0..MaxRepeats, report' \in {None, "eligible", "refused"},
           audit_valid' \in BOOLEAN, lost' \in BOOLEAN, audit_valid' => audit_valid /\ ~lost'
    PROVE  IInv'
  <1>1. VenueTypes' /\ AuditTypes'
    BY DEF IInv, VenueTypes, AuditTypes, bridge, Origins
  <1>2. Registered' /\ Budget' /\ Keyed'
    BY DEF IInv, Registered, Budget, Keyed, Quantity, message_fill_key, bridge
  <1>3. NothingLost' /\ CancelsNoted' /\ ExceedsNoted'
    BY DEF IInv, NothingLost, CancelsNoted, ExceedsNoted, AuthorizedOpening, Quantity, bridge
  <1>4. Certified'
    <2>1. Eligible' => Eligible
      BY DEF Eligible
    <2>2. \A o \in Orders : Booked(o)' = Booked(o)
      BY DEF Booked, bridge
    <2> QED  BY <2>1, <2>2, CertifiedStays
  <1> QED  BY <1>1, <1>2, <1>3, <1>4 DEF IInv

\* A write that fails leaves no valid audit behind it.
LEMMA Appended ==
    ASSUME IInv, NEW written \in BOOLEAN, Append(written)
    PROVE  /\ audit_valid' \in BOOLEAN /\ lost' \in BOOLEAN
           /\ audit_valid' => audit_valid /\ ~lost'
  BY DEF IInv, AuditTypes, NothingLost, Append

\* The runs start with nothing decided, registered or executed.
LEMMA Initially == Init => IInv
  <1> SUFFICES ASSUME Init PROVE IInv
    OBVIOUS
  <1>1. VenueTypes
    <2>1. book \in Book
      BY SetupType DEF Init, Book
    <2>2. MaxRepeats \in Nat
      BY ExecutionAuditAssumption
    <2>3. [o \in Orders |-> [closed |-> 0, opened |-> 0]] \in [Orders -> [closed : Nat, opened : Nat]]
      OBVIOUS
    <2>4. truth \in Truth
      BY <2>3 DEF Init, Truth
    <2> QED  BY <2>1, <2>2, <2>4 DEF Init, VenueTypes
  <1>2. AuditTypes
    <2>1. tally = [c \in Counter |-> tally[c]]
      BY DEF Init, Counter
    <2>2. \A c \in Counter : tally[c] \in Nat
      BY DEF Init, Counter
    <2>3. tally \in [Counter -> Nat]
      BY <2>1, <2>2
    <2> QED  BY <2>3 DEF Init, AuditTypes
  <1>3. Registered /\ Budget /\ Keyed /\ NothingLost /\ CancelsNoted /\ ExceedsNoted
    BY DEF Init, Registered, Budget, Keyed, NothingLost, CancelsNoted, ExceedsNoted
  <1>4. Certified
    <2>1. \A o \in Orders : truth.executed[o] = Booked(o)
      BY DEF Init, Booked
    <2>2. Exceeding = {}
      BY DEF Init, Exceeding
    <2>3. tally.race_fills = truth.late /\ tally.exceed_orders = 0
      BY DEF Init
    <2> QED  BY <2>1, <2>2, <2>3, FS_EmptySet DEF Certified
  <1> QED  BY <1>1, <1>2, <1>3, <1>4 DEF IInv

-----------------------------------------------------------------------------
(* The runtime's steps. *)

\* A decision promises nothing that was executed before it.
LEMMA DecideKeeps ==
    ASSUME IInv, UNCHANGED setup, NEW o \in Orders, NEW side \in Side, Decide(o, side)
    PROVE  IInv'
  <1> USE DEF Decide, venue, bridge, recorder, log
  <1>1. /\ decision[o] = None /\ resting[o] = None /\ tracked[o] = None
        /\ \A p \in Orders : p # o => decision'[p] = decision[p]
    BY DEF IInv, VenueTypes, Registered
  <1>2. decision'[o] = [side |-> side, pre |-> book] /\ decision'[o] \in Decision
    BY DEF IInv, VenueTypes, Decision
  <1>3. VenueTypes'
    BY <1>2 DEF IInv, VenueTypes
  <1>4. AuditTypes'
    BY DEF IInv, AuditTypes, Origins
  <1>5. Registered' /\ Budget' /\ Keyed'
    BY <1>1 DEF IInv, Registered, Budget, Keyed, Quantity, message_fill_key
  <1>6. \A p \in Orders : p # o => AuthorizedOpening(p)' = AuthorizedOpening(p)
    BY <1>1 DEF AuthorizedOpening, Quantity
  <1>7. NothingLost' /\ CancelsNoted' /\ ExceedsNoted'
    BY <1>1, <1>6 DEF IInv, NothingLost, CancelsNoted, ExceedsNoted
  <1>8. Certified'
    <2> SUFFICES ASSUME Eligible
                 PROVE  /\ \A p \in Orders : truth'.executed[p] = Booked(p)'
                        /\ tally'.race_fills = truth'.late
                        /\ tally'.exceed_orders = Cardinality(Exceeding')
      BY DEF Certified, Eligible
    <2>1. \A p \in Orders : Booked(p)' = Booked(p)
      BY DEF Booked
    <2>2. truth.executed[o].opened = 0
      <3>1. truth.executed[o] = Booked(o)
        BY DEF IInv, Certified
      <3>2. Booked(o) = [closed |-> 0, opened |-> 0]
        BY <1>1 DEF Booked
      <3> QED  BY <3>1, <3>2
    <2>3. AuthorizedOpening(o)' \in Nat
      <3>1. decision'[o].side \in Side /\ decision'[o].pre \in Book
        BY <1>2 DEF Decision
      <3>2. Quantity[o] \in Nat /\ Quantity' = Quantity
        BY SetupType DEF IInv, VenueTypes, Quantity
      <3> QED  BY <3>1, <3>2, Split DEF AuthorizedOpening
    <2>4. Exceeding' = Exceeding
      BY <1>1, <1>6, <2>2, <2>3 DEF Exceeding
    <2> QED  BY <2>1, <2>4 DEF IInv, Certified
  <1> QED  BY <1>3, <1>4, <1>5, <1>7, <1>8 DEF IInv

\* The legs submitted make up the order's quantity, whatever happened to the books since.
LEMMA SubmitKeeps ==
    ASSUME IInv, UNCHANGED setup, NEW o \in Orders, SubmitLegs(o)
    PROVE  IInv'
  <1> DEFINE close == Closing(decision[o].side, Quantity[o], book)
             open == Opening(decision[o].side, Quantity[o], book)
             legs == [close |-> close, open |-> open]
  <1>1. /\ decision[o] \in Decision /\ resting[o] = None /\ tracked[o] = None
        /\ resting' = [resting EXCEPT ![o] = legs]
        /\ UNCHANGED <<book, message, repeats, decision, bridge, recorder, log, truth>>
    BY Present DEF SubmitLegs, IInv, Registered
  <1>2. close \in Nat /\ open \in Nat /\ close + open = Quantity[o] /\ Quantity[o] \in Nat
    <2>1. Quantity[o] \in Nat /\ decision[o].side \in Side /\ book \in Book
      BY <1>1, SetupType DEF IInv, VenueTypes, Decision
    <2>2. close \in Nat /\ open \in Nat
      BY <2>1, Split
    <2> QED  BY <2>1, <2>2 DEF Opening
  <1> HIDE DEF close, open
  <1>3. legs \in [Leg -> Nat] /\ legs["close"] = close /\ legs["open"] = open
    <2>1. legs = [l \in Leg |-> legs[l]]
      BY DEF Leg
    <2> QED  BY <1>2, <2>1 DEF Leg
  <1> HIDE DEF legs
  <1>4. /\ resting' \in [Orders -> [Leg -> Nat] \cup {None}]
        /\ resting'[o] = legs /\ \A p \in Orders : p # o => resting'[p] = resting[p]
    BY <1>1, <1>3 DEF IInv, VenueTypes
  <1>5. VenueTypes' /\ AuditTypes'
    BY <1>1, <1>4 DEF IInv, VenueTypes, AuditTypes, Origins, bridge, recorder, log
  <1>6. Registered'
    BY <1>1, <1>3, <1>4, NoneAssumption, Present DEF IInv, Registered, bridge
  <1>7. Budget'
    BY <1>1, <1>2, <1>3, <1>4 DEF IInv, Budget, Quantity, bridge
  <1>8. Keyed'
    <2>1. ASSUME NEW k \in seen PROVE resting'[k[1]] # None /\ k[3] >= resting'[k[1]][k[2]]
      <3>1. k[1] \in Orders /\ resting[k[1]] # None
        BY DEF IInv, AuditTypes, Keyed
      <3> QED  BY <1>1, <1>4, <3>1 DEF IInv, Keyed
    <2> QED  BY <1>1, <2>1 DEF IInv, Keyed, message_fill_key, recorder
  <1>9. NothingLost' /\ CancelsNoted' /\ ExceedsNoted'
    BY <1>1 DEF IInv, NothingLost, CancelsNoted, ExceedsNoted, AuthorizedOpening, Quantity, bridge, log
  <1>10. Certified'
    <2>1. Eligible' => Eligible
      BY <1>1 DEF Eligible, recorder, log
    <2>2. \A p \in Orders : Booked(p)' = Booked(p)
      BY <1>1 DEF Booked, bridge
    <2> QED  BY <1>1, <2>1, <2>2, CertifiedStays DEF recorder
  <1> QED  BY <1>5, <1>6, <1>7, <1>8, <1>9, <1>10 DEF IInv
\* A registration starts an empty account, of an order nobody could have cancelled yet.
LEMMA RegisterKeeps ==
    ASSUME IInv, UNCHANGED setup, NEW o \in Orders, NEW native \in SUBSET NativeOf(o),
           NEW written \in BOOLEAN, register_order(o, native, written)
    PROVE  IInv'
  <1> DEFINE account == [closed |-> 0, opened |-> 0, cancel_requested |-> FALSE, exceeded |-> FALSE]
  <1>1. /\ resting[o] # None /\ decision[o] # None /\ tracked[o] = None
        /\ tracked' = [tracked EXCEPT ![o] = account]
        /\ bound' = bound \cup native
        /\ UNCHANGED <<book, resting, message, repeats, decision, recorder, truth>>
    BY DEF register_order, IInv, Registered, venue
  <1>2. account \in Tracked /\ account # None
    <2>1. account \in Tracked
      BY DEF Tracked
    <2>2. \A a \in Tracked : a # None
      BY NoneAssumption DEF Tracked
    <2> QED  BY <2>1, <2>2
  <1>3. /\ tracked' \in [Orders -> Tracked \cup {None}]
        /\ tracked'[o] = account /\ \A p \in Orders : p # o => tracked'[p] = tracked[p]
    BY <1>1, <1>2 DEF IInv, AuditTypes
  <1>4. bound' \subseteq Native /\ \A l \in bound' : l \in bound \/ l[1] = o
    BY <1>1 DEF IInv, AuditTypes, Native, NativeOf
  <1>5. audit_valid' \in BOOLEAN /\ lost' \in BOOLEAN /\ (audit_valid' => audit_valid /\ ~lost')
    BY Appended DEF register_order
  <1>6. VenueTypes' /\ AuditTypes'
    BY <1>1, <1>3, <1>4, <1>5 DEF IInv, VenueTypes, AuditTypes, Origins, recorder
  <1>7. Registered'
    <2>1. ASSUME NEW l \in bound' PROVE tracked'[l[1]] # None
      <3>1. l[1] \in Orders
        BY <1>4 DEF Native
      <3> QED  BY <1>2, <1>3, <1>4, <3>1 DEF IInv, Registered
    <2> QED  BY <1>1, <1>3, <2>1 DEF IInv, Registered
  <1>8. Budget'
    <2>1. ASSUME NEW p \in Orders, resting[p] # None
          PROVE  /\ resting[p]["close"] + resting[p]["open"] <= Quantity[p]
                 /\ tracked'[p] # None =>
                       resting[p]["close"] + resting[p]["open"]
                           + tracked'[p].closed + tracked'[p].opened <= Quantity[p]
      <3>1. CASE p = o
        <4>1. tracked'[p].closed = 0 /\ tracked'[p].opened = 0
          BY <1>3, <3>1
        <4>2. /\ resting[p]["close"] \in Nat /\ resting[p]["open"] \in Nat
              /\ resting[p]["close"] + resting[p]["open"] <= Quantity[p]
          BY <2>1, Present DEF IInv, Budget, Leg
        <4> QED  BY <4>1, <4>2
      <3>2. CASE p # o
        BY <1>3, <2>1, <3>2 DEF IInv, Budget
      <3> QED  BY <3>1, <3>2
    <2> QED  BY <1>1, <2>1 DEF Budget, Quantity
  <1>9. Keyed'
    BY <1>1 DEF IInv, Keyed, message_fill_key, recorder
  <1>10. NothingLost' /\ CancelsNoted'
    BY <1>1, <1>2, <1>3, <1>5 DEF IInv, NothingLost, CancelsNoted
  <1>11. ExceedsNoted'
    <2>1. AuthorizedOpening(o) \in Nat
      BY <1>1, AuthorizedType DEF IInv
    <2>2. \A p \in Orders : AuthorizedOpening(p)' = AuthorizedOpening(p)
      BY <1>1 DEF AuthorizedOpening, Quantity
    <2>3. ~account.exceeded /\ account.opened = 0
      OBVIOUS
    <2> HIDE DEF account
    <2> QED  BY <1>3, <2>1, <2>2, <2>3 DEF IInv, ExceedsNoted
  <1>12. Certified'
    <2>1. Eligible' => Eligible
      BY <1>1, <1>5 DEF Eligible, recorder
    <2>2. \A p \in Orders : Booked(p)' = Booked(p)
      BY <1>1, <1>2, <1>3 DEF Booked
    <2> QED  BY <1>1, <2>1, <2>2, CertifiedStays DEF recorder
  <1> QED  BY <1>6, <1>7, <1>8, <1>9, <1>10, <1>11, <1>12 DEF IInv

\* Native ids are bound to orders the bridge knows.
LEMMA BindKeeps ==
    ASSUME IInv, UNCHANGED setup, NEW o \in Orders, NEW native \in SUBSET NativeOf(o),
           bind_native_order_ids(o, native)
    PROVE  IInv'
  <1>1. /\ tracked[o] # None
        /\ bound' = bound \cup native
        /\ UNCHANGED <<book, resting, message, repeats, decision, tracked, recorder, log, truth>>
    BY DEF bind_native_order_ids, venue
  <1>2. bound' \subseteq Native /\ \A l \in bound' : l \in bound \/ l[1] = o
    BY <1>1 DEF IInv, AuditTypes, Native, NativeOf
  <1>3. VenueTypes' /\ AuditTypes'
    BY <1>1, <1>2 DEF IInv, VenueTypes, AuditTypes, Origins, recorder, log
  <1>4. Registered'
    BY <1>1, <1>2 DEF IInv, Registered
  <1>5. Budget' /\ Keyed' /\ NothingLost' /\ CancelsNoted' /\ ExceedsNoted'
    BY <1>1 DEF IInv, Budget, Keyed, NothingLost, CancelsNoted, ExceedsNoted, AuthorizedOpening,
                Quantity, message_fill_key, recorder, log
  <1>6. Certified'
    <2>1. Eligible' => Eligible
      BY <1>1 DEF Eligible, recorder, log
    <2>2. \A p \in Orders : Booked(p)' = Booked(p)
      BY <1>1 DEF Booked
    <2> QED  BY <1>1, <2>1, <2>2, CertifiedStays DEF recorder
  <1> QED  BY <1>3, <1>4, <1>5, <1>6 DEF IInv

-----------------------------------------------------------------------------
(* Cancels. *)

\* A cancel of a bound leg is noted on its order, and on nothing else.
LEMMA CancelNoted ==
    ASSUME IInv, UNCHANGED setup, NEW o \in Orders, NEW leg \in Leg, <<o, leg>> \in bound,
           NEW written \in BOOLEAN, Append(written),
           tracked' = [tracked EXCEPT ![o].cancel_requested = TRUE],
           truth' \in Truth, truth'.cancelled = truth.cancelled \cup {o},
           truth'.executed = truth.executed, truth'.late = truth.late,
           origin' \in [Native -> Origins \cup {None, "unknown"}],
           logical_origin' \in [Orders -> Origins \cup {None}],
           UNCHANGED <<venue, decision, bound, seen, tally, report>>
    PROVE  IInv'
  <1>1. tracked[o] # None /\ tracked[o] \in Tracked
    <2>1. <<o, leg>>[1] = o
      OBVIOUS
    <2> QED  BY <2>1, Present DEF IInv, Registered
  <1>2. /\ tracked' \in [Orders -> Tracked \cup {None}]
        /\ tracked'[o] = [tracked[o] EXCEPT !.cancel_requested = TRUE]
        /\ \A p \in Orders : p # o => tracked'[p] = tracked[p]
    BY <1>1 DEF IInv, AuditTypes, Tracked
  <1>3. /\ tracked'[o] # None /\ tracked'[o].cancel_requested
        /\ tracked'[o].closed = tracked[o].closed /\ tracked'[o].opened = tracked[o].opened
        /\ tracked'[o].exceeded = tracked[o].exceeded
    <2>1. tracked'[o] \in Tracked
      BY <1>1, <1>2 DEF Tracked
    <2> QED  BY <1>1, <1>2, <2>1, NoneAssumption DEF Tracked
  <1>4. \A p \in Orders : /\ tracked'[p] = None <=> tracked[p] = None
                          /\ tracked'[p].closed = tracked[p].closed
                          /\ tracked'[p].opened = tracked[p].opened
                          /\ tracked'[p].exceeded = tracked[p].exceeded
    BY <1>1, <1>2, <1>3
  <1>5. audit_valid' \in BOOLEAN /\ lost' \in BOOLEAN /\ (audit_valid' => audit_valid /\ ~lost')
    BY Appended
  <1>6. VenueTypes' /\ AuditTypes'
    BY <1>2, <1>5 DEF IInv, VenueTypes, AuditTypes, Origins, venue
  <1>7. Registered'
    <2>1. \A l \in bound : l[1] \in Orders
      BY DEF IInv, AuditTypes, Native
    <2> QED  BY <1>4, <2>1 DEF IInv, Registered, venue
  <1>8. Budget'
    BY <1>4 DEF IInv, Budget, Quantity, venue
  <1>9. Keyed' /\ NothingLost'
    BY <1>5 DEF IInv, Keyed, NothingLost, message_fill_key, venue
  <1>10. CancelsNoted'
    BY <1>1, <1>2, <1>3 DEF IInv, CancelsNoted
  <1>11. ExceedsNoted'
    BY <1>4 DEF IInv, ExceedsNoted, AuthorizedOpening, Quantity
  <1>12. Certified'
    <2>1. Eligible' => Eligible
      BY <1>5 DEF Eligible
    <2>2. \A p \in Orders : Booked(p)' = Booked(p)
      BY <1>4 DEF Booked
    <2> QED  BY <2>1, <2>2, CertifiedStays
  <1> QED  BY <1>6, <1>7, <1>8, <1>9, <1>10, <1>11, <1>12 DEF IInv

LEMMA RequestKeeps ==
    ASSUME IInv, UNCHANGED setup, NEW o \in Orders, NEW leg \in Leg, NEW by \in Origins,
           NEW written \in BOOLEAN, note_cancel_request(o, leg, by, written)
    PROVE  IInv'
  <1> USE DEF note_cancel_request
  <1>1. /\ truth' \in Truth /\ truth'.cancelled = truth.cancelled \cup {o}
        /\ truth'.executed = truth.executed /\ truth'.late = truth.late
    <2>1. truth \in Truth
      BY DEF IInv, VenueTypes
    <2>2. <<o, leg>> \in Native
      BY DEF Native
    <2> QED  BY <2>1, <2>2 DEF Truth
  <1>2. /\ origin' \in [Native -> Origins \cup {None, "unknown"}]
        /\ logical_origin' \in [Orders -> Origins \cup {None}]
    BY DEF IInv, AuditTypes, Native
  <1> QED  BY <1>1, <1>2, CancelNoted

LEMMA ConfirmKeeps ==
    ASSUME IInv, UNCHANGED setup, NEW o \in Orders, NEW leg \in Leg,
           NEW written \in BOOLEAN, note_cancel_confirmed(o, leg, written)
    PROVE  IInv'
  <1> USE DEF note_cancel_confirmed
  <1>1. /\ truth' \in Truth /\ truth'.cancelled = truth.cancelled \cup {o}
        /\ truth'.executed = truth.executed /\ truth'.late = truth.late
    <2>1. truth \in Truth
      BY DEF IInv, VenueTypes
    <2> QED  BY <2>1 DEF Truth
  <1>2. /\ origin' \in [Native -> Origins \cup {None, "unknown"}]
        /\ logical_origin' \in [Orders -> Origins \cup {None}]
    BY DEF IInv, AuditTypes, Native, Origins
  <1> QED  BY <1>1, <1>2, CancelNoted

-----------------------------------------------------------------------------
(* Fills. *)

\* What the recorder reads off the callback of a fill: no more than the leg filled, under a
\* key it has not seen.
LEMMA FillObserved ==
    ASSUME IInv, NEW o \in Orders, NEW leg \in Leg, resting[o] # None,
           NEW n \in 1..resting[o][leg]
    PROVE  LET m == FillMessage(o, leg, n)
           IN  /\ m.order = o /\ m.leg = leg /\ m.after \in Book
               /\ FillQuantity(m) \in Nat /\ FillQuantity(m) <= n
               /\ FillOpening(m) \in Nat /\ FillOpening(m) <= FillQuantity(m)
               /\ message_fill_key(m) = <<o, leg, resting[o][leg] - n>>
               /\ message_fill_key(m) \notin seen
  <1> DEFINE m == FillMessage(o, leg, n)
             side == decision[o].side
             opens == leg = "open"
             after == AfterLeg(side, LegOf(side, opens, n), book)
  <1>1. resting[o][leg] \in Nat /\ n \in Nat /\ n > 0 /\ n <= resting[o][leg]
    BY Present DEF IInv
  <1>2. side \in Side /\ book \in Book
    BY Present DEF IInv, VenueTypes, Registered, Decision
  <1>3. after = m.after
    <2>1. (leg = "close") = (~opens)
      BY DEF Leg
    <2>2. LegFill(o, leg, n) = LegOf(side, opens, n)
      BY <2>1, Zenon DEF LegFill, LegOf
    <2> QED  BY <2>2 DEF FillMessage
  <1>4. /\ m.order = o /\ m.leg = leg /\ m.seq = resting[o][leg] - n /\ m.before = book
        /\ message_fill_key(m) = <<o, leg, resting[o][leg] - n>>
    BY DEF FillMessage, message_fill_key
  <1>5. FillQuantity(m) = ObservedQuantity(book, after) /\ FillOpening(m) = ObservedOpening(side, book, after)
    BY <1>3, <1>4 DEF FillQuantity, FillOpening, SideOf
  <1>6. opens \in BOOLEAN
    OBVIOUS
  <1>7. /\ opens => ObservedQuantity(book, after) = n /\ ObservedOpening(side, book, after) = n
        /\ ~opens => ObservedQuantity(book, after) \in 0..n /\ ObservedOpening(side, book, after) = 0
    BY <1>1, <1>2, <1>6, LegObserved
  <1>8. after \in Book
    BY <1>1, <1>2, <1>6, LegMoves
  <1> HIDE DEF m, side, opens, after
  <1>9. message_fill_key(m) \notin seen
    <2> SUFFICES ASSUME message_fill_key(m) \in seen PROVE FALSE
      OBVIOUS
    <2>1. resting[o][leg] - n >= resting[o][leg]
      BY <1>4 DEF IInv, Keyed
    <2> QED  BY <1>1, <2>1
  <1>10. /\ FillQuantity(m) \in Nat /\ FillQuantity(m) <= n
         /\ FillOpening(m) \in Nat /\ FillOpening(m) <= FillQuantity(m)
    BY <1>1, <1>5, <1>7
  <1> QED  BY <1>3, <1>4, <1>8, <1>9, <1>10 DEF m

\* What a fill does at the venue, whatever the recorder makes of it.
LEMMA FillAtVenue ==
    ASSUME IInv, UNCHANGED setup, NEW o \in Orders, NEW leg \in Leg,
           NEW n \in Nat, NEW written \in BOOLEAN, Fill(o, leg, n, written)
    PROVE  LET m == FillMessage(o, leg, n)
           IN  /\ VenueTypes' /\ Keyed'
               /\ decision' = decision /\ bound' = bound
               /\ resting'[o] # None
               /\ resting'[o]["close"] + resting'[o]["open"] =
                      resting[o]["close"] + resting[o]["open"] - n
               /\ \A p \in Orders : p # o => resting'[p] = resting[p]
               /\ truth'.cancelled = truth.cancelled
               /\ truth'.late = truth.late +
                      (IF FillQuantity(m) > 0 /\ o \in truth.cancelled THEN 1 ELSE 0)
               /\ truth'.executed[o] =
                      [closed |-> truth.executed[o].closed + FillQuantity(m) - FillOpening(m),
                       opened |-> truth.executed[o].opened + FillOpening(m)]
               /\ \A p \in Orders : p # o => truth'.executed[p] = truth.executed[p]
  <1> DEFINE m == FillMessage(o, leg, n)
             late == FillQuantity(m) > 0 /\ o \in truth.cancelled
             done == [closed |-> truth.executed[o].closed + FillQuantity(m) - FillOpening(m),
                      opened |-> truth.executed[o].opened + FillOpening(m)]
  <1>1. /\ resting[o] # None
        /\ n \in 1..resting[o][leg]
        /\ book' = m.after
        /\ message' = m
        /\ truth' = [truth EXCEPT
               !.executed[o] = done,
               !.late = @ + (IF late THEN 1 ELSE 0),
               !.guard_late = @ + (IF late /\ <<o, leg>> \in truth.guarded THEN 1 ELSE 0)]
        /\ record_fill(m, written)
        /\ resting' = [resting EXCEPT ![o][leg] = @ - n]
        /\ UNCHANGED <<repeats, decision, bound>>
    BY DEF Fill, record_fill
  <1>2. /\ m.order = o /\ m.leg = leg /\ m.after \in Book
        /\ FillQuantity(m) \in Nat /\ FillQuantity(m) <= n
        /\ FillOpening(m) \in Nat /\ FillOpening(m) <= FillQuantity(m)
        /\ message_fill_key(m) = <<o, leg, resting[o][leg] - n>>
        /\ message_fill_key(m) \notin seen
    BY <1>1, FillObserved
  <1>3. seen' = seen \cup {message_fill_key(m)}
    BY <1>1, <1>2 DEF record_fill, Duplicate, Unattributed, Attributed, Unchanged, Mismatch, Audited
  <1> HIDE DEF m
  <1>4. /\ resting[o] \in [Leg -> Nat] /\ n <= resting[o][leg] /\ n > 0
        /\ truth.executed[o].closed \in Nat /\ truth.executed[o].opened \in Nat
    <2>1. truth.executed[o] \in [closed : Nat, opened : Nat]
      BY DEF IInv, VenueTypes, Truth
    <2> QED  BY <1>1, <2>1, Present DEF IInv
  <1>5. done \in [closed : Nat, opened : Nat]
    BY <1>2, <1>4
  <1>6. /\ truth' \in Truth
        /\ truth'.cancelled = truth.cancelled
        /\ truth'.late = truth.late + (IF late THEN 1 ELSE 0)
        /\ truth'.executed = [truth.executed EXCEPT ![o] = done]
    <2> DEFINE one == IF late THEN 1 ELSE 0
               other == IF late /\ <<o, leg>> \in truth.guarded THEN 1 ELSE 0
               executed == [truth.executed EXCEPT ![o] = done]
    <2>1. truth \in Truth /\ truth.executed \in [Orders -> [closed : Nat, opened : Nat]]
      BY DEF IInv, VenueTypes, Truth
    <2>2. one \in Nat /\ other \in Nat
      OBVIOUS
    <2> HIDE DEF done, late
    <2>3. truth' = [truth EXCEPT !.executed = executed, !.late = @ + one, !.guard_late = @ + other]
      BY <1>1
    <2>4. executed \in [Orders -> [closed : Nat, opened : Nat]]
      BY <1>5, <2>1
    <2> HIDE DEF one, other, executed
    <2>5. /\ truth' \in Truth
          /\ truth'.cancelled = truth.cancelled
          /\ truth'.late = truth.late + one
          /\ truth'.executed = executed
      <3>1. truth' = [cancelled |-> truth.cancelled, guarded |-> truth.guarded,
                      late |-> truth.late + one, guard_late |-> truth.guard_late + other,
                      executed |-> executed]
        BY <2>1, <2>3 DEF Truth
      <3>2. /\ truth.cancelled \in SUBSET Orders /\ truth.guarded \in SUBSET Native
            /\ truth.late + one \in Nat /\ truth.guard_late + other \in Nat
        BY <2>1, <2>2 DEF Truth
      <3> QED  BY <2>4, <3>1, <3>2 DEF Truth
    <2> QED  BY <2>5 DEF one, executed
  <1>7. /\ truth'.executed[o] = done
        /\ \A p \in Orders : p # o => truth'.executed[p] = truth.executed[p]
    <2>1. truth.executed \in [Orders -> [closed : Nat, opened : Nat]]
      BY DEF IInv, VenueTypes, Truth
    <2> HIDE DEF done
    <2> QED  BY <1>6, <2>1
  <1> HIDE DEF done, late
  <1>8. /\ resting'[o] \in [Leg -> Nat] /\ resting'[o] # None
        /\ resting'[o] = [resting[o] EXCEPT ![leg] = @ - n]
        /\ \A p \in Orders : p # o => resting'[p] = resting[p]
        /\ resting' \in [Orders -> [Leg -> Nat] \cup {None}]
    <2>1. resting'[o] = [resting[o] EXCEPT ![leg] = @ - n]
      BY <1>1 DEF IInv, VenueTypes
    <2>2. resting'[o] \in [Leg -> Nat]
      BY <1>4, <2>1
    <2> QED  BY <1>1, <2>1, <2>2, NoneAssumption DEF IInv, VenueTypes
  <1>9. VenueTypes'
    BY <1>1, <1>2, <1>6, <1>8 DEF IInv, VenueTypes
  <1>10. resting'[o]["close"] + resting'[o]["open"] = resting[o]["close"] + resting[o]["open"] - n
    BY <1>4, <1>8 DEF Leg
  <1>11. Keyed'
    <2>1. ASSUME NEW k \in seen' PROVE resting'[k[1]] # None /\ k[3] >= resting'[k[1]][k[2]]
      <3>1. CASE k = message_fill_key(m)
        BY <1>2, <1>4, <1>8, <3>1
      <3>2. CASE k \in seen
        <4>1. /\ k[1] \in Orders /\ k[2] \in Leg /\ k[3] \in Nat
              /\ resting[k[1]] # None /\ k[3] >= resting[k[1]][k[2]]
          BY <3>2 DEF IInv, AuditTypes, Keyed
        <4>2. resting[k[1]][k[2]] \in Nat
          BY <4>1, Present DEF IInv
        <4> QED  BY <1>4, <1>8, <4>1, <4>2
      <3> QED  BY <1>3, <2>1, <3>1, <3>2
    <2>2. message' = m => message_fill_key(m) = message_fill_key(message)'
      BY DEF message_fill_key
    <2> QED  BY <1>1, <1>3, <2>1, <2>2 DEF Keyed
  <1> QED  BY <1>1, <1>6, <1>7, <1>8, <1>9, <1>10, <1>11 DEF m, late, done
\* A callback that is not attributed moves nothing or spoils the audit: either way what is
\* certified stays true.
LEMMA UnbookedFillKeeps ==
    ASSUME IInv, UNCHANGED setup, NEW o \in Orders, NEW leg \in Leg,
           NEW n \in Nat, NEW written \in BOOLEAN, Fill(o, leg, n, written),
           LET m == FillMessage(o, leg, n)
           IN  Unattributed(m, written) \/ Unchanged(m, written) \/ Mismatch(m, written)
    PROVE  IInv'
  <1> DEFINE m == FillMessage(o, leg, n)
  <1>1. /\ resting[o] # None /\ n \in 1..resting[o][leg]
        /\ UNCHANGED <<decision, bound, origin, logical_origin, report>>
    BY DEF Fill, record_fill
  <1>2. /\ m.order = o /\ m.leg = leg
        /\ FillQuantity(m) \in Nat /\ FillQuantity(m) <= n
        /\ FillOpening(m) \in Nat /\ FillOpening(m) <= FillQuantity(m)
        /\ message_fill_key(m) = <<o, leg, resting[o][leg] - n>>
    BY <1>1, FillObserved
  <1>3. /\ VenueTypes' /\ Keyed'
        /\ resting'[o] # None
        /\ resting'[o]["close"] + resting'[o]["open"] =
               resting[o]["close"] + resting[o]["open"] - n
        /\ \A p \in Orders : p # o => resting'[p] = resting[p]
        /\ truth'.cancelled = truth.cancelled
        /\ truth'.late = truth.late +
               (IF FillQuantity(m) > 0 /\ o \in truth.cancelled THEN 1 ELSE 0)
        /\ truth'.executed[o] =
               [closed |-> truth.executed[o].closed + FillQuantity(m) - FillOpening(m),
                opened |-> truth.executed[o].opened + FillOpening(m)]
        /\ \A p \in Orders : p # o => truth'.executed[p] = truth.executed[p]
    BY FillAtVenue
  <1>4. Unattributed(m, written) \/ Unchanged(m, written) \/ Mismatch(m, written)
    OBVIOUS
  <1> HIDE DEF m
  <1>5. tracked' = tracked /\ seen' = seen \cup {message_fill_key(m)}
    BY <1>4 DEF Unattributed, Unchanged, Mismatch, Attributed
  <1>6. /\ tally' \in [Counter -> Nat]
        /\ audit_valid' \in BOOLEAN /\ lost' \in BOOLEAN
        /\ audit_valid' => audit_valid /\ ~lost'
        /\ Eligible' => Eligible /\ FillQuantity(m) = 0 /\ tally' = tally
    <2>1. tally \in [Counter -> Nat] /\ audit_valid \in BOOLEAN /\ lost \in BOOLEAN
          /\ (audit_valid => ~lost)
      BY DEF IInv, AuditTypes, NothingLost
    <2>2. CASE Unattributed(m, written)
      <3>1. /\ tally' \in [Counter -> Nat]
            /\ tally'.unattributed = tally.unattributed + 1 /\ tally.unattributed \in Nat
        BY <2>1, <2>2 DEF Unattributed, Counter
      <3>2. ~Eligible'
        BY <3>1 DEF Eligible
      <3> QED  BY <2>1, <2>2, <3>1, <3>2, SetupType DEF Unattributed, IInv, VenueTypes
    <2>3. CASE Unchanged(m, written)
      BY <2>1, <2>3 DEF Unchanged, Append, Eligible
    <2>4. CASE Mismatch(m, written)
      BY <2>1, <2>4 DEF Mismatch, Eligible
    <2> QED  BY <1>4, <2>2, <2>3, <2>4
  <1>7. AuditTypes'
    <2>1. message_fill_key(m) \in Orders \X Leg \X Nat
      <3>1. resting[o][leg] - n \in Nat
        BY <1>1, Present DEF IInv
      <3> QED  BY <1>2, <3>1
    <2> QED  BY <1>1, <1>5, <1>6, <2>1 DEF IInv, AuditTypes, Origins
  <1>8. Registered' /\ Budget'
    <2>1. Registered'
      BY <1>1, <1>3, <1>5 DEF IInv, Registered
    <2>2. ASSUME NEW p \in Orders, resting'[p] # None
          PROVE  /\ resting'[p]["close"] + resting'[p]["open"] <= Quantity[p]
                 /\ tracked[p] # None =>
                       resting'[p]["close"] + resting'[p]["open"] + tracked[p].closed + tracked[p].opened
                           <= Quantity[p]
      <3>1. CASE p # o
        BY <1>3, <2>2, <3>1 DEF IInv, Budget
      <3>2. CASE p = o
        <4>1. /\ resting[o]["close"] \in Nat /\ resting[o]["open"] \in Nat /\ Quantity[o] \in Nat
              /\ (tracked[o] # None => tracked[o].closed \in Nat /\ tracked[o].opened \in Nat)
          BY <1>1, Present, SetupType DEF IInv, VenueTypes, Leg, Tracked
        <4> QED  BY <1>1, <1>3, <3>2, <4>1 DEF IInv, Budget
      <3> QED  BY <3>1, <3>2
    <2> QED  BY <1>5, <2>1, <2>2 DEF Budget, Quantity
  <1>9. NothingLost' /\ CancelsNoted' /\ ExceedsNoted'
    BY <1>1, <1>3, <1>5, <1>6 DEF IInv, NothingLost, CancelsNoted, ExceedsNoted, AuthorizedOpening,
                                 Quantity
  <1>10. Certified'
    <2> SUFFICES ASSUME Eligible' PROVE Certified'
      BY DEF Certified
    <2>1. FillQuantity(m) = 0 /\ FillOpening(m) = 0 /\ Eligible /\ tally' = tally
      BY <1>2, <1>6
    <2>2. truth'.late = truth.late
      BY <1>3, <2>1 DEF IInv, VenueTypes, Truth
    <2>3. \A p \in Orders : truth'.executed[p] = truth.executed[p]
      <3>1. truth.executed[o] \in [closed : Nat, opened : Nat]
        BY DEF IInv, VenueTypes, Truth
      <3>2. truth'.executed[o] = truth.executed[o]
        BY <1>3, <2>1, <3>1
      <3> QED  BY <1>3, <3>2
    <2>4. \A p \in Orders : Booked(p)' = Booked(p)
      BY <1>5 DEF Booked
    <2>5. Exceeding' = Exceeding
      BY <1>1, <2>3 DEF Exceeding, AuthorizedOpening, Quantity
    <2> QED  BY <2>1, <2>2, <2>3, <2>4, <2>5 DEF IInv, Certified
  <1> QED  BY <1>3, <1>7, <1>8, <1>9, <1>10 DEF IInv

\* An attributed fill is booked on its order as the venue executed it, counted as a race
\* when a cancel was noted, and the order as exceeding when it first exceeds.
LEMMA BookedFillKeeps ==
    ASSUME IInv, UNCHANGED setup, NEW o \in Orders, NEW leg \in Leg,
           NEW n \in Nat, NEW written \in BOOLEAN, Fill(o, leg, n, written),
           Audited(FillMessage(o, leg, n), written)
    PROVE  IInv'
  <1> DEFINE m == FillMessage(o, leg, n)
             a == FillQuantity(m)
             p == FillOpening(m)
             account == [tracked[o] EXCEPT !.opened = @ + p, !.closed = @ + a - p,
                                           !.exceeded = @ \/ tracked[o].opened + p > AuthorizedOpening(o)]
             first == IF FirstExceed(m) THEN 1 ELSE 0
             race == IF Races(m) THEN 1 ELSE 0
             guard == IF Races(m) /\ cancel_origin(m.order, m.leg) = "governance_guard" THEN 1 ELSE 0
  <1>1. /\ resting[o] # None /\ n \in 1..resting[o][leg]
        /\ UNCHANGED <<decision, bound, origin, logical_origin, report>>
    BY DEF Fill, record_fill
  <1>2. /\ m.order = o /\ m.leg = leg
        /\ a \in Nat /\ a <= n /\ p \in Nat /\ p <= a
        /\ message_fill_key(m) = <<o, leg, resting[o][leg] - n>>
    BY <1>1, FillObserved
  <1>3. /\ VenueTypes' /\ Keyed'
        /\ resting'[o] # None
        /\ resting'[o]["close"] + resting'[o]["open"] =
               resting[o]["close"] + resting[o]["open"] - n
        /\ \A q \in Orders : q # o => resting'[q] = resting[q]
        /\ truth'.cancelled = truth.cancelled
        /\ truth'.late = truth.late + (IF a > 0 /\ o \in truth.cancelled THEN 1 ELSE 0)
        /\ truth'.executed[o] = [closed |-> truth.executed[o].closed + a - p,
                                 opened |-> truth.executed[o].opened + p]
        /\ \A q \in Orders : q # o => truth'.executed[q] = truth.executed[q]
    BY FillAtVenue
  <1>4. Audited(m, written)
    OBVIOUS
  <1> HIDE DEF m
  <1>5. /\ seen' = seen \cup {message_fill_key(m)} /\ <<o, leg>> \in bound /\ a > 0
        /\ Append(written)
    BY <1>2, <1>4 DEF Audited, Attributed
  <1>6. tracked' = [tracked EXCEPT ![o] = account]
    <2>1. tracked' = [tracked EXCEPT ![o] =
              [tracked[o] EXCEPT !.opened = Opened(m), !.closed = Closed(m),
                                 !.exceeded = tracked[o].exceeded \/ Opened(m) > AuthorizedOpening(o)]]
      <3> DEFINE exceeds(q) == tracked[q].exceeded \/ Opened(m) > AuthorizedOpening(q)
      <3>1. tracked' = [tracked EXCEPT ![m.order] =
                [tracked[m.order] EXCEPT !.opened = Opened(m), !.closed = Closed(m),
                                         !.exceeded = exceeds(m.order)]]
        BY <1>4 DEF Audited
      <3> HIDE DEF exceeds
      <3>2. tracked' = [tracked EXCEPT ![o] =
                [tracked[o] EXCEPT !.opened = Opened(m), !.closed = Closed(m), !.exceeded = exceeds(o)]]
        BY <1>2, <3>1
      <3> QED  BY <3>2 DEF exceeds
    <2>2. Opened(m) = tracked[o].opened + p /\ Closed(m) = tracked[o].closed + a - p
      BY <1>2 DEF Opened, Closed
    <2> QED  BY <2>1, <2>2
  <1>7. tally' = [tally EXCEPT !.exceed_orders = @ + first, !.race_fills = @ + race,
                               !.guard_races = @ + guard]
    BY <1>4 DEF Audited
  <1>8. first \in Nat /\ race \in Nat /\ guard \in Nat
    OBVIOUS
  <1> HIDE DEF a, p, first, race, guard
  <1>9. tracked[o] # None /\ tracked[o] \in Tracked /\ decision[o] # None
    <2>1. <<o, leg>>[1] = o
      OBVIOUS
    <2> QED  BY <1>1, <1>5, <2>1, Present DEF IInv, Registered
  <1>10. /\ tracked[o].closed \in Nat /\ tracked[o].opened \in Nat
         /\ tracked[o].cancel_requested \in BOOLEAN /\ tracked[o].exceeded \in BOOLEAN
         /\ AuthorizedOpening(o) \in Nat
    BY <1>9, AuthorizedType DEF Tracked, IInv
  <1>11. /\ account \in Tracked
         /\ account.closed = tracked[o].closed + a - p
         /\ account.opened = tracked[o].opened + p
         /\ account.cancel_requested = tracked[o].cancel_requested
         /\ account.exceeded <=> tracked[o].exceeded \/ tracked[o].opened + p > AuthorizedOpening(o)
    <2> DEFINE exceeds == tracked[o].exceeded \/ tracked[o].opened + p > AuthorizedOpening(o)
    <2>1. exceeds \in BOOLEAN /\ tracked[o].opened + p \in Nat /\ tracked[o].closed + a - p \in Nat
      BY <1>2, <1>10
    <2>2. account = [tracked[o] EXCEPT !.opened = tracked[o].opened + p,
                                       !.closed = tracked[o].closed + a - p,
                                       !.exceeded = exceeds]
      OBVIOUS
    <2> HIDE DEF exceeds, account
    <2>3. /\ account \in Tracked
          /\ account.closed = tracked[o].closed + a - p
          /\ account.opened = tracked[o].opened + p
          /\ account.cancel_requested = tracked[o].cancel_requested
          /\ account.exceeded = exceeds
      BY <1>9, <2>1, <2>2 DEF Tracked
    <2> QED  BY <2>3 DEF exceeds
  <1> HIDE DEF account
  <1>12. /\ tracked' \in [Orders -> Tracked \cup {None}]
         /\ tracked'[o] = account /\ account # None
         /\ \A q \in Orders : q # o => tracked'[q] = tracked[q]
    <2>1. \A x \in Tracked : x # None
      BY NoneAssumption DEF Tracked
    <2> QED  BY <1>6, <1>11, <2>1 DEF IInv, AuditTypes
  <1>13. /\ tally' \in [Counter -> Nat]
         /\ tally'.exceed_orders = tally.exceed_orders + first
         /\ tally'.race_fills = tally.race_fills + race
         /\ tally'.unattributed = tally.unattributed
    <2>1. /\ tally \in [Counter -> Nat]
          /\ tally.exceed_orders + first \in Nat /\ tally.race_fills + race \in Nat
          /\ tally.guard_races + guard \in Nat
      BY <1>8 DEF IInv, AuditTypes, Counter
    <2>2. tally' = [tally EXCEPT !.exceed_orders = tally.exceed_orders + first,
                                 !.race_fills = tally.race_fills + race,
                                 !.guard_races = tally.guard_races + guard]
      BY <1>7
    <2> QED  BY <2>1, <2>2 DEF Counter
  <1>14. audit_valid' \in BOOLEAN /\ lost' \in BOOLEAN /\ (audit_valid' => audit_valid /\ ~lost')
    BY <1>5, Appended
  <1>15. AuditTypes'
    <2>1. message_fill_key(m) \in Orders \X Leg \X Nat
      <3>1. resting[o][leg] - n \in Nat
        BY <1>1, Present DEF IInv
      <3> QED  BY <1>2, <3>1
    <2> QED  BY <1>1, <1>5, <1>12, <1>13, <1>14, <2>1 DEF IInv, AuditTypes, Origins
  <1>16. Registered'
    <2>1. \A l \in bound : l[1] \in Orders
      BY DEF IInv, AuditTypes, Native
    <2> QED  BY <1>1, <1>3, <1>9, <1>12, <2>1 DEF IInv, Registered
  <1>17. Budget'
    <2>1. ASSUME NEW q \in Orders, resting'[q] # None
          PROVE  /\ resting'[q]["close"] + resting'[q]["open"] <= Quantity[q]
                 /\ tracked'[q] # None =>
                       resting'[q]["close"] + resting'[q]["open"] + tracked'[q].closed + tracked'[q].opened
                           <= Quantity[q]
      <3>1. CASE q # o
        BY <1>3, <1>12, <2>1, <3>1 DEF IInv, Budget
      <3>2. CASE q = o
        <4>1. /\ resting[o]["close"] \in Nat /\ resting[o]["open"] \in Nat /\ Quantity[o] \in Nat
          BY <1>1, Present, SetupType DEF IInv, VenueTypes, Leg
        <4>2. resting[o]["close"] + resting[o]["open"] + tracked[o].closed + tracked[o].opened
                  <= Quantity[o]
          BY <1>1, <1>9 DEF IInv, Budget
        <4> QED  BY <1>2, <1>3, <1>10, <1>11, <1>12, <3>2, <4>1, <4>2
      <3> QED  BY <3>1, <3>2
    <2> QED  BY <2>1 DEF Budget, Quantity
  <1>18. NothingLost' /\ CancelsNoted'
    BY <1>3, <1>9, <1>11, <1>12, <1>14 DEF IInv, NothingLost, CancelsNoted
  <1>19. \A q \in Orders : AuthorizedOpening(q)' = AuthorizedOpening(q)
    BY <1>1 DEF AuthorizedOpening, Quantity
  <1>20. ExceedsNoted'
    <2>1. account.exceeded <=> account.opened > AuthorizedOpening(o)
      BY <1>2, <1>9, <1>10, <1>11 DEF IInv, ExceedsNoted
    <2> QED  BY <1>12, <1>19, <2>1 DEF IInv, ExceedsNoted
  <1>21. Certified'
    <2> SUFFICES ASSUME Eligible'
                 PROVE  /\ \A q \in Orders : truth'.executed[q] = Booked(q)'
                        /\ tally'.race_fills = truth'.late
                        /\ tally'.exceed_orders = Cardinality(Exceeding')
      BY DEF Certified
    <2>1. Eligible
      BY <1>13, <1>14 DEF Eligible
    <2>2. /\ \A q \in Orders : truth.executed[q] = Booked(q)
          /\ tally.race_fills = truth.late
          /\ tally.exceed_orders = Cardinality(Exceeding)
      BY <2>1 DEF IInv, Certified
    <2>3. truth.executed[o].closed = tracked[o].closed /\ truth.executed[o].opened = tracked[o].opened
      <3>1. Booked(o) = [closed |-> tracked[o].closed, opened |-> tracked[o].opened]
        BY <1>9 DEF Booked
      <3> QED  BY <2>2, <3>1
    <2>4. \A q \in Orders : truth'.executed[q] = Booked(q)'
      <3>1. \A q \in Orders : q # o => Booked(q)' = Booked(q)
        BY <1>12 DEF Booked
      <3>2. Booked(o)' = [closed |-> account.closed, opened |-> account.opened]
        BY <1>12 DEF Booked
      <3>3. truth'.executed[o] = [closed |-> account.closed, opened |-> account.opened]
        BY <1>3, <1>11, <2>3
      <3> QED  BY <1>3, <2>2, <3>1, <3>2, <3>3
    <2>5. tally'.race_fills = truth'.late
      <3>1. race = IF o \in truth.cancelled THEN 1 ELSE 0
        BY <1>2, <1>9 DEF race, Races, IInv, CancelsNoted
      <3> QED  BY <1>3, <1>5, <1>13, <2>2, <3>1
    <2>6. first = IF tracked[o].opened + p > AuthorizedOpening(o) /\ ~tracked[o].exceeded THEN 1 ELSE 0
      BY <1>2 DEF first, FirstExceed, Opened, p
    <2>7. truth'.executed[o].opened = tracked[o].opened + p
      BY <1>3, <2>3
    <2>8. /\ o \in Exceeding <=> tracked[o].opened > AuthorizedOpening(o)
          /\ o \in Exceeding' <=> tracked[o].opened + p > AuthorizedOpening(o)
          /\ \A q \in Orders : q # o => (q \in Exceeding' <=> q \in Exceeding)
          /\ Exceeding \subseteq Orders /\ Exceeding' \subseteq Orders
      BY <1>1, <1>3, <1>9, <1>19, <2>3, <2>7 DEF Exceeding
    <2>9. tracked[o].exceeded <=> tracked[o].opened > AuthorizedOpening(o)
      BY <1>9 DEF IInv, ExceedsNoted
    <2>10. tally'.exceed_orders = Cardinality(Exceeding')
      <3>1. IsFiniteSet(Exceeding) /\ Cardinality(Exceeding) \in Nat
        BY <2>8, ExecutionAuditAssumption, FS_Subset, FS_CardinalityType
      <3>2. CASE first = 1
        <4>1. o \notin Exceeding /\ Exceeding' = Exceeding \cup {o}
          BY <2>6, <2>8, <2>9, <3>2
        <4>2. Cardinality(Exceeding \cup {o}) = Cardinality(Exceeding) + 1
          BY <3>1, <4>1, FS_AddElement
        <4> QED  BY <1>13, <2>2, <3>2, <4>1, <4>2
      <3>3. CASE first = 0
        <4>1. o \in Exceeding' <=> o \in Exceeding
          BY <1>2, <1>10, <2>6, <2>8, <2>9, <3>3
        <4>2. Exceeding' = Exceeding
          BY <2>8, <4>1
        <4> QED  BY <1>13, <2>2, <3>1, <3>3, <4>2
      <3> QED  BY <2>6, <3>2, <3>3
    <2> QED  BY <2>4, <2>5, <2>10
  <1> QED  BY <1>3, <1>15, <1>16, <1>17, <1>18, <1>20, <1>21 DEF IInv
\* Whatever the recorder makes of it, a fill keeps the invariant: its key is new.
LEMMA FillKeeps ==
    ASSUME IInv, UNCHANGED setup, NEW o \in Orders, NEW leg \in Leg,
           NEW n \in Nat, NEW written \in BOOLEAN, Fill(o, leg, n, written)
    PROVE  IInv'
  <1> DEFINE m == FillMessage(o, leg, n)
  <1>1. resting[o] # None /\ n \in 1..resting[o][leg] /\ record_fill(m, written)
    BY DEF Fill
  <1>2. message_fill_key(m) \notin seen
    BY <1>1, FillObserved
  <1> HIDE DEF m
  <1>3. \/ Unattributed(m, written) \/ Unchanged(m, written) \/ Mismatch(m, written)
        \/ Audited(m, written)
    BY <1>1, <1>2 DEF record_fill, Duplicate
  <1> QED  BY <1>3, UnbookedFillKeeps, BookedFillKeeps DEF m

\* A callback that comes again is a duplicate, and only written down.
LEMMA RedeliverKeeps ==
    ASSUME IInv, UNCHANGED setup, NEW written \in BOOLEAN, Redeliver(written)
    PROVE  IInv'
  <1>1. message_fill_key(message) \in seen
    BY DEF Redeliver, IInv, Keyed
  <1>2. Duplicate(message, written)
    BY <1>1 DEF Redeliver, record_fill, Unattributed, Attributed, Unchanged, Mismatch, Audited
  <1>3. repeats' \in 0..MaxRepeats
    BY ExecutionAuditAssumption DEF Redeliver, IInv, VenueTypes
  <1>4. audit_valid' \in BOOLEAN /\ lost' \in BOOLEAN /\ (audit_valid' => audit_valid /\ ~lost')
    BY <1>2, Appended DEF Duplicate
  <1>5. UNCHANGED <<book, decision, resting, message, bridge, seen, origin, logical_origin, tally, truth>>
    BY <1>2 DEF Redeliver, record_fill, Duplicate, bridge
  <1>6. report' \in {None, "eligible", "refused"}
    BY DEF Redeliver, record_fill, IInv, AuditTypes
  <1> QED  BY <1>3, <1>4, <1>5, <1>6, OnlyWritten

LEMMA Inductive == IInv /\ [Next]_vars => IInv'
  <1> SUFFICES ASSUME IInv, [Next]_vars PROVE IInv'
    OBVIOUS
  <1>1. audit_valid \in BOOLEAN /\ lost \in BOOLEAN /\ (audit_valid => ~lost)
    BY DEF IInv, AuditTypes, NothingLost
  <1>2. repeats \in 0..MaxRepeats /\ report \in {None, "eligible", "refused"}
    BY DEF IInv, VenueTypes, AuditTypes
  <1>3. ASSUME UNCHANGED setup, NEW written \in BOOLEAN, NEW o \in Orders, Order(o, written)
        PROVE  IInv'
    <2>1. CASE \E side \in Side : Decide(o, side)
      BY <1>3, <2>1, DecideKeeps
    <2>2. CASE SubmitLegs(o)
      BY <1>3, <2>2, SubmitKeeps
    <2>3. CASE \E native \in SUBSET NativeOf(o) : register_order(o, native, written)
      BY <1>3, <2>3, RegisterKeeps
    <2>4. CASE RegistrationFails(o)
      BY <1>1, <1>2, <1>3, <2>4, OnlyWritten DEF RegistrationFails, venue, recorder
    <2>5. CASE \E native \in SUBSET NativeOf(o) : bind_native_order_ids(o, native)
      BY <1>3, <2>5, BindKeeps
    <2>6. CASE \E leg \in Leg, by \in Origins : note_cancel_request(o, leg, by, written)
      BY <1>3, <2>6, RequestKeeps
    <2>7. CASE \E leg \in Leg : note_cancel_confirmed(o, leg, written)
      BY <1>3, <2>7, ConfirmKeeps
    <2>8. CASE \E leg \in Leg, n \in 1..Quantity[o] : Fill(o, leg, n, written)
      <3>1. Quantity[o] \in Nat
        BY SetupType DEF IInv, VenueTypes
      <3>2. PICK leg \in Leg, n \in 1..Quantity[o] : Fill(o, leg, n, written)
        BY <2>8
      <3>3. n \in Nat
        BY <3>1, <3>2
      <3> QED  BY <1>3, <3>2, <3>3, FillKeeps
    <2> QED  BY <1>3, <2>1, <2>2, <2>3, <2>4, <2>5, <2>6, <2>7, <2>8 DEF Order
  <1>4. ASSUME UNCHANGED setup, NEW written \in BOOLEAN, Close(written) PROVE IInv'
    BY <1>1, <1>2, <1>4, OnlyWritten DEF Close, venue, log
  <1>5. CASE UNCHANGED vars
    BY <1>1, <1>2, <1>5, OnlyWritten DEF vars, venue, recorder, log
  <1> QED  BY <1>3, <1>4, <1>5, RedeliverKeeps DEF Next

LEMMA Invariant == Spec => []IInv
  <1> QED  BY Initially, Inductive, PTL DEF Spec

-----------------------------------------------------------------------------
(* Theorems. *)

\* Type correctness.
THEOREM AuditTypeCorrect == Spec => []TypeOK
  <1> QED  BY InvariantSuffices, Invariant, PTL

\* Whatever the order of decisions, registrations, cancels, fills and repeated callbacks,
\* and whichever writes fail: an audit that may be certified has every execution of every
\* order, once, and lost nothing.
THEOREM EligibleIsComplete == Spec => []EligibleMeansComplete
  <1> QED  BY InvariantSuffices, Invariant, PTL

\* In such an audit the fills counted as races are those that came after a cancel.
THEOREM RacesAreCounted == Spec => []RaceFlagged
  <1> QED  BY InvariantSuffices, Invariant, PTL

\* In such an audit, for any number of orders, those that opened more than they were
\* authorized to are each counted once.
THEOREM ExceedsAreCountedOnce == Spec => []ExceedCountedOnce
  <1> QED  BY InvariantSuffices, Invariant, PTL
=============================================================================
