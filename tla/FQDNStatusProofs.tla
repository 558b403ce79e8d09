-------------------------- MODULE FQDNStatusProofs --------------------------
(***************************************************************************)
(* Lemmas about the operators of FQDNStatus: what one round stores, and    *)
(* what storing does to a timestamp.                                       *)
(***************************************************************************)
EXTENDS FQDNStatus, TLAPS

\* Rounding down to whole seconds stays a natural number, and loses less
\* than a second.
LEMMA TruncateBounds ==
  ASSUME NEW t \in Nat
  PROVE  Truncate(t) \in Nat /\ Truncate(t) <= t /\ t - Second < Truncate(t)
<1>1. t % Second \in 0..(Second - 1)
  BY SecondAssumption
<1>2. t % Second <= t
  BY SecondAssumption
<1> QED
  BY <1>1, <1>2, SecondAssumption DEF Truncate

\* A stored timestamp is stored again unchanged.
LEMMA TruncateIdempotent ==
  ASSUME NEW t \in Nat
  PROVE  Truncate(Truncate(t)) = Truncate(t)
<1>1. t = Second * (t \div Second) + (t % Second)
  BY SecondAssumption
<1>2. t \div Second \in Nat
  BY SecondAssumption
<1>3. t % Second \in Nat
  BY SecondAssumption
<1>4. Truncate(t) = Second * (t \div Second)
  BY <1>1, <1>2, <1>3, SecondAssumption DEF Truncate
<1>5. (Second * (t \div Second)) % Second = 0
  BY <1>2, SecondAssumption
<1> QED
  BY <1>4, <1>5, TruncateBounds DEF Truncate

\* Rounding keeps an entry an entry of the same kind.
LEMMA TruncateEntryType ==
  ASSUME NEW e \in Entry
  PROVE  /\ TruncateEntry(e) \in Entry
         /\ TruncateEntry(e) = Absent <=> e = Absent
         /\ TruncateEntry(e) = NoTime <=> e = NoTime
         /\ e # Absent /\ e # NoTime <=> e \in Nat
  BY TruncateBounds, SentinelAssumption DEF TruncateEntry, Entry, HasTime

\* The status a reconciliation stores: its reason and its FailingSince.
LEMMA StoredFields ==
  ASSUME NEW s \in Status, NEW res \in DNSResolverResult,
         NEW rt \in Int, NEW r \in Int, NEW now \in Nat
  PROVE  LET new == Persisted(Reconciled(s, res, rt, r, now)) IN
         /\ new.reason = res.reason
         /\ new.failingSince = TruncateEntry(UpdatedFailingSince(s, res, now))
  BY DEF Persisted, Reconciled, Update

\* A failure carries no address.
LEMMA ResultShape ==
  ASSUME NEW res \in DNSResolverResult
  PROVE  /\ res.reason \in Reasons
         /\ res.cidrs \in SUBSET Address
         /\ res.reason # "Success" => res.cidrs = {}
         /\ FreshlyResolved(res) = res.cidrs
  BY DEF DNSResolverResult, Reasons, FreshlyResolved

\* With retention on, what is stored for an address depends only on whether
\* DNS returned it and on how long it has been missing: the reason of a
\* failure and the retry timeout play no part.
LEMMA RetainedAddress ==
  ASSUME NEW s \in Status, NEW res \in DNSResolverResult,
         NEW rt \in Int, NEW r \in Int, NEW now \in Nat, r > 0,
         NEW a \in Address
  PROVE  Persisted(Reconciled(s, res, rt, r, now)).addresses[a] =
           IF a \in res.cidrs THEN NoTime
           ELSE IF /\ s.addresses[a] # Absent
                   /\ now - MissingTime(s.addresses[a], now) <= r
                THEN Truncate(MissingTime(s.addresses[a], now))
                ELSE Absent
<1> DEFINE old == s.addresses[a]
           missing == MissingTime(old, now)
           upd == UpdatedAddresses(s, res, rt, now)
           kept == Retain(s.addresses, upd, FreshlyResolved(res), r, now)[a]
<1>1. old \in Entry
  BY DEF Status
<1>2. missing \in Nat
  BY <1>1, TruncateEntryType DEF MissingTime, HasTime
<1>3. upd[a] # Absent => a \in res.cidrs \/ old # Absent
  BY ResultShape, SentinelAssumption DEF UpdatedAddresses, NoAddresses
<1>4. ASSUME a \in res.cidrs PROVE upd[a] # Absent
  <2>1. res.reason = "Success"
    BY <1>4, ResultShape
  <2>2. upd = [b \in Address |-> IF b \in res.cidrs THEN NoTime ELSE Absent]
    BY <2>1 DEF UpdatedAddresses, Transient, TransientReasons
  <2> QED
    BY <1>4, <2>2, SentinelAssumption
<1>5. kept = IF a \in res.cidrs THEN NoTime
             ELSE IF old # Absent /\ now - missing <= r THEN missing ELSE Absent
  BY <1>3, <1>4, ResultShape DEF Retain
<1>6. Persisted(Reconciled(s, res, rt, r, now)).addresses[a] = TruncateEntry(kept)
  BY DEF Persisted, Reconciled, Update
<1> QED
  BY <1>2, <1>5, <1>6, SentinelAssumption DEF TruncateEntry, HasTime

\* With retention off, an address is stored if DNS returned it or a tolerated
\* transient failure kept it, and it carries no MissingSince.
LEMMA UnretainedAddress ==
  ASSUME NEW s \in Status, NEW res \in DNSResolverResult,
         NEW rt \in Int, NEW r \in Int, NEW now \in Nat, r <= 0,
         NEW a \in Address
  PROVE  Persisted(Reconciled(s, res, rt, r, now)).addresses[a] =
           IF \/ a \in res.cidrs
              \/ /\ Transient(res.reason)
                 /\ ~RetryExpired(s.failingSince, rt, now)
                 /\ s.addresses[a] # Absent
           THEN NoTime ELSE Absent
<1> DEFINE upd == UpdatedAddresses(s, res, rt, now)
           keeps == Transient(res.reason) /\ ~RetryExpired(s.failingSince, rt, now)
<1>1. upd[a] # Absent <=> a \in res.cidrs \/ (keeps /\ s.addresses[a] # Absent)
  <2>1. CASE res.reason = "Success"
    BY <2>1, SentinelAssumption
    DEF UpdatedAddresses, Transient, TransientReasons
  <2>2. CASE res.reason # "Success" /\ keeps
    BY <2>2, ResultShape DEF UpdatedAddresses
  <2>3. CASE res.reason # "Success" /\ ~keeps
    BY <2>3, ResultShape DEF UpdatedAddresses, NoAddresses
  <2> QED
    BY <2>1, <2>2, <2>3
<1>2. Persisted(Reconciled(s, res, rt, r, now)).addresses[a]
        = TruncateEntry(WipeMissingSince(upd)[a])
  BY DEF Persisted, Reconciled, Update
<1>3. WipeMissingSince(upd)[a] = IF upd[a] = Absent THEN Absent ELSE NoTime
  BY DEF WipeMissingSince
<1> QED
  BY <1>1, <1>2, <1>3, SentinelAssumption DEF TruncateEntry, HasTime

\* What a round can do to the set of recorded addresses: the fresh ones are
\* in, and any other was recorded before.  Module Reconciler, which has no
\* clock, lets a round do just that.
LEMMA RoundKeepsOrDrops ==
  ASSUME NEW s \in Status, NEW res \in DNSResolverResult,
         NEW rt \in Int, NEW r \in Int, NEW now \in Nat
  PROVE  LET new == Persisted(Reconciled(s, res, rt, r, now)) IN
         /\ FreshlyResolved(res) \subseteq Recorded(new)
         /\ Recorded(new) \subseteq FreshlyResolved(res) \cup Recorded(s)
<1> DEFINE new == Persisted(Reconciled(s, res, rt, r, now))
<1>0. FreshlyResolved(res) = res.cidrs /\ res.cidrs \subseteq Address
  BY ResultShape
<1>1. ASSUME NEW a \in Address
      PROVE  /\ a \in res.cidrs => new.addresses[a] # Absent
             /\ new.addresses[a] # Absent => a \in res.cidrs \/ s.addresses[a] # Absent
  <2>1. CASE r > 0
    BY <2>1, RetainedAddress, SentinelAssumption
  <2>2. CASE r <= 0
    BY <2>2, UnretainedAddress, SentinelAssumption
  <2> QED
    BY <2>1, <2>2
<1> HIDE DEF new
<1>2. /\ res.cidrs \subseteq Recorded(new)
      /\ Recorded(new) \subseteq res.cidrs \cup Recorded(s)
  BY <1>0, <1>1 DEF Recorded
<1> QED
  BY <1>0, <1>2 DEF new

\* What is stored is again a status.
LEMMA StoredType ==
  ASSUME NEW s \in Status, NEW res \in DNSResolverResult,
         NEW rt \in Int, NEW r \in Int, NEW now \in Nat
  PROVE  Persisted(Reconciled(s, res, rt, r, now)) \in Status
<1> DEFINE new == Persisted(Reconciled(s, res, rt, r, now))
<1>1. new = [addresses |-> new.addresses, failingSince |-> new.failingSince,
             reason |-> new.reason]
  BY DEF Persisted
<1>2. \A a \in Address : new.addresses[a] \in Entry
  <2> SUFFICES ASSUME NEW a \in Address PROVE new.addresses[a] \in Entry
    OBVIOUS
  <2>1. s.addresses[a] \in Entry
    BY DEF Status
  <2>2. MissingTime(s.addresses[a], now) \in Nat
    BY <2>1, TruncateEntryType DEF MissingTime, HasTime
  <2>3. CASE r > 0
    BY <2>2, <2>3, RetainedAddress, TruncateBounds DEF Entry
  <2>4. CASE r <= 0
    BY <2>4, UnretainedAddress DEF Entry
  <2> QED
    BY <2>3, <2>4
<1>3. new.addresses = [a \in Address |-> new.addresses[a]]
  BY DEF Persisted
<1>4. new.failingSince \in {NoTime} \cup Nat
  <2>1. UpdatedFailingSince(s, res, now) \in {NoTime} \cup Nat
    BY DEF UpdatedFailingSince, Status
  <2> QED
    BY <2>1, StoredFields, TruncateEntryType, SentinelAssumption DEF Entry
<1>5. new.reason \in Reasons
  BY StoredFields, ResultShape
<1> HIDE DEF new
<1>6. new.addresses \in [Address -> Entry]
  BY <1>2, <1>3
<1> QED
  BY <1>1, <1>4, <1>5, <1>6 DEF Status, new

\* The status of a name that is new to the list is a status without addresses.
LEMMA BlankIsStatus == BlankStatus \in Status /\ Recorded(BlankStatus) = {}
  BY DEF BlankStatus, Status, NoAddresses, Entry, Recorded

=============================================================================
