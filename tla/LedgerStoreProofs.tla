-------------------------- MODULE LedgerStoreProofs --------------------------
(***************************************************************************)
(* Proofs about LedgerStore, for any number of processes, addresses,       *)
(* results and retention periods and for any bounds.                       *)
(*                                                                         *)
(* The argument is that of optimistic locking: a copy that counts as       *)
(* current is np itself (CopiesCurrent), so that a status that is stored   *)
(* was computed from the one it replaces, by a round that began after the  *)
(* one before had been stored (InOrder).                                   *)
(***************************************************************************)
EXTENDS LedgerStore, FQDNStatusProofs

\* A copy that has not been outdated by a write is the current version.
CopiesCurrent ==
  /\ \A w \in synced : cache[w] = np
  /\ \A w \in valid : round[w] # Nil => round[w].np = np

\* Names that are in the spec of a round's copy are resolved.
RoundsResolve ==
  \A w \in Worker :
    round[w] # Nil =>
      /\ round[w].at <= clock
      /\ round[w].np.listed => round[w].result \in Results

\* The current version comes from a round before every round that read it.
InOrder ==
  /\ storedAt <= clock
  /\ \A w \in valid : round[w] # Nil => storedAt <= round[w].at

StoreInv ==
  /\ TypeOK
  /\ CopiesCurrent
  /\ RoundsResolve
  /\ InOrder

-----------------------------------------------------------------------------
(***************************************************************************)
(* The invariant.                                                          *)
(***************************************************************************)

\* What a round has computed is a status, once it is stored.
LEMMA NewStatusType ==
  ASSUME NEW r \in Round, r.np.listed => r.result \in Results
  PROVE  Persisted(NewStatus(r)) \in Status
<1>1. CASE r.np.listed
  <2>1. r.np \in NetworkPolicy /\ r.at \in 0..MaxTime
    BY DEF Round
  <2>2. /\ r.np.status \in Status /\ r.np.retention \in Retentions
        /\ r.np.retryTimeout \in RetryTimeouts
    BY <2>1 DEF NetworkPolicy
  <2>3. r.np.retention \in Int /\ r.np.retryTimeout \in Int
    BY <2>2, RetentionsAssumption, RetryTimeoutsAssumption
  <2>4. r.at \in Nat
    BY <2>1, StoreBoundsAssumption
  <2>5. r.result \in DNSResolverResult
    BY <1>1, ResultsAssumption
  <2> QED
    BY <1>1, <2>2, <2>3, <2>4, <2>5, StoredType DEF NewStatus
<1>2. CASE ~r.np.listed
  <2>1. Persisted(BlankStatus) = BlankStatus
    BY DEF Persisted, BlankStatus, TruncateEntry, HasTime, NoAddresses
  <2> QED
    BY <1>2, <2>1, BlankIsStatus DEF NewStatus
<1> QED
  BY <1>1, <1>2

\* The first version of the policy satisfies the invariant.
LEMMA StoreInit == Init => StoreInv
<1> SUFFICES ASSUME Init PROVE StoreInv
  OBVIOUS
<1>1. np \in NetworkPolicy
  BY BlankIsStatus DEF Init, NetworkPolicy
<1>2. TypeOK
  BY <1>1, StoreBoundsAssumption DEF Init, TypeOK, NeverSighted
<1>3. CopiesCurrent /\ RoundsResolve /\ InOrder
  BY DEF Init, CopiesCurrent, RoundsResolve, InOrder
<1> QED
  BY <1>2, <1>3 DEF StoreInv

\* A write of any kind outdates all copies, and so keeps the invariant if it
\* writes a policy from a round that is not in the future.
LEMMA PutKeeps ==
  ASSUME StoreInv, NEW new \in NetworkPolicy, Put(new),
         storedAt' \in 0..MaxTime, storedAt' <= clock,
         sighted' \in [Address -> {NoTime} \cup 0..MaxTime],
         rounds' \in 0..MaxRounds, edits' \in 0..MaxEdits,
         round' \in [Worker -> Round \cup {Nil}],
         \A w \in Worker : round'[w] # Nil => round'[w] = round[w]
  PROVE  StoreInv'
<1> USE DEF StoreInv, Put
<1>1. TypeOK'
  BY DEF TypeOK
<1>2. CopiesCurrent' /\ InOrder'
  BY DEF CopiesCurrent, InOrder
<1>3. RoundsResolve'
  BY DEF RoundsResolve
<1> QED
  BY <1>1, <1>2, <1>3

\* Every step keeps the invariant.
LEMMA StoreNext == StoreInv /\ [Next]_svars => StoreInv'
<1> SUFFICES ASSUME StoreInv, [Next]_svars PROVE StoreInv'
  OBVIOUS
<1> USE DEF StoreInv
<1>1. CASE Tick
  <2>1. TypeOK'
    BY <1>1, StoreBoundsAssumption DEF Tick, TypeOK, bounds
  <2>2. CopiesCurrent'
    BY <1>1 DEF Tick, CopiesCurrent
  <2>3. RoundsResolve' /\ InOrder'
    <3>1. \A w \in Worker : round[w] # Nil => round[w].at \in 0..MaxTime
      BY DEF TypeOK, Round
    <3> QED
      BY <1>1, <3>1, StoreBoundsAssumption DEF Tick, RoundsResolve, InOrder, TypeOK
  <2> QED
    BY <2>1, <2>2, <2>3
<1>2. ASSUME NEW listed \in BOOLEAN, NEW retryTimeout \in RetryTimeouts,
             NEW retention \in Retentions, Edit(listed, retryTimeout, retention)
      PROVE  StoreInv'
  <2> DEFINE new == [np EXCEPT !.listed = listed, !.retryTimeout = retryTimeout,
                               !.retention = retention]
  <2>1. new \in NetworkPolicy
    BY DEF TypeOK, NetworkPolicy
  <2>2. Put(new) /\ edits' \in 0..MaxEdits /\ UNCHANGED <<storedAt, round, sighted, rounds>>
    BY <1>2, StoreBoundsAssumption DEF Edit, Edited, TypeOK
  <2> HIDE DEF new
  <2> QED
    BY <2>1, <2>2, PutKeeps DEF TypeOK, InOrder
<1>3. CASE Recreate
  <2> DEFINE new == [np EXCEPT !.status = BlankStatus]
  <2>1. new \in NetworkPolicy
    BY BlankIsStatus DEF TypeOK, NetworkPolicy
  <2>2. Put(new) /\ edits' \in 0..MaxEdits /\ UNCHANGED <<storedAt, round, rounds>>
    BY <1>3, StoreBoundsAssumption DEF Recreate, Edited, TypeOK
  <2>3. sighted' \in [Address -> {NoTime} \cup 0..MaxTime]
    BY <1>3 DEF Recreate, NeverSighted
  <2> HIDE DEF new
  <2> QED
    BY <2>1, <2>2, <2>3, PutKeeps DEF TypeOK, InOrder
<1>4. ASSUME NEW w \in Worker, Sync(w) PROVE StoreInv'
  BY <1>4 DEF Sync, TypeOK, CopiesCurrent, RoundsResolve, InOrder, bounds
<1>5. ASSUME NEW w \in Worker, NEW result \in Results \cup {Nil}, Begin(w, result)
      PROVE  StoreInv'
  <2> DEFINE r == [np |-> cache[w], result |-> result, at |-> clock]
  <2>1. r \in Round
    BY DEF TypeOK, Round
  <2>2. round' = [round EXCEPT ![w] = r]
    BY <1>5 DEF Begin
  <2>3. cache[w].listed => result \in Results
    BY <1>5 DEF Begin
  <2>4. valid' = valid \ {w} \/ (valid' = valid \cup {w} /\ cache[w] = np)
    BY <1>5 DEF Begin, CopiesCurrent
  <2>5. UNCHANGED <<clock, np, storedAt, cache, synced, sighted, edits>>
    BY <1>5 DEF Begin
  <2>6. rounds' \in 0..MaxRounds
    BY <1>5, StoreBoundsAssumption DEF Begin, TypeOK
  <2>7. TypeOK'
    BY <2>1, <2>2, <2>4, <2>5, <2>6 DEF TypeOK
  <2>8. CopiesCurrent'
    <3>1. ASSUME NEW v \in valid', round'[v] # Nil PROVE round'[v].np = np'
      <4>1. CASE v = w
        BY <1>5, <2>2, <2>5, <4>1 DEF Begin, CopiesCurrent, TypeOK
      <4>2. CASE v # w
        BY <2>2, <2>4, <2>5, <3>1, <4>2 DEF CopiesCurrent, TypeOK
      <4> QED
        BY <4>1, <4>2
    <3> QED
      BY <3>1, <2>5 DEF CopiesCurrent
  <2>9. RoundsResolve' /\ InOrder'
    BY <2>2, <2>3, <2>4, <2>5, StoreBoundsAssumption DEF RoundsResolve, InOrder, TypeOK
  <2> QED
    BY <2>7, <2>8, <2>9
<1>6. ASSUME NEW w \in Worker, Store(w) PROVE StoreInv'
  <2> DEFINE r == round[w]
             new == [np EXCEPT !.status = Persisted(NewStatus(r))]
  <2>1. round[w] # Nil /\ w \in valid /\ Write(w)
    BY <1>6 DEF Store
  <2>2. r \in Round /\ (r.np.listed => r.result \in Results)
    BY <2>1 DEF TypeOK, RoundsResolve
  <2>3. new \in NetworkPolicy
    BY <2>2, NewStatusType DEF TypeOK, NetworkPolicy
  <2>4. r.at \in 0..MaxTime /\ r.at <= clock
    BY <2>1, <2>2 DEF Round, RoundsResolve
  <2>5. storedAt' \in 0..MaxTime /\ storedAt' <= clock
    BY <2>1, <2>4 DEF Write, TypeOK, InOrder
  <2>6. sighted' \in [Address -> {NoTime} \cup 0..MaxTime]
    BY <2>1, <2>4 DEF Write, TypeOK, NeverSighted
  <2>7. Put(new) /\ End(w) /\ UNCHANGED bounds
    BY <2>1 DEF Write
  <2> HIDE DEF new, r
  <2> QED
    BY <2>3, <2>5, <2>6, <2>7, PutKeeps DEF End, TypeOK, bounds
<1>7. ASSUME NEW w \in Worker, Drop(w) PROVE StoreInv'
  <2>1. TypeOK'
    BY <1>7 DEF Drop, End, TypeOK, bounds
  <2>2. CopiesCurrent' /\ RoundsResolve' /\ InOrder'
    BY <1>7 DEF Drop, End, CopiesCurrent, RoundsResolve, InOrder, TypeOK
  <2> QED
    BY <2>1, <2>2
<1>8. CASE UNCHANGED svars
  BY <1>8 DEF svars, TypeOK, CopiesCurrent, RoundsResolve, InOrder
<1> QED
  BY <1>1, <1>2, <1>3, <1>4, <1>5, <1>6, <1>7, <1>8 DEF Next

\* Copies that count as current are, and rounds are stored in the order of
\* their instants, for any number of processes.
THEOREM StoreInvariance == Spec => []StoreInv
  BY StoreInit, StoreNext, PTL DEF Spec

\* The status in the API server keeps its type, and so do all its copies.
THEOREM StoreTypeCorrect == Spec => []TypeOK
  BY StoreInvariance, PTL DEF StoreInv

-----------------------------------------------------------------------------
(***************************************************************************)
(* The refinement.                                                         *)
(***************************************************************************)

\* The operators of the instance are those of this module.
LEMMA SameOperators ==
  ASSUME NEW s, NEW result, NEW retryTimeout, NEW retention, NEW now
  PROVE  /\ L!BlankStatus = BlankStatus
         /\ L!Persisted(L!Reconciled(s, result, retryTimeout, retention, now))
              = Persisted(Reconciled(s, result, retryTimeout, retention, now))
<1>1. L!BlankStatus = BlankStatus
  BY DEF BlankStatus, NoAddresses, L!BlankStatus, L!NoAddresses
<1>2. L!Persisted(L!Reconciled(s, result, retryTimeout, retention, now))
        = Persisted(Reconciled(s, result, retryTimeout, retention, now))
  BY DEF Persisted, TruncateEntry, Truncate, Reconciled, Update, UpdatedAddresses,
     UpdatedFailingSince, Retain, WipeMissingSince, FreshlyResolved, MissingTime,
     HasTime, RetryExpired, Transient, TransientReasons, NoAddresses,
     L!Persisted, L!TruncateEntry, L!Truncate, L!Reconciled, L!Update, L!UpdatedAddresses,
     L!UpdatedFailingSince, L!Retain, L!WipeMissingSince, L!FreshlyResolved, L!MissingTime,
     L!HasTime, L!RetryExpired, L!Transient, L!TransientReasons, L!NoAddresses
<1> QED
  BY <1>1, <1>2

\* Storing a status is a reconciliation of the ledger, or forgetting it.
LEMMA StoreStep ==
  ASSUME StoreInv, NEW w \in Worker, Store(w)
  PROVE  L!Next \/ UNCHANGED <<storedAt, np.status>>
<1> DEFINE r == round[w]
           new == Persisted(NewStatus(r))
<1>1. r # Nil /\ w \in valid /\ Write(w)
  BY DEF Store
<1>2. r \in Round /\ r.np = np /\ storedAt <= r.at
  BY <1>1 DEF StoreInv, TypeOK, CopiesCurrent, InOrder
<1>3. np'.status = new /\ storedAt' = IF np.listed THEN r.at ELSE storedAt
  BY <1>1, <1>2 DEF Write, Put, StoreInv, TypeOK, NetworkPolicy
<1>4. CASE np.listed
  <2>1. r.result \in Results
    BY <1>1, <1>2, <1>4 DEF StoreInv, RoundsResolve
  <2>2. /\ np.retryTimeout \in RetryTimeouts /\ np.retention \in Retentions
        /\ r.at \in 0..MaxTime
    BY <1>2 DEF StoreInv, TypeOK, NetworkPolicy, Round
  <2>3. new = Persisted(Reconciled(np.status, r.result, np.retryTimeout, np.retention, r.at))
    BY <1>2, <1>4 DEF NewStatus
  <2>4. L!Reconcile(r.at, r.result, np.retryTimeout, np.retention)
    BY <1>2, <1>3, <1>4, <2>3, SameOperators DEF L!Reconcile
  <2> QED
    BY <2>1, <2>2, <2>4 DEF L!Next
<1>5. CASE ~np.listed
  <2>1. new = BlankStatus
    BY <1>2, <1>5
    DEF NewStatus, Persisted, BlankStatus, TruncateEntry, HasTime, NoAddresses
  <2>2. np'.status = BlankStatus /\ storedAt' = storedAt
    BY <1>3, <1>5, <2>1
  <2> QED
    BY <2>2, SameOperators DEF L!Next, L!Forget
<1> QED
  BY <1>4, <1>5

\* Every step is a step of the ledger, or leaves it alone.
LEMMA RefinementStep ==
  StoreInv /\ [Next]_svars => [L!Next]_(L!vars)
<1> SUFFICES ASSUME StoreInv, [Next]_svars
             PROVE  L!Next \/ UNCHANGED <<storedAt, np.status>>
  BY DEF L!vars
<1>1. CASE Tick
  BY <1>1 DEF Tick
<1>2. ASSUME NEW listed \in BOOLEAN, NEW retryTimeout \in RetryTimeouts,
             NEW retention \in Retentions, Edit(listed, retryTimeout, retention)
      PROVE  UNCHANGED <<storedAt, np.status>>
  BY <1>2 DEF Edit, Put, StoreInv, TypeOK, NetworkPolicy
<1>3. CASE Recreate
  <2>1. np'.status = BlankStatus /\ storedAt' = storedAt
    BY <1>3 DEF Recreate, Put, StoreInv, TypeOK, NetworkPolicy
  <2> QED
    BY <2>1, SameOperators DEF L!Next, L!Forget
<1>4. ASSUME NEW w \in Worker, Sync(w) PROVE UNCHANGED <<storedAt, np.status>>
  BY <1>4 DEF Sync
<1>5. ASSUME NEW w \in Worker, NEW result \in Results \cup {Nil}, Begin(w, result)
      PROVE  UNCHANGED <<storedAt, np.status>>
  BY <1>5 DEF Begin
<1>6. ASSUME NEW w \in Worker, Store(w)
      PROVE  L!Next \/ UNCHANGED <<storedAt, np.status>>
  BY <1>6, StoreStep
<1>7. ASSUME NEW w \in Worker, Drop(w) PROVE UNCHANGED <<storedAt, np.status>>
  BY <1>7 DEF Drop
<1>8. CASE UNCHANGED svars
  BY <1>8 DEF svars
<1> QED
  BY <1>1, <1>2, <1>3, <1>4, <1>5, <1>6, <1>7, <1>8 DEF Next

\* The status in the API server is a ledger: with any number of controllers,
\* lagging caches and lost writes, it goes through one sequence of rounds.
THEOREM StoreRefinesLedger == Spec => StoredIsLedger
<1>1. Init => L!Init
  BY SameOperators DEF Init, L!Init
<1> QED
  BY <1>1, RefinementStep, StoreInvariance, PTL DEF Spec, StoredIsLedger, L!Spec

-----------------------------------------------------------------------------
(***************************************************************************)
(* Sightings.                                                              *)
(***************************************************************************)

\* A sighting is not after the last stored round.  An address whose retention
\* cannot be over is recorded, and, if it is missing, not since before it was
\* sighted (but for the rounding); a stored MissingSince is in whole seconds.
Due(a) ==
  /\ sighted[a] # NoTime
  /\ \A retention \in Retentions : storedAt - sighted[a] <= retention - Second

SightingInv ==
  \A a \in Address :
    /\ sighted[a] # NoTime => sighted[a] <= storedAt
    /\ HasTime(np.status.addresses[a]) =>
         Truncate(np.status.addresses[a]) = np.status.addresses[a]
    /\ Due(a) =>
         /\ np.status.addresses[a] # Absent
         /\ HasTime(np.status.addresses[a]) =>
              np.status.addresses[a] > sighted[a] - Second

\* A round that is stored keeps what is due.
LEMMA SightingStored ==
  ASSUME StoreInv, SightingInv, NEW w \in Worker, Store(w), round[w].np.listed,
         NEW a \in Address
  PROVE  /\ sighted'[a] # NoTime => sighted'[a] <= storedAt'
         /\ HasTime(np'.status.addresses[a]) =>
              Truncate(np'.status.addresses[a]) = np'.status.addresses[a]
         /\ Due(a)' =>
              /\ np'.status.addresses[a] # Absent
              /\ HasTime(np'.status.addresses[a]) =>
                   np'.status.addresses[a] > sighted'[a] - Second
<1> DEFINE r == round[w]
           now == r.at
           old == np.status.addresses[a]
           entry == np'.status.addresses[a]
           missing == MissingTime(old, now)
<1>1. /\ r # Nil /\ r \in Round /\ r.np = np /\ storedAt <= now
      /\ r.result \in Results
      /\ Write(w)
  BY DEF Store, StoreInv, TypeOK, CopiesCurrent, InOrder, RoundsResolve
<1>2. /\ np \in NetworkPolicy
      /\ storedAt \in Nat /\ now \in Nat
      /\ sighted \in [Address -> {NoTime} \cup Nat]
  BY <1>1, StoreBoundsAssumption DEF StoreInv, TypeOK, Round
<1>3. /\ np.status \in Status /\ np.retention \in Retentions /\ np.retention \in Int
      /\ np.retryTimeout \in Int
  BY <1>2, RetentionsAssumption, RetryTimeoutsAssumption DEF NetworkPolicy
<1>4. r.result \in DNSResolverResult /\ Second \in Nat \ {0}
  BY <1>1, ResultsAssumption, SecondAssumption
<1>5. np'.status
        = Persisted(Reconciled(np.status, r.result, np.retryTimeout, np.retention, now))
  BY <1>1, <1>2 DEF Write, Put, NewStatus, NetworkPolicy
<1>6. storedAt' = now /\ sighted'[a] = IF a \in r.result.cidrs THEN now ELSE sighted[a]
  BY <1>1 DEF Write
<1>7. old \in Entry
  BY <1>3 DEF Status
<1>8. missing \in Nat /\ missing = IF HasTime(old) THEN old ELSE now
  BY <1>2, <1>7, TruncateEntryType DEF MissingTime, HasTime
<1>9. CASE np.retention <= 0
  <2>1. entry \in {NoTime, Absent}
    BY <1>2, <1>3, <1>4, <1>5, <1>9, UnretainedAddress
  <2>2. a \in r.result.cidrs => entry = NoTime
    BY <1>2, <1>3, <1>4, <1>5, <1>9, UnretainedAddress
  <2>3. ASSUME a \notin r.result.cidrs, Due(a)' PROVE FALSE
    <3>1. sighted[a] \in Nat /\ sighted[a] <= storedAt
      BY <1>2, <1>6, <2>3 DEF Due, SightingInv
    <3>2. now - sighted[a] <= np.retention - Second
      BY <1>3, <1>6, <2>3 DEF Due
    <3> QED
      BY <1>1, <1>2, <1>3, <1>4, <1>9, <3>1, <3>2
  <2> QED
    BY <1>1, <1>2, <1>6, <2>1, <2>2, <2>3, SentinelAssumption DEF HasTime, SightingInv
<1>10. CASE np.retention > 0
  <2>1. entry = IF a \in r.result.cidrs THEN NoTime
                ELSE IF old # Absent /\ now - missing <= np.retention
                     THEN Truncate(missing) ELSE Absent
    BY <1>2, <1>3, <1>4, <1>5, <1>10, RetainedAddress
  <2>2. CASE a \in r.result.cidrs
    BY <1>2, <1>6, <2>1, <2>2, SentinelAssumption DEF HasTime
  <2>3. CASE a \notin r.result.cidrs
    <3>1. sighted'[a] # NoTime => sighted'[a] <= storedAt'
      BY <1>1, <1>2, <1>6, <2>3 DEF SightingInv
    <3>2. HasTime(entry) => Truncate(entry) = entry
      BY <1>8, <2>1, <2>3, TruncateIdempotent, SentinelAssumption DEF HasTime
    <3>3. ASSUME Due(a)' PROVE entry # Absent /\ (HasTime(entry) => entry > sighted'[a] - Second)
      <4>1. sighted'[a] = sighted[a] /\ sighted[a] \in Nat /\ sighted[a] <= storedAt
        BY <1>2, <1>6, <2>3, <3>3 DEF Due, SightingInv
      <4>2. Due(a)
        BY <1>1, <1>2, <1>4, <1>6, <3>3, <4>1, RetentionsAssumption DEF Due
      <4>3. old # Absent /\ (HasTime(old) => old > sighted[a] - Second /\ Truncate(old) = old)
        BY <4>2 DEF SightingInv
      <4>4. now - sighted[a] <= np.retention - Second
        BY <1>3, <1>6, <3>3, <4>1 DEF Due
      <4>5. now - missing <= np.retention
        BY <1>1, <1>2, <1>3, <1>4, <1>8, <4>1, <4>3, <4>4
      <4>6. entry = Truncate(missing) /\ Truncate(missing) \in Nat
        BY <1>8, <2>1, <2>3, <4>3, <4>5, TruncateBounds
      <4>7. Truncate(missing) > sighted[a] - Second
        <5>1. CASE HasTime(old)
          BY <1>8, <4>3, <5>1
        <5>2. CASE ~HasTime(old)
          BY <1>1, <1>2, <1>4, <1>8, <4>1, <5>2, TruncateBounds
        <5> QED
          BY <5>1, <5>2
      <4> QED
        BY <4>1, <4>6, <4>7, SentinelAssumption
    <3> QED
      BY <3>1, <3>2, <3>3
  <2> QED
    BY <2>2, <2>3
<1> QED
  BY <1>3, <1>9, <1>10

\* A blank status has no entries.
LEMMA BlankAddresses == \A a \in Address : BlankStatus.addresses[a] = Absent
<1>1. BlankStatus.addresses = NoAddresses
  BY DEF BlankStatus
<1> QED
  BY <1>1 DEF NoAddresses

\* Every step keeps what is due.
LEMMA SightingNext ==
  StoreInv /\ SightingInv /\ [Next]_svars => SightingInv'
<1> SUFFICES ASSUME StoreInv, SightingInv, [Next]_svars PROVE SightingInv'
  OBVIOUS
<1>1. ASSUME UNCHANGED <<storedAt, np.status, sighted>> PROVE SightingInv'
  <2>1. storedAt' = storedAt /\ np'.status = np.status /\ sighted' = sighted
    BY <1>1
  <2>2. \A a \in Address : Due(a)' <=> Due(a)
    BY <2>1 DEF Due
  <2> QED
    BY <2>1, <2>2 DEF SightingInv
<1>2. ASSUME np'.status = BlankStatus, sighted' = NeverSighted PROVE SightingInv'
  <2>1. \A a \in Address : np'.status.addresses[a] = Absent /\ sighted'[a] = NoTime
    BY <1>2, BlankAddresses DEF NeverSighted
  <2> QED
    BY <2>1 DEF SightingInv, Due, HasTime
<1>3. CASE Tick
  BY <1>1, <1>3 DEF Tick
<1>4. ASSUME NEW listed \in BOOLEAN, NEW retryTimeout \in RetryTimeouts,
             NEW retention \in Retentions, Edit(listed, retryTimeout, retention)
      PROVE  UNCHANGED <<storedAt, np.status, sighted>>
  BY <1>4 DEF Edit, Put, StoreInv, TypeOK, NetworkPolicy
<1>5. CASE Recreate
  <2>1. np'.status = BlankStatus /\ sighted' = NeverSighted
    BY <1>5 DEF Recreate, Put, StoreInv, TypeOK, NetworkPolicy
  <2> QED
    BY <1>2, <2>1
<1>6. ASSUME NEW w \in Worker,
             Sync(w) \/ Drop(w) \/ \E result \in Results \cup {Nil} : Begin(w, result)
      PROVE  UNCHANGED <<storedAt, np.status, sighted>>
  BY <1>6 DEF Sync, Drop, Begin
<1>7. ASSUME NEW w \in Worker, Store(w) PROVE SightingInv'
  <2>1. CASE round[w].np.listed
    <3> SUFFICES ASSUME NEW a \in Address
                 PROVE  /\ sighted'[a] # NoTime => sighted'[a] <= storedAt'
                        /\ HasTime(np'.status.addresses[a]) =>
                             Truncate(np'.status.addresses[a]) = np'.status.addresses[a]
                        /\ Due(a)' =>
                             /\ np'.status.addresses[a] # Absent
                             /\ HasTime(np'.status.addresses[a]) =>
                                  np'.status.addresses[a] > sighted'[a] - Second
      BY DEF SightingInv
    <3> QED
      BY <1>7, <2>1, SightingStored
  <2>2. CASE ~round[w].np.listed
    <3>1. Persisted(NewStatus(round[w])) = BlankStatus
      BY <2>2 DEF NewStatus, Persisted, BlankStatus, TruncateEntry, HasTime, NoAddresses
    <3>2. np'.status = BlankStatus /\ sighted' = NeverSighted
      BY <1>7, <2>2, <3>1 DEF Store, Write, Put, StoreInv, TypeOK, NetworkPolicy
    <3> QED
      BY <1>2, <3>2
  <2> QED
    BY <2>1, <2>2
<1>8. CASE UNCHANGED svars
  BY <1>1, <1>8 DEF svars
<1> QED
  BY <1>1, <1>3, <1>4, <1>5, <1>6, <1>7, <1>8 DEF Next

\* An address whose sighting was stored stays recorded as long as no retention
\* period in use can be over, with any number of controllers.
THEOREM SightingsKept == Spec => []SightingKept
<1>1. ASSUME Init PROVE SightingInv
  <2>1. np.status = BlankStatus /\ sighted = NeverSighted
    BY <1>1 DEF Init
  <2>2. \A a \in Address : np.status.addresses[a] = Absent /\ sighted[a] = NoTime
    BY <2>1, BlankAddresses DEF NeverSighted
  <2> QED
    BY <2>2 DEF SightingInv, Due, HasTime
<1>2. SightingInv => SightingKept
  BY DEF SightingInv, Due, SightingKept, Recorded
<1> QED
  BY <1>1, <1>2, SightingNext, StoreInvariance, PTL DEF Spec

=============================================================================
