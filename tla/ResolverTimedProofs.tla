------------------------- MODULE ResolverTimedProofs -------------------------
(***************************************************************************)
(* The clock of ResolverTimed adds nothing to what Resolver can do, so     *)
(* that what is proved of Resolver holds of a call that takes time.  And   *)
(* a call takes no longer than its batches.                                *)
(***************************************************************************)
EXTENDS ResolverTimed, ResolverProofs

\* Every timed step is a step of the untimed call, or leaves it alone.
LEMMA TimedStep == [TNext]_tvars => [Next]_vars
<1> SUFFICES ASSUME [TNext]_tvars PROVE Next \/ UNCHANGED vars
  OBVIOUS
<1>1. CASE TCaller \/ TClose \/ TCancel
  BY <1>1 DEF TCaller, TClose, TCancel, Next
<1>2. ASSUME NEW f \in FQDN, Urgent(f) PROVE Goroutine(f)
  BY <1>2 DEF Urgent, TAcquire, Goroutine
<1>3. ASSUME NEW f \in FQDN, NEW err \in Errors, TLookup(f, err) PROVE Goroutine(f)
  BY <1>3 DEF TLookup, Goroutine
<1>4. CASE Tick
  BY <1>4 DEF Tick
<1>5. CASE UNCHANGED tvars
  BY <1>5 DEF tvars, vars
<1> QED
  BY <1>1, <1>2, <1>3, <1>4, <1>5 DEF TNext, Next

\* The timed call implements the untimed one.
THEOREM TimedImplementsResolver == TSpec => Spec
<1>1. TInit => Init
  BY DEF TInit
<1> QED
  BY <1>1, TimedStep, PTL DEF TSpec, Spec

\* Whatever time lookups take, for any number of names and any limit, Resolve
\* returns exactly one result for every name.
THEOREM TimedExactlyOneResult == TSpec => []ExactlyOneResult
  BY TimedImplementsResolver, ResolverExactlyOneResult, PTL

-----------------------------------------------------------------------------
(***************************************************************************)
(* The duration.  By the time the clock has passed j - 1 timeouts, j times *)
(* MaxConcurrent lookups have begun and will end within j timeouts, or all *)
(* of them have: the clock moves only while every slot is taken or nobody  *)
(* waits for one.                                                          *)
(***************************************************************************)

LookedUp == {"send", "abort", "release", "finish", "done"}

\* The names whose lookups have ended or end within j timeouts.
Claimed(j) ==
  {f \in FQDN : \/ pc[f] \in LookedUp
                \/ pc[f] = "lookup" /\ deadline[f] <= j * Timeout}

BatchesClaimed ==
  \A j \in Nat : clock + Timeout > j * Timeout =>
    \/ Cardinality(Claimed(j)) >= j * MaxConcurrent
    \/ Claimed(j) = FQDN

DeadlinesNear ==
  \A f \in FQDN : pc[f] = "lookup" => deadline[f] <= clock + Timeout

TimersOK == clock \in Nat /\ deadline \in [FQDN -> Nat]

DurationInv ==
  /\ ResolverInv
  /\ TimersOK
  /\ DeadlinesNear
  /\ BatchesClaimed
  /\ DurationBounded

\* The batches are enough for all names.
LEMMA BatchesEnough ==
  /\ Cardinality(FQDN) \in Nat
  /\ Batches \in Nat
  /\ Batches * MaxConcurrent >= Cardinality(FQDN)
<1>1. Cardinality(FQDN) \in Nat
  BY FQDNAssumption, FS_CardinalityType
<1>2. ASSUME NEW n \in Nat, NEW m \in Nat \ {0}
      PROVE  /\ (n + m - 1) \div m \in Nat
             /\ ((n + m - 1) \div m) * m >= n
  <2> DEFINE q == (n + m - 1) \div m
  <2>1. q \in Int /\ m * q <= n + m - 1 /\ n + m - 1 < m * q + m
    OBVIOUS
  <2> HIDE DEF q
  <2>2. q * m = m * q
    BY <2>1
  <2>3. q >= 0
    BY <2>1
  <2> QED
    BY <2>1, <2>2, <2>3 DEF q
<1> QED
  BY <1>1, <1>2, MaxConcurrentAssumption DEF Batches

\* A step that does not move the clock ends lookups or begins some; it undoes
\* neither.
LEMMA ClaimedGrows ==
  ASSUME DurationInv, TimersOK', clock' = clock,
         pc' \in [FQDN -> Labels],
         \A f \in FQDN : pc[f] \in LookedUp => pc'[f] \in LookedUp,
         \A f \in FQDN : pc[f] = "lookup" =>
           pc'[f] \in LookedUp \/ (pc'[f] = "lookup" /\ deadline'[f] = deadline[f]),
         \A f \in FQDN : pc'[f] = "lookup" =>
           \/ pc[f] = "lookup" /\ deadline'[f] = deadline[f]
           \/ deadline'[f] = clock + Timeout,
         ResolverInv'
  PROVE  DurationInv'
<1>1. TimersOK /\ clock \in Nat /\ Timeout \in Nat /\ deadline \in [FQDN -> Nat]
  BY TimeoutAssumption DEF DurationInv, TimersOK
<1>2. ASSUME NEW j \in Nat PROVE Claimed(j) \subseteq Claimed(j)'
  BY DEF Claimed
<1>3. BatchesClaimed'
  <2> SUFFICES ASSUME NEW j \in Nat, clock + Timeout > j * Timeout
               PROVE  \/ Cardinality(Claimed(j)') >= j * MaxConcurrent
                      \/ Claimed(j)' = FQDN
    BY DEF BatchesClaimed
  <2>1. Cardinality(Claimed(j)) >= j * MaxConcurrent \/ Claimed(j) = FQDN
    BY DEF DurationInv, BatchesClaimed
  <2>2. Claimed(j)' \subseteq FQDN
    BY DEF Claimed
  <2>3. Claimed(j) \subseteq Claimed(j)'
    BY <1>2
  <2>4. IsFiniteSet(Claimed(j)') /\ Cardinality(Claimed(j)) <= Cardinality(Claimed(j)')
    BY <2>2, <2>3, FQDNAssumption, FS_Subset
  <2>5. /\ Cardinality(Claimed(j)) \in Nat /\ Cardinality(Claimed(j)') \in Nat
        /\ j * MaxConcurrent \in Int
    BY <2>3, <2>4, FS_Subset, FS_CardinalityType, MaxConcurrentAssumption
  <2>6. CASE Cardinality(Claimed(j)) >= j * MaxConcurrent
    BY <2>4, <2>5, <2>6
  <2>7. CASE Claimed(j) = FQDN
    BY <2>2, <2>3, <2>7
  <2> QED
    BY <2>1, <2>6, <2>7
<1>4. DeadlinesNear'
  BY <1>1 DEF DurationInv, DeadlinesNear
<1>5. DurationBounded'
  BY DEF DurationInv, DurationBounded, Batches
<1> QED
  BY <1>3, <1>4, <1>5 DEF DurationInv

\* The clock moves: a batch that is due has begun, and the last has not ended.
LEMMA TickKeepsDuration ==
  ASSUME DurationInv, Tick, ResolverInv'
  PROVE  DurationInv'
<1>1. /\ clock \in Nat /\ Timeout \in Nat \ {0} /\ MaxConcurrent \in Nat \ {0}
      /\ deadline \in [FQDN -> Nat] /\ pc \in [FQDN -> Labels] /\ sem \in Nat
  BY TimeoutAssumption, MaxConcurrentAssumption DEF DurationInv, TimersOK, ResolverInv, TypeOK
<1>2. /\ clock' = clock + 1 /\ deadline' = deadline /\ pc' = pc
      /\ \A f \in FQDN : pc[f] = "lookup" => deadline[f] > clock
  BY <1>1 DEF Tick, Expired, vars
<1>3. TimersOK' /\ DeadlinesNear'
  <2>1. TimersOK'
    BY <1>1, <1>2 DEF TimersOK
  <2>2. \A f \in FQDN : pc[f] = "lookup" => deadline[f] <= clock + Timeout
    BY DEF DurationInv, DeadlinesNear
  <2>3. ASSUME NEW f \in FQDN, pc[f] = "lookup" PROVE deadline[f] <= clock + 1 + Timeout
    BY <1>1, <2>2, <2>3
  <2> QED
    BY <1>2, <2>1, <2>3 DEF DeadlinesNear
<1>4. \A j : Claimed(j)' = Claimed(j)
  BY <1>2 DEF Claimed
<1>5. ASSUME NEW j \in Nat, clock + 1 + Timeout > j * Timeout
      PROVE  \/ Cardinality(Claimed(j)) >= j * MaxConcurrent
             \/ Claimed(j) = FQDN
  <2>1. CASE clock + Timeout > j * Timeout
    BY <2>1 DEF DurationInv, BatchesClaimed
  <2>2. CASE ~(clock + Timeout > j * Timeout)
    <3>1. j * Timeout \in Nat /\ clock + Timeout = j * Timeout
      <4>1. j * Timeout \in Nat
        BY <1>1
      <4> QED
        BY <1>1, <1>5, <2>2, <4>1
    <3>2. j - 1 \in Nat
      <4>1. j # 0
        BY <1>1, <3>1
      <4> QED
        BY <4>1
    <3>3. (j - 1) * Timeout = clock /\ (j - 1) * MaxConcurrent = j * MaxConcurrent - MaxConcurrent
      <4>1. (j - 1) * Timeout = j * Timeout - Timeout
        BY <1>1
      <4>2. (j - 1) * MaxConcurrent = j * MaxConcurrent - MaxConcurrent
        BY <1>1
      <4> QED
        BY <1>1, <3>1, <4>1, <4>2
    <3> DEFINE old == Claimed(j - 1)
               flying == {f \in FQDN : pc[f] = "lookup"}
    <3>4. Cardinality(old) >= (j - 1) * MaxConcurrent \/ old = FQDN
      <4>1. clock + Timeout > (j - 1) * Timeout
        BY <1>1, <3>3
      <4> QED
        BY <3>2, <4>1 DEF DurationInv, BatchesClaimed
    <3>5. old \cap flying = {}
      BY <1>1, <1>2, <3>3 DEF Claimed, LookedUp
    <3>6. Claimed(j) = {f \in FQDN : pc[f] \in LookedUp} \cup flying
      <4>1. \A f \in flying : deadline[f] <= j * Timeout
        BY <3>1 DEF DurationInv, DeadlinesNear
      <4> QED
        BY <4>1 DEF Claimed
    <3>7. old = {f \in FQDN : pc[f] \in LookedUp}
      BY <1>1, <1>2, <3>3 DEF Claimed
    <3>8. IsFiniteSet(old) /\ IsFiniteSet(flying)
      BY <3>7, FQDNAssumption, FS_Subset
    <3>9. CASE \A f \in FQDN : pc[f] # "select"
      <4>1. \A f \in FQDN : pc[f] # "new"
        BY DEF Tick, Quiet, DurationInv, ResolverInv, PhasesOrdered
      <4> QED
        BY <1>1, <3>6, <3>9, <4>1 DEF Labels, LookedUp
    <3>10. ASSUME NEW f \in FQDN, pc[f] = "select"
           PROVE  Cardinality(Claimed(j)) >= j * MaxConcurrent
      <4>1. ~SlotFree /\ \A g \in FQDN : pc[g] \in {"lookup", "done", "select"}
        BY <3>10 DEF Tick, Quiet
      <4>2. sem = MaxConcurrent
        BY <1>1, <4>1 DEF SlotFree, DurationInv, ResolverInv, CountersExact
      <4>3. flying = {g \in FQDN : pc[g] \in HoldsSlot}
        BY <4>1 DEF HoldsSlot
      <4>4. Cardinality(flying) = MaxConcurrent
        BY <4>2, <4>3 DEF DurationInv, ResolverInv, CountersExact, CountAt
      <4>5. old # FQDN
        BY <3>7, <3>10 DEF LookedUp
      <4> HIDE DEF old, flying
      <4>6. Cardinality(old \cup flying) =
              Cardinality(old) + Cardinality(flying) - Cardinality(old \cap flying)
        BY <3>8, FS_Union
      <4>7. Cardinality(old) \in Nat /\ j * MaxConcurrent \in Int
        BY <1>1, <3>8, FS_CardinalityType
      <4>8. Cardinality(old \cap flying) = 0
        BY <3>5, FS_EmptySet
      <4> QED
        BY <1>1, <3>3, <3>4, <3>6, <3>7, <4>4, <4>5, <4>6, <4>7, <4>8
    <3> QED
      BY <3>9, <3>10
  <2> QED
    BY <2>1, <2>2
<1>6. BatchesClaimed'
  BY <1>2, <1>4, <1>5 DEF BatchesClaimed
<1>7. DurationBounded'
  <2>1. clock # Batches * Timeout
    <3> SUFFICES ASSUME clock = Batches * Timeout PROVE FALSE
      OBVIOUS
    <3>1. PICK f \in FQDN : pc[f] = "lookup"
      BY DEF Tick
    <3>2. f \notin Claimed(Batches)
      BY <1>1, <1>2, <3>1 DEF Claimed, LookedUp
    <3>3. Cardinality(Claimed(Batches)) >= Batches * MaxConcurrent
      BY <1>1, <3>2, BatchesEnough DEF DurationInv, BatchesClaimed
    <3>4. Claimed(Batches) \in SUBSET FQDN
      BY DEF Claimed
    <3>5. /\ Cardinality(Claimed(Batches)) <= Cardinality(FQDN)
          /\ Cardinality(FQDN) = Cardinality(Claimed(Batches)) => FQDN = Claimed(Batches)
          /\ IsFiniteSet(Claimed(Batches))
      BY <3>4, FQDNAssumption, FS_Subset
    <3>6. Cardinality(Claimed(Batches)) \in Nat
      BY <3>5, FS_CardinalityType
    <3>7. Batches * MaxConcurrent \in Int
      BY <1>1, BatchesEnough
    <3>8. Cardinality(FQDN) = Cardinality(Claimed(Batches))
      BY <3>3, <3>5, <3>6, <3>7, BatchesEnough
    <3> QED
      BY <3>2, <3>5, <3>8
  <2>2. Batches * Timeout \in Int /\ clock <= Batches * Timeout
    BY <1>1, BatchesEnough DEF DurationInv, DurationBounded
  <2>3. clock + 1 <= Batches * Timeout
    BY <1>1, <2>1, <2>2
  <2> QED
    BY <1>2, <2>3 DEF DurationBounded, Batches
<1> QED
  BY <1>3, <1>6, <1>7 DEF DurationInv

\* Before the call nothing has happened.
LEMMA DurationInit == TInit => DurationInv
<1> SUFFICES ASSUME TInit PROVE DurationInv
  OBVIOUS
<1>1. ResolverInv /\ clock = 0 /\ deadline = [f \in FQDN |-> 0]
  BY InitInv DEF TInit
<1>2. \A f \in FQDN : pc[f] = "new"
  BY DEF TInit, Init
<1>3. BatchesClaimed
  <2> SUFFICES ASSUME NEW j \in Nat, clock + Timeout > j * Timeout
               PROVE  Cardinality(Claimed(j)) >= j * MaxConcurrent
    BY DEF BatchesClaimed
  <2>1. j = 0
    <3> SUFFICES ASSUME j >= 1 PROVE FALSE
      OBVIOUS
    <3>1. j * Timeout = (j - 1) * Timeout + Timeout /\ (j - 1) * Timeout \in Nat
      BY TimeoutAssumption
    <3> QED
      BY <1>1, <3>1, TimeoutAssumption
  <2>2. Claimed(j) = {}
    BY <1>2 DEF Claimed, LookedUp
  <2> QED
    BY <2>1, <2>2, FS_EmptySet, MaxConcurrentAssumption
<1>4. DurationBounded
  BY <1>1, BatchesEnough, TimeoutAssumption DEF DurationBounded
<1> QED
  BY <1>1, <1>2, <1>3, <1>4 DEF DurationInv, TimersOK, DeadlinesNear

\* A goroutine that moves keeps the bound: the clock stands still.
LEMMA GotoKeepsDuration ==
  ASSUME DurationInv, ResolverInv', TimersOK', clock' = clock,
         NEW f \in FQDN, NEW to, Goto(f, to),
         \A g \in FQDN \ {f} : deadline'[g] = deadline[g],
         \/ pc[f] \in {"new", "select"} /\ to \in {"select", "abort"}
         \/ pc[f] = "select" /\ to = "lookup" /\ deadline'[f] = clock + Timeout
         \/ pc[f] \in LookedUp \cup {"lookup"} /\ to \in LookedUp
  PROVE  DurationInv'
<1>1. pc \in [FQDN -> Labels] /\ pc' \in [FQDN -> Labels]
  BY DEF DurationInv, ResolverInv, TypeOK
<1>2. \A g \in FQDN : pc'[g] = IF g = f THEN to ELSE pc[g]
  BY <1>1 DEF Goto
<1> QED
  BY <1>1, <1>2, ClaimedGrows DEF LookedUp

\* Every step keeps the bound.
LEMMA DurationNext == DurationInv /\ [TNext]_tvars => DurationInv'
<1> SUFFICES ASSUME DurationInv, [TNext]_tvars PROVE DurationInv'
  OBVIOUS
<1>1. ResolverInv'
  BY TimedStep, InvNext DEF DurationInv
<1>2. /\ clock \in Nat /\ deadline \in [FQDN -> Nat] /\ TimersOK
      /\ Timeout \in Nat /\ pc \in [FQDN -> Labels]
  BY TimeoutAssumption DEF DurationInv, TimersOK, ResolverInv, TypeOK
<1>3. UNCHANGED timers => clock' = clock /\ deadline' = deadline /\ TimersOK'
  BY <1>2 DEF timers, TimersOK
<1>4. ASSUME pc' = pc, UNCHANGED timers PROVE DurationInv'
  BY <1>1, <1>2, <1>3, <1>4, ClaimedGrows
<1>5. CASE TCaller
  <2>1. ASSUME NEW f \in FQDN, Spawn(f) PROVE DurationInv'
    BY <1>1, <1>3, <1>5, <2>1, GotoKeepsDuration DEF TCaller, Spawn
  <2>2. CASE Spawned \/ Collect \/ Return
    BY <1>4, <1>5, <2>2 DEF TCaller, Spawned, Collect, Return
  <2> QED
    BY <1>5, <2>1, <2>2 DEF TCaller, Caller
<1>6. CASE TClose \/ TCancel
  BY <1>4, <1>6 DEF TClose, TCancel, Close, Cancel
<1>7. ASSUME NEW f \in FQDN, Urgent(f) PROVE DurationInv'
  <2>1. CASE TAcquire(f)
    <3>1. /\ clock' = clock /\ deadline' = [deadline EXCEPT ![f] = clock + Timeout]
          /\ Goto(f, "lookup") /\ pc[f] = "select"
      BY <2>1 DEF TAcquire, Acquire
    <3>2. TimersOK'
      BY <1>2, <3>1 DEF TimersOK
    <3> QED
      BY <1>1, <1>2, <3>1, <3>2, GotoKeepsDuration
  <2>2. CASE (Abort(f) \/ Send(f) \/ Release(f) \/ Finish(f)) /\ UNCHANGED timers
    <3>1. \E to : Goto(f, to) /\ (\/ pc[f] = "select" /\ to = "abort"
                                  \/ pc[f] \in LookedUp /\ to \in LookedUp)
      BY <2>2 DEF Abort, Send, Release, Finish, LookedUp
    <3> QED
      BY <1>1, <1>3, <2>2, <3>1, GotoKeepsDuration
  <2> QED
    BY <1>7, <2>1, <2>2 DEF Urgent
<1>8. ASSUME NEW f \in FQDN, NEW err \in Errors, TLookup(f, err) PROVE DurationInv'
  <2>1. /\ clock' = clock /\ deadline' = [deadline EXCEPT ![f] = 0]
        /\ Goto(f, "send") /\ pc[f] = "lookup"
    BY <1>8 DEF TLookup, Lookup
  <2>2. TimersOK'
    BY <1>2, <2>1 DEF TimersOK
  <2> QED
    BY <1>1, <1>2, <2>1, <2>2, GotoKeepsDuration DEF LookedUp
<1>9. CASE Tick
  BY <1>1, <1>9, TickKeepsDuration
<1>10. CASE UNCHANGED tvars
  BY <1>4, <1>10 DEF tvars, timers
<1> QED
  BY <1>5, <1>6, <1>7, <1>8, <1>9, <1>10 DEF TNext

\* However many names there are, whatever the limit and the timeout, and however
\* the lookups end and overlap, one call of Resolve takes no longer than one
\* timeout for every MaxConcurrent names.
THEOREM TimedDurationBounded == TSpec => []DurationBounded
<1>1. DurationInv => DurationBounded
  BY DEF DurationInv
<1> QED
  BY <1>1, DurationInit, DurationNext, PTL DEF TSpec

\* And the aggregate status and the reason reported are those of the outcomes.
THEOREM TimedAggregateExact == TSpec => []AggregateExact
  BY TimedImplementsResolver, ResolverAggregateExact, PTL

=============================================================================
