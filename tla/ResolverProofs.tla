--------------------------- MODULE ResolverProofs ---------------------------
(***************************************************************************)
(* Proofs about Resolver, for any finite set of names and any positive     *)
(* limit on the lookups in flight.                                         *)
(*                                                                         *)
(* The counters of the code say nothing about goroutines, while the        *)
(* properties do.  The invariant ties the two together: the semaphore      *)
(* counts the goroutines that hold a slot, the wait group those that have  *)
(* been started and are not done, and the results in the channel and in    *)
(* the caller's list those that have sent.                                 *)
(***************************************************************************)
EXTENDS Resolver, ExtremeNumbers, FiniteSetTheorems, TLAPS

\* How many goroutines are at one of the labels L.
CountAt(p, L) == Cardinality({f \in FQDN : p[f] \in L})

HoldsSlot == {"lookup", "send", "release"}
Running == {"select", "lookup", "send", "abort", "release", "finish"}
HasSent == {"release", "finish", "done"}

CountersExact ==
  /\ sem = CountAt(pc, HoldsSlot)
  /\ sem <= MaxConcurrent
  /\ wg = CountAt(pc, Running)
  /\ Len(chan) + Len(final) = CountAt(pc, HasSent)

\* What has happened before the caller and the closing goroutine get on.
PhasesOrdered ==
  /\ caller # "spawn" => \A f \in FQDN : pc[f] # "new"
  /\ closed => caller # "spawn" /\ \A f \in FQDN : pc[f] = "done"
  /\ caller = "returned" => chan = <<>> /\ (closed \/ FQDN = {})

ResolverInv == TypeOK /\ CountersExact /\ PhasesOrdered

-----------------------------------------------------------------------------
\* A number of goroutines is a natural number, and zero if there are none.
LEMMA CountType ==
  ASSUME NEW p, NEW L
  PROVE  /\ CountAt(p, L) \in Nat
         /\ CountAt(p, L) = 0 <=> \A f \in FQDN : p[f] \notin L
<1>1. IsFiniteSet({f \in FQDN : p[f] \in L})
  BY FQDNAssumption, FS_Subset
<1> QED
  BY <1>1, FS_CardinalityType, FS_EmptySet DEF CountAt

\* If p becomes q because one goroutine moves, the number of goroutines at L
\* changes by one if it enters or leaves L, and not otherwise.
LEMMA CountMove ==
  ASSUME NEW p, NEW q, NEW g \in FQDN, NEW L,
         \A f \in FQDN \ {g} : q[f] = p[f]
  PROVE  CountAt(q, L) =
           CountAt(p, L) + (IF q[g] \in L THEN 1 ELSE 0) - (IF p[g] \in L THEN 1 ELSE 0)
<1> DEFINE S == {f \in FQDN : p[f] \in L}
           T == {f \in FQDN : q[f] \in L}
<1>1. IsFiniteSet(S) /\ IsFiniteSet(T)
  BY FQDNAssumption, FS_Subset
<1>2. Cardinality(S) \in Nat /\ Cardinality(T) \in Nat
  BY <1>1, FS_CardinalityType
<1>3. CountAt(p, L) = Cardinality(S) /\ CountAt(q, L) = Cardinality(T)
  BY DEF CountAt
<1>4. g \in S <=> p[g] \in L
  OBVIOUS
<1>5. CASE q[g] \in L
  <2>1. T = S \cup {g}
    BY <1>5
  <2>2. Cardinality(S \cup {g}) = IF g \in S THEN Cardinality(S) ELSE Cardinality(S) + 1
    BY <1>1, FS_AddElement
  <2> HIDE DEF S, T
  <2> QED
    BY <1>2, <1>3, <1>4, <1>5, <2>1, <2>2
<1>6. CASE q[g] \notin L
  <2>1. T = S \ {g}
    BY <1>6
  <2>2. Cardinality(S \ {g}) = IF g \in S THEN Cardinality(S) - 1 ELSE Cardinality(S)
    BY <1>1, FS_RemoveElement
  <2> HIDE DEF S, T
  <2> QED
    BY <1>2, <1>3, <1>4, <1>6, <2>1, <2>2
<1> QED
  BY <1>5, <1>6

\* The same for the three counts that the code keeps.
LEMMA CountsMove ==
  ASSUME pc \in [FQDN -> Labels], NEW f \in FQDN, NEW to \in Labels, Goto(f, to)
  PROVE  /\ CountAt(pc', HoldsSlot) = CountAt(pc, HoldsSlot)
              + (IF to \in HoldsSlot THEN 1 ELSE 0) - (IF pc[f] \in HoldsSlot THEN 1 ELSE 0)
         /\ CountAt(pc', Running) = CountAt(pc, Running)
              + (IF to \in Running THEN 1 ELSE 0) - (IF pc[f] \in Running THEN 1 ELSE 0)
         /\ CountAt(pc', HasSent) = CountAt(pc, HasSent)
              + (IF to \in HasSent THEN 1 ELSE 0) - (IF pc[f] \in HasSent THEN 1 ELSE 0)
         /\ pc' \in [FQDN -> Labels]
         /\ \A g \in FQDN : pc'[g] = IF g = f THEN to ELSE pc[g]
<1>1. pc' = [pc EXCEPT ![f] = to]
  BY DEF Goto
<1>2. pc' \in [FQDN -> Labels] /\ \A g \in FQDN : pc'[g] = IF g = f THEN to ELSE pc[g]
  BY <1>1
<1>3. CountAt(pc', HoldsSlot) = CountAt(pc, HoldsSlot)
        + (IF to \in HoldsSlot THEN 1 ELSE 0) - (IF pc[f] \in HoldsSlot THEN 1 ELSE 0)
  BY <1>2, CountMove
<1>4. CountAt(pc', Running) = CountAt(pc, Running)
        + (IF to \in Running THEN 1 ELSE 0) - (IF pc[f] \in Running THEN 1 ELSE 0)
  BY <1>2, CountMove
<1>5. CountAt(pc', HasSent) = CountAt(pc, HasSent)
        + (IF to \in HasSent THEN 1 ELSE 0) - (IF pc[f] \in HasSent THEN 1 ELSE 0)
  BY <1>2, CountMove
<1> QED
  BY <1>1, <1>2, <1>3, <1>4, <1>5

\* A lookup has a reason for every way it may end.
LEMMA ResultType ==
  ASSUME NEW f \in FQDN, NEW err \in LookupError
  PROVE  NewDNSResolverResult(f, err) \in Result
<1>1. resolutionReason(err) \in Reasons
  BY DEF LookupError, resolutionReason, Reasons
<1> QED
  BY <1>1 DEF NewDNSResolverResult, Result

\* The error of a cancelled context is one a lookup may end with.
LEMMA CanceledType == Canceled \in LookupError
  BY DEF Canceled, LookupError

-----------------------------------------------------------------------------
\* Before the call starts anything the invariant holds.
LEMMA InitInv == Init => ResolverInv
<1> SUFFICES ASSUME Init PROVE ResolverInv
  OBVIOUS
<1>1. TypeOK
  <2>1. \A f \in FQDN : NewDNSResolverResult(f, Canceled) \in Result
    BY CanceledType, ResultType
  <2>2. outcome \in [FQDN -> Result]
    BY <2>1, Zenon DEF Init
  <2>3. pc \in [FQDN -> Labels]
    BY DEF Init, Labels
  <2>4. ctxDone \in BOOLEAN /\ closed \in BOOLEAN
    BY Zenon DEF Init
  <2>5. /\ sem \in Nat /\ wg \in Nat
        /\ chan \in Seq(Result) /\ final \in Seq(Result)
        /\ caller \in {"spawn", "collect", "returned"}
    BY DEF Init
  <2> QED
    BY <2>2, <2>3, <2>4, <2>5 DEF TypeOK
<1>2. \A f \in FQDN : pc[f] = "new"
  BY DEF Init
<1>3. /\ CountAt(pc, HoldsSlot) = 0
      /\ CountAt(pc, Running) = 0
      /\ CountAt(pc, HasSent) = 0
  BY <1>2, CountType DEF HoldsSlot, Running, HasSent
<1>4. CountersExact
  BY <1>3, MaxConcurrentAssumption DEF Init, CountersExact
<1>5. PhasesOrdered
  BY DEF Init, PhasesOrdered
<1> QED
  BY <1>1, <1>4, <1>5 DEF ResolverInv

\* The steps of one goroutine preserve the invariant.
LEMMA GoroutineInv ==
  ASSUME ResolverInv, NEW f \in FQDN, Goroutine(f)
  PROVE  ResolverInv'
<1>0. pc \in [FQDN -> Labels] /\ sem \in Nat /\ wg \in Nat
      /\ chan \in Seq(Result) /\ final \in Seq(Result) /\ outcome \in [FQDN -> Result]
  BY DEF ResolverInv, TypeOK
<1>1. ~closed /\ caller # "returned"
  BY DEF ResolverInv, PhasesOrdered, Goroutine, Acquire, Abort, Lookup, Send, Release, Finish
<1>2. /\ CountAt(pc, HoldsSlot) \in Nat
      /\ CountAt(pc, Running) \in Nat
      /\ CountAt(pc, HasSent) \in Nat
  BY CountType
<1>3. CASE Acquire(f)
  <2> USE <1>3 DEF Acquire
  <2>1. /\ CountAt(pc', HoldsSlot) = CountAt(pc, HoldsSlot) + 1
        /\ CountAt(pc', Running) = CountAt(pc, Running)
        /\ CountAt(pc', HasSent) = CountAt(pc, HasSent)
        /\ pc' \in [FQDN -> Labels]
        /\ \A g \in FQDN : pc[g] # "new" => pc'[g] # "new"
    BY <1>0, <1>2, CountsMove DEF Labels, HoldsSlot, Running, HasSent
  <2>2. TypeOK'
    BY <2>1 DEF ResolverInv, TypeOK
  <2>3. CountersExact'
    BY <1>0, <1>2, <2>1, MaxConcurrentAssumption
    DEF ResolverInv, CountersExact, SlotFree
  <2>4. PhasesOrdered'
    BY <1>1, <2>1 DEF ResolverInv, PhasesOrdered
  <2> QED
    BY <2>2, <2>3, <2>4 DEF ResolverInv
<1>4. CASE Abort(f)
  <2>0. Goto(f, "abort") /\ pc[f] = "select"
    BY <1>4 DEF Abort
  <2>1. /\ CountAt(pc', HoldsSlot) = CountAt(pc, HoldsSlot)
        /\ CountAt(pc', Running) = CountAt(pc, Running)
        /\ CountAt(pc', HasSent) = CountAt(pc, HasSent)
        /\ pc' \in [FQDN -> Labels]
        /\ \A g \in FQDN : pc[g] # "new" => pc'[g] # "new"
    <3>1. /\ "abort" \in Labels \cap Running
          /\ "abort" \notin HoldsSlot \cup HasSent
          /\ "select" \in Running \ (HoldsSlot \cup HasSent)
      BY DEF Labels, HoldsSlot, Running, HasSent
    <3> QED
      BY <1>0, <1>2, <2>0, <3>1, CountsMove
  <2>2. TypeOK'
    <3>1. NewDNSResolverResult(f, Canceled) \in Result
      BY CanceledType, ResultType
    <3> QED
      BY <1>4, <2>1, <3>1 DEF Abort, ResolverInv, TypeOK
  <2>3. CountersExact'
    BY <1>0, <1>2, <1>4, <2>1 DEF Abort, ResolverInv, CountersExact
  <2>4. PhasesOrdered'
    BY <1>1, <1>4, <2>1 DEF Abort, ResolverInv, PhasesOrdered
  <2> QED
    BY <2>2, <2>3, <2>4 DEF ResolverInv
<1>5. ASSUME NEW err \in Errors, Lookup(f, err) PROVE ResolverInv'
  <2> USE <1>5 DEF Lookup
  <2>1. /\ CountAt(pc', HoldsSlot) = CountAt(pc, HoldsSlot)
        /\ CountAt(pc', Running) = CountAt(pc, Running)
        /\ CountAt(pc', HasSent) = CountAt(pc, HasSent)
        /\ pc' \in [FQDN -> Labels]
        /\ \A g \in FQDN : pc[g] # "new" => pc'[g] # "new"
    BY <1>0, <1>2, CountsMove DEF Labels, HoldsSlot, Running, HasSent
  <2>2. TypeOK'
    <3>1. NewDNSResolverResult(f, err) \in Result
      BY ResultType, ErrorsAssumption
    <3> QED
      BY <2>1, <3>1 DEF ResolverInv, TypeOK
  <2>3. CountersExact'
    BY <1>0, <1>2, <2>1 DEF ResolverInv, CountersExact
  <2>4. PhasesOrdered'
    BY <1>1, <2>1 DEF ResolverInv, PhasesOrdered
  <2> QED
    BY <2>2, <2>3, <2>4 DEF ResolverInv
<1>6. CASE Send(f)
  <2>1. /\ CountAt(pc', HoldsSlot) = CountAt(pc, HoldsSlot)
        /\ CountAt(pc', Running) = CountAt(pc, Running)
        /\ CountAt(pc', HasSent) = CountAt(pc, HasSent) + 1
        /\ pc' \in [FQDN -> Labels]
        /\ \A g \in FQDN : pc[g] # "new" => pc'[g] # "new"
    <3>1. CASE pc[f] = "send"
      <4>1. Goto(f, "release")
        BY <1>6, <3>1 DEF Send
      <4> QED
        BY <1>0, <1>2, <3>1, <4>1, CountsMove DEF Labels, HoldsSlot, Running, HasSent
    <3>2. CASE pc[f] = "abort"
      <4>1. Goto(f, "finish")
        BY <1>6, <3>2 DEF Send
      <4>2. /\ "finish" \in Labels \cap Running \cap HasSent
            /\ "finish" \notin HoldsSlot
            /\ "abort" \in Running \ (HoldsSlot \cup HasSent)
        BY DEF Labels, HoldsSlot, Running, HasSent
      <4> QED
        BY <1>0, <1>2, <3>2, <4>1, <4>2, CountsMove
    <3> QED
      BY <1>6, <3>1, <3>2 DEF Send
  <2>2. outcome[f] \in Result
    BY <1>0
  <2>3. TypeOK'
    BY <1>6, <2>1, <2>2 DEF Send, ResolverInv, TypeOK
  <2>4. Len(chan') = Len(chan) + 1 /\ Len(chan) \in Nat /\ Len(final) \in Nat
    BY <1>0, <1>6, <2>2 DEF Send
  <2>5. CountersExact'
    BY <1>0, <1>2, <1>6, <2>1, <2>4 DEF Send, ResolverInv, CountersExact
  <2>6. PhasesOrdered'
    BY <1>1, <1>6, <2>1 DEF Send, ResolverInv, PhasesOrdered
  <2> QED
    BY <2>3, <2>5, <2>6 DEF ResolverInv
<1>7. CASE Release(f)
  <2> USE <1>7 DEF Release
  <2>1. /\ CountAt(pc', HoldsSlot) = CountAt(pc, HoldsSlot) - 1
        /\ CountAt(pc', Running) = CountAt(pc, Running)
        /\ CountAt(pc', HasSent) = CountAt(pc, HasSent)
        /\ pc' \in [FQDN -> Labels]
        /\ \A g \in FQDN : pc[g] # "new" => pc'[g] # "new"
    BY <1>0, <1>2, CountsMove DEF Labels, HoldsSlot, Running, HasSent
  <2>2. CountersExact'
    BY <1>0, <1>2, <2>1, MaxConcurrentAssumption
    DEF ResolverInv, CountersExact
  <2>3. sem' \in Nat
    BY <2>2, CountType DEF CountersExact
  <2>4. TypeOK'
    BY <2>1, <2>3 DEF ResolverInv, TypeOK
  <2>5. PhasesOrdered'
    BY <1>1, <2>1 DEF ResolverInv, PhasesOrdered
  <2> QED
    BY <2>2, <2>4, <2>5 DEF ResolverInv
<1>8. CASE Finish(f)
  <2> USE <1>8 DEF Finish
  <2>1. /\ CountAt(pc', HoldsSlot) = CountAt(pc, HoldsSlot)
        /\ CountAt(pc', Running) = CountAt(pc, Running) - 1
        /\ CountAt(pc', HasSent) = CountAt(pc, HasSent)
        /\ pc' \in [FQDN -> Labels]
        /\ \A g \in FQDN : pc[g] # "new" => pc'[g] # "new"
    BY <1>0, <1>2, CountsMove DEF Labels, HoldsSlot, Running, HasSent
  <2>2. CountersExact'
    BY <1>0, <1>2, <2>1 DEF ResolverInv, CountersExact
  <2>3. wg' \in Nat
    BY <2>2, CountType DEF CountersExact
  <2>4. TypeOK'
    BY <2>1, <2>3 DEF ResolverInv, TypeOK
  <2>5. PhasesOrdered'
    BY <1>1, <2>1 DEF ResolverInv, PhasesOrdered
  <2> QED
    BY <2>2, <2>4, <2>5 DEF ResolverInv
<1> QED
  BY <1>3, <1>4, <1>5, <1>6, <1>7, <1>8 DEF Goroutine

\* The steps of the caller preserve the invariant.
LEMMA CallerInv ==
  ASSUME ResolverInv, Caller
  PROVE  ResolverInv'
<1>0. /\ pc \in [FQDN -> Labels] /\ sem \in Nat /\ wg \in Nat
      /\ chan \in Seq(Result) /\ final \in Seq(Result)
  BY DEF ResolverInv, TypeOK
<1>1. /\ CountAt(pc, HoldsSlot) \in Nat
      /\ CountAt(pc, Running) \in Nat
      /\ CountAt(pc, HasSent) \in Nat
  BY CountType
<1>2. ASSUME NEW f \in FQDN, Spawn(f) PROVE ResolverInv'
  <2>1. Goto(f, "select") /\ pc[f] = "new"
    BY <1>2 DEF Spawn
  <2>2. /\ CountAt(pc', HoldsSlot) = CountAt(pc, HoldsSlot)
        /\ CountAt(pc', Running) = CountAt(pc, Running) + 1
        /\ CountAt(pc', HasSent) = CountAt(pc, HasSent)
        /\ pc' \in [FQDN -> Labels]
    <3>1. /\ "select" \in Labels \cap Running
          /\ "select" \notin HoldsSlot \cup HasSent
          /\ "new" \notin Running \cup HoldsSlot \cup HasSent
      BY DEF Labels, HoldsSlot, Running, HasSent
    <3> QED
      BY <1>0, <1>1, <2>1, <3>1, CountsMove
  <2>3. TypeOK'
    BY <1>2, <2>2 DEF Spawn, ResolverInv, TypeOK
  <2>4. CountersExact'
    BY <1>2, <2>2 DEF Spawn, ResolverInv, CountersExact
  <2>5. PhasesOrdered'
    BY <1>2 DEF Spawn, ResolverInv, PhasesOrdered
  <2> QED
    BY <2>3, <2>4, <2>5 DEF ResolverInv
<1>3. CASE Spawned
  <2>1. TypeOK'
    BY <1>3 DEF Spawned, ResolverInv, TypeOK
  <2>2. CountersExact'
    BY <1>3 DEF Spawned, ResolverInv, CountersExact, CountAt
  <2>3. FQDN = {} => chan = <<>>
    <3>1. FQDN = {} => CountAt(pc, HasSent) = 0
      BY CountType
    <3>2. Len(chan) \in Nat /\ Len(final) \in Nat
      BY <1>0
    <3>3. FQDN = {} => Len(chan) = 0
      BY <3>1, <3>2 DEF ResolverInv, CountersExact
    <3> QED
      BY <1>0, <3>3
  <2>4. PhasesOrdered'
    BY <1>3, <2>3 DEF Spawned, ResolverInv, PhasesOrdered
  <2> QED
    BY <2>1, <2>2, <2>4 DEF ResolverInv
<1>4. CASE Collect
  <2>1. /\ chan' \in Seq(Result) /\ final' \in Seq(Result)
        /\ Len(chan') = Len(chan) - 1 /\ Len(final') = Len(final) + 1
        /\ Len(chan) \in Nat /\ Len(final) \in Nat
    BY <1>0, <1>4 DEF Collect
  <2>2. TypeOK'
    BY <1>4, <2>1 DEF Collect, ResolverInv, TypeOK
  <2>3. CountersExact'
    BY <1>1, <1>4, <2>1 DEF Collect, ResolverInv, CountersExact
  <2>4. PhasesOrdered'
    BY <1>4 DEF Collect, ResolverInv, PhasesOrdered
  <2> QED
    BY <2>2, <2>3, <2>4 DEF ResolverInv
<1>5. CASE Return
  <2>1. TypeOK'
    BY <1>5 DEF Return, ResolverInv, TypeOK
  <2>2. CountersExact'
    BY <1>5 DEF Return, ResolverInv, CountersExact, CountAt
  <2>3. PhasesOrdered'
    BY <1>5 DEF Return, ResolverInv, PhasesOrdered
  <2> QED
    BY <2>1, <2>2, <2>3 DEF ResolverInv
<1> QED
  BY <1>2, <1>3, <1>4, <1>5 DEF Caller

\* Closing the channel preserves the invariant: the wait group is down to
\* zero after the last goroutine was started, so all of them are done.
LEMMA CloseInv ==
  ASSUME ResolverInv, Close
  PROVE  ResolverInv'
<1>1. TypeOK'
  BY DEF Close, ResolverInv, TypeOK
<1>2. CountersExact'
  BY DEF Close, ResolverInv, CountersExact, CountAt
<1>3. \A f \in FQDN : pc[f] \notin Running
  BY CountType DEF Close, ResolverInv, CountersExact
<1>4. \A f \in FQDN : pc[f] \in Labels /\ pc[f] # "new"
  BY DEF Close, ResolverInv, TypeOK, PhasesOrdered
<1>5. \A f \in FQDN : pc[f] = "done"
  BY <1>3, <1>4 DEF Labels, Running
<1>6. PhasesOrdered'
  BY <1>5 DEF Close, ResolverInv, PhasesOrdered
<1> QED
  BY <1>1, <1>2, <1>6 DEF ResolverInv

\* Cancelling the context, or nothing, preserves the invariant.
LEMMA CancelInv ==
  ASSUME ResolverInv, Cancel \/ UNCHANGED vars
  PROVE  ResolverInv'
<1>1. TypeOK'
  BY DEF Cancel, vars, ResolverInv, TypeOK
<1>2. CountersExact'
  BY DEF Cancel, vars, ResolverInv, CountersExact, CountAt
<1>3. PhasesOrdered'
  BY DEF Cancel, vars, ResolverInv, PhasesOrdered
<1> QED
  BY <1>1, <1>2, <1>3 DEF ResolverInv

\* Every step preserves the invariant.
LEMMA InvNext == ResolverInv /\ [Next]_vars => ResolverInv'
  BY GoroutineInv, CallerInv, CloseInv, CancelInv DEF Next

\* In every behaviour of Resolve the counters count what they should.
THEOREM ResolverInvariance == Spec => []ResolverInv
  BY InitInv, InvNext, PTL DEF Spec

-----------------------------------------------------------------------------
\* Resolve keeps its variables in their types: the semaphore and the wait
\* group never go below zero (a negative wait group counter panics).
THEOREM ResolverTypeCorrect == Spec => []TypeOK
<1>1. ResolverInv => TypeOK
  BY DEF ResolverInv
<1> QED
  BY <1>1, ResolverInvariance, PTL

\* However many names there are and however their goroutines interleave, the
\* lookups in flight never exceed the limit.
THEOREM ResolverBounded == Spec => []LookupsBounded
<1>1. ResolverInv => LookupsBounded
  <2> SUFFICES ASSUME ResolverInv PROVE LookupsBounded
    OBVIOUS
  <2> DEFINE S == {f \in FQDN : pc[f] = "lookup"}
             T == {f \in FQDN : pc[f] \in HoldsSlot}
  <2>1. S \subseteq T
    BY DEF HoldsSlot
  <2>2. IsFiniteSet(T)
    BY FQDNAssumption, FS_Subset
  <2>3. Cardinality(S) <= Cardinality(T) /\ Cardinality(S) \in Nat /\ Cardinality(T) \in Nat
    BY <2>1, <2>2, FS_Subset, FS_CardinalityType
  <2>4. Cardinality(T) <= MaxConcurrent
    BY DEF ResolverInv, CountersExact, CountAt
  <2>5. LookupsBounded <=> Cardinality(S) <= MaxConcurrent
    BY DEF LookupsBounded
  <2> HIDE DEF S, T
  <2> QED
    BY <2>3, <2>4, <2>5, MaxConcurrentAssumption
<1> QED
  BY <1>1, ResolverInvariance, PTL

\* No goroutine sends on a closed channel, or on one whose buffer is full.
THEOREM ResolverSendIsSafe == Spec => []SendIsSafe
<1>1. ResolverInv => SendIsSafe
  <2> SUFFICES ASSUME ResolverInv, NEW f \in FQDN, pc[f] \in {"send", "abort"}
               PROVE  ~closed /\ Len(chan) < Cardinality(FQDN)
    BY DEF SendIsSafe
  <2>1. ~closed
    BY DEF ResolverInv, PhasesOrdered
  <2> DEFINE T == {g \in FQDN : pc[g] \in HasSent}
  <2>2. T \subseteq FQDN /\ T # FQDN
    BY DEF HasSent
  <2>3. /\ Cardinality(T) <= Cardinality(FQDN) /\ Cardinality(T) # Cardinality(FQDN)
        /\ Cardinality(T) \in Nat /\ Cardinality(FQDN) \in Nat
    BY <2>2, FQDNAssumption, FS_Subset, FS_CardinalityType
  <2>4. Len(chan) + Len(final) = Cardinality(T)
    BY DEF ResolverInv, CountersExact, CountAt
  <2>5. Len(chan) \in Nat /\ Len(final) \in Nat
    BY DEF ResolverInv, TypeOK
  <2> HIDE DEF T
  <2> QED
    BY <2>1, <2>3, <2>4, <2>5
<1> QED
  BY <1>1, ResolverInvariance, PTL

\* When Resolve returns, its goroutines have ended and no slot is taken.
THEOREM ResolverNothingLeftBehind == Spec => []NothingLeftBehind
<1>1. ResolverInv => NothingLeftBehind
  <2> SUFFICES ASSUME ResolverInv, caller = "returned"
               PROVE  sem = 0 /\ \A f \in FQDN : pc[f] = "done"
    BY DEF NothingLeftBehind
  <2>1. \A f \in FQDN : pc[f] = "done"
    BY DEF ResolverInv, PhasesOrdered
  <2>2. CountAt(pc, HoldsSlot) = 0
    BY <2>1, CountType DEF HoldsSlot
  <2> QED
    BY <2>1, <2>2 DEF ResolverInv, CountersExact
<1> QED
  BY <1>1, ResolverInvariance, PTL

-----------------------------------------------------------------------------
(***************************************************************************)
(* One result per name.  The results that have arrived, collected or still *)
(* in the channel, are kept in one list, which Send extends and Collect    *)
(* leaves as it is; its elements correspond one to one to the goroutines   *)
(* that have sent.                                                         *)
(***************************************************************************)
Arrived ==
  [k \in 1 .. Len(final) + Len(chan) |->
     IF k <= Len(final) THEN final[k] ELSE chan[k - Len(final)]]

ResultsMatch ==
  /\ \A f \in FQDN : outcome[f].fqdn = f
  /\ \A k \in DOMAIN Arrived :
       /\ pc[Arrived[k].fqdn] \in HasSent
       /\ Arrived[k] = outcome[Arrived[k].fqdn]
  /\ \A k, l \in DOMAIN Arrived : Arrived[k].fqdn = Arrived[l].fqdn => k = l
  /\ \A f \in FQDN : pc[f] \in HasSent => \E k \in DOMAIN Arrived : Arrived[k].fqdn = f

\* Every element of the list is a result.
LEMMA ArrivedType ==
  ASSUME TypeOK
  PROVE  /\ DOMAIN Arrived = 1 .. Len(final) + Len(chan)
         /\ \A k \in DOMAIN Arrived : Arrived[k] \in Result /\ Arrived[k].fqdn \in FQDN
<1>1. chan \in Seq(Result) /\ final \in Seq(Result)
  BY DEF TypeOK
<1>2. Len(chan) \in Nat /\ Len(final) \in Nat
  BY <1>1
<1>3. DOMAIN Arrived = 1 .. Len(final) + Len(chan)
  BY DEF Arrived
<1>4. ASSUME NEW k \in DOMAIN Arrived
      PROVE  Arrived[k] \in Result
  <2>1. CASE k <= Len(final)
    <3>1. k \in 1 .. Len(final)
      BY <1>2, <1>3, <1>4, <2>1
    <3> QED
      BY <1>1, <1>3, <1>4, <2>1, <3>1 DEF Arrived
  <2>2. CASE ~(k <= Len(final))
    <3>1. k - Len(final) \in 1 .. Len(chan)
      BY <1>2, <1>3, <1>4, <2>2
    <3> QED
      BY <1>1, <1>3, <1>4, <2>2, <3>1 DEF Arrived
  <2> QED
    BY <2>1, <2>2
<1> QED
  BY <1>3, <1>4 DEF Result

\* A step that adds no result to the list, changes no outcome of a goroutine
\* that has sent and moves no goroutine across its send keeps the list right.
LEMMA QuietStep ==
  ASSUME TypeOK, ResultsMatch, Arrived' = Arrived,
         \A f \in FQDN : outcome'[f].fqdn = f,
         \A f \in FQDN : pc[f] \in HasSent => outcome'[f] = outcome[f],
         \A f \in FQDN : pc'[f] \in HasSent <=> pc[f] \in HasSent
  PROVE  ResultsMatch'
<1>1. \A k \in DOMAIN Arrived : Arrived[k].fqdn \in FQDN
  BY ArrivedType
<1>2. \A k \in DOMAIN Arrived : Arrived[k] = outcome'[Arrived[k].fqdn]
  BY <1>1 DEF ResultsMatch
<1>3. \A k \in DOMAIN Arrived : pc'[Arrived[k].fqdn] \in HasSent
  BY <1>1 DEF ResultsMatch
<1>4. HasSent' = HasSent
  BY DEF HasSent
<1> QED
  BY <1>2, <1>3, <1>4 DEF ResultsMatch

\* Collecting moves a result from the channel to the caller's list, at the
\* same place among the results that have arrived.
LEMMA CollectKeepsArrived ==
  ASSUME TypeOK, Collect
  PROVE  Arrived' = Arrived
<1>1. /\ chan \in Seq(Result) /\ final \in Seq(Result) /\ chan # <<>>
      /\ final' = Append(final, Head(chan)) /\ chan' = Tail(chan)
  BY DEF TypeOK, Collect
<1>2. /\ Len(chan) \in Nat /\ Len(final) \in Nat /\ Len(chan) > 0
      /\ Len(final') = Len(final) + 1 /\ Len(chan') = Len(chan) - 1
  BY <1>1
<1>3. 1 .. Len(final') + Len(chan') = 1 .. Len(final) + Len(chan)
  BY <1>2
<1>4. ASSUME NEW k \in 1 .. Len(final) + Len(chan)
      PROVE  (IF k <= Len(final') THEN final'[k] ELSE chan'[k - Len(final')])
               = (IF k <= Len(final) THEN final[k] ELSE chan[k - Len(final)])
  <2>1. CASE k <= Len(final)
    <3>1. final'[k] = final[k]
      BY <1>1, <1>2, <1>4, <2>1
    <3> QED
      BY <1>2, <1>4, <2>1, <3>1
  <2>2. CASE k = Len(final) + 1
    <3>1. final'[k] = chan[1]
      BY <1>1, <1>2, <2>2
    <3> QED
      BY <1>2, <1>4, <2>2, <3>1
  <2>3. CASE k > Len(final) + 1
    <3>1. k - (Len(final) + 1) \in 1 .. Len(chan) - 1
      BY <1>2, <1>4, <2>3
    <3>2. chan'[k - (Len(final) + 1)] = chan[(k - (Len(final) + 1)) + 1]
      BY <1>1, <1>2, <3>1
    <3>3. (k - (Len(final) + 1)) + 1 = k - Len(final)
      BY <1>2, <1>4
    <3> QED
      BY <1>2, <1>4, <2>3, <3>2, <3>3
  <2> QED
    BY <1>2, <1>4, <2>1, <2>2, <2>3
<1> QED
  BY <1>3, <1>4 DEF Arrived

\* Sending adds the goroutine's outcome at the end.
LEMMA SendExtendsArrived ==
  ASSUME TypeOK, NEW f \in FQDN, Send(f)
  PROVE  \E n \in Nat :
           /\ DOMAIN Arrived = 1 .. n
           /\ DOMAIN Arrived' = 1 .. n + 1
           /\ \A k \in 1 .. n : Arrived'[k] = Arrived[k]
           /\ Arrived'[n + 1] = outcome[f]
<1>1. /\ chan \in Seq(Result) /\ final \in Seq(Result) /\ outcome[f] \in Result
      /\ chan' = Append(chan, outcome[f]) /\ final' = final
  BY DEF TypeOK, Send
<1>2. /\ Len(chan) \in Nat /\ Len(final) \in Nat
      /\ Len(final') = Len(final) /\ Len(chan') = Len(chan) + 1
  BY <1>1
<1> DEFINE n == Len(final) + Len(chan)
<1>3. n \in Nat
  BY <1>2
<1>4. DOMAIN Arrived = 1 .. n
  BY DEF Arrived
<1>5. DOMAIN Arrived' = 1 .. n + 1
  <2>1. DOMAIN Arrived' = 1 .. Len(final') + Len(chan')
    BY DEF Arrived
  <2> QED
    BY <1>2, <2>1
<1>6. ASSUME NEW k \in 1 .. n + 1
      PROVE  Arrived'[k] = IF k <= Len(final) THEN final[k] ELSE chan'[k - Len(final)]
  <2>1. k \in 1 .. Len(final') + Len(chan')
    BY <1>2, <1>6
  <2>2. Arrived'[k] = IF k <= Len(final') THEN final'[k] ELSE chan'[k - Len(final')]
    BY <2>1 DEF Arrived
  <2> QED
    BY <1>1, <1>2, <2>2
<1>7. ASSUME NEW k \in 1 .. n
      PROVE  Arrived'[k] = Arrived[k]
  <2>1. k \in 1 .. n + 1
    BY <1>3, <1>7
  <2>2. Arrived[k] = IF k <= Len(final) THEN final[k] ELSE chan[k - Len(final)]
    BY <1>7 DEF Arrived
  <2>3. ~(k <= Len(final)) => chan'[k - Len(final)] = chan[k - Len(final)]
    <3>1. ~(k <= Len(final)) => k - Len(final) \in 1 .. Len(chan)
      BY <1>2, <1>7
    <3> QED
      BY <1>1, <3>1
  <2> QED
    BY <1>6, <2>1, <2>2, <2>3
<1>8. Arrived'[n + 1] = outcome[f]
  <2>1. n + 1 \in 1 .. n + 1 /\ ~(n + 1 <= Len(final)) /\ (n + 1) - Len(final) = Len(chan) + 1
    BY <1>2
  <2>2. chan'[Len(chan) + 1] = outcome[f]
    BY <1>1, <1>2
  <2>3. Arrived'[n + 1] = chan'[(n + 1) - Len(final)]
    BY <1>6, <2>1
  <2> QED
    BY <2>1, <2>2, <2>3
<1> HIDE DEF n
<1> QED
  BY <1>3, <1>4, <1>5, <1>7, <1>8

\* The send of a goroutine keeps the list right.
LEMMA SendMatch ==
  ASSUME TypeOK, ResultsMatch, NEW f \in FQDN, Send(f)
  PROVE  ResultsMatch'
<1>0. pc[f] \notin HasSent
  BY DEF Send, HasSent
<1>1. /\ \A g \in FQDN : g # f => pc'[g] = pc[g]
      /\ pc'[f] \in HasSent
      /\ outcome' = outcome
  BY DEF TypeOK, Send, Goto, HasSent
<1>2. PICK n \in Nat :
        /\ DOMAIN Arrived = 1 .. n
        /\ DOMAIN Arrived' = 1 .. n + 1
        /\ \A k \in 1 .. n : Arrived'[k] = Arrived[k]
        /\ Arrived'[n + 1] = outcome[f]
  BY SendExtendsArrived
<1>3. \A k \in 1 .. n : Arrived[k].fqdn \in FQDN \ {f}
  BY <1>0, <1>2, ArrivedType DEF ResultsMatch
<1>4. Arrived'[n + 1].fqdn = f
  BY <1>2 DEF ResultsMatch
<1>5. \A k \in 1 .. n + 1 : k \in 1 .. n \/ k = n + 1
  BY <1>2
<1>6. 1 .. n \subseteq 1 .. n + 1 /\ n + 1 \in 1 .. n + 1
  BY <1>2
<1>7. \A g \in FQDN : outcome'[g].fqdn = g
  BY <1>1 DEF ResultsMatch
<1>8. ASSUME NEW k \in 1 .. n + 1
      PROVE  /\ pc'[Arrived'[k].fqdn] \in HasSent
             /\ Arrived'[k] = outcome'[Arrived'[k].fqdn]
  <2>1. CASE k \in 1 .. n
    BY <1>1, <1>2, <1>3, <2>1 DEF ResultsMatch
  <2>2. CASE k = n + 1
    BY <1>1, <1>2, <1>4, <2>2
  <2> QED
    BY <1>5, <1>8, <2>1, <2>2
<1>9. ASSUME NEW k \in 1 .. n + 1, NEW l \in 1 .. n + 1, Arrived'[k].fqdn = Arrived'[l].fqdn
      PROVE  k = l
  <2>1. CASE k \in 1 .. n /\ l \in 1 .. n
    BY <1>2, <1>9, <2>1 DEF ResultsMatch
  <2>2. CASE k \in 1 .. n /\ l = n + 1
    BY <1>2, <1>3, <1>4, <1>9, <2>2
  <2>3. CASE k = n + 1 /\ l \in 1 .. n
    BY <1>2, <1>3, <1>4, <1>9, <2>3
  <2> QED
    BY <1>5, <1>9, <2>1, <2>2, <2>3
<1>10. ASSUME NEW g \in FQDN, pc'[g] \in HasSent
       PROVE  \E k \in 1 .. n + 1 : Arrived'[k].fqdn = g
  <2>1. CASE g = f
    BY <1>4, <1>6, <2>1
  <2>2. CASE g # f
    <3>1. pc[g] \in HasSent
      BY <1>1, <1>10, <2>2
    <3>2. PICK k \in 1 .. n : Arrived[k].fqdn = g
      BY <1>2, <3>1 DEF ResultsMatch
    <3> QED
      BY <1>2, <1>6, <3>2
  <2> QED
    BY <2>1, <2>2
<1> QED
  BY <1>2, <1>7, <1>8, <1>9, <1>10 DEF ResultsMatch, HasSent

\* Every other step keeps the list right.
LEMMA MatchStep ==
  ASSUME ResolverInv, ResultsMatch, [Next]_vars
  PROVE  ResultsMatch'
<1>0. /\ TypeOK
      /\ pc \in [FQDN -> Labels] /\ outcome \in [FQDN -> Result]
      /\ \A f \in FQDN : outcome[f].fqdn = f
  BY DEF ResolverInv, TypeOK, ResultsMatch
<1>1. ASSUME NEW f \in FQDN, NEW to, Goto(f, to), to \in HasSent <=> pc[f] \in HasSent
      PROVE  \A g \in FQDN : pc'[g] \in HasSent <=> pc[g] \in HasSent
  BY <1>0, <1>1 DEF Goto
<1>2. chan' = chan /\ final' = final => Arrived' = Arrived
  BY DEF Arrived
<1>3. ASSUME NEW f \in FQDN, Acquire(f) \/ Release(f) \/ Finish(f) \/ Spawn(f)
      PROVE  ResultsMatch'
  <2>1. /\ chan' = chan /\ final' = final /\ outcome' = outcome
        /\ \E to \in Labels : Goto(f, to) /\ (to \in HasSent <=> pc[f] \in HasSent)
    BY <1>3 DEF Acquire, Release, Finish, Spawn, HasSent, Labels
  <2> QED
    BY <1>0, <1>1, <1>2, <2>1, QuietStep
<1>4. ASSUME NEW f \in FQDN, NEW err,
             (Abort(f) /\ err = Canceled) \/ Lookup(f, err)
      PROVE  ResultsMatch'
  <2>1. /\ chan' = chan /\ final' = final
        /\ outcome' = [outcome EXCEPT ![f] = NewDNSResolverResult(f, err)]
        /\ pc[f] \notin HasSent
        /\ \E to \in Labels : Goto(f, to) /\ to \notin HasSent
    BY <1>4 DEF Abort, Lookup, HasSent, Labels
  <2>2. NewDNSResolverResult(f, err).fqdn = f
    BY DEF NewDNSResolverResult
  <2>3. \A g \in FQDN : outcome'[g] = IF g = f THEN NewDNSResolverResult(f, err) ELSE outcome[g]
    BY <1>0, <2>1
  <2>4. /\ \A g \in FQDN : outcome'[g].fqdn = g
        /\ \A g \in FQDN : pc[g] \in HasSent => outcome'[g] = outcome[g]
    BY <1>0, <2>1, <2>2, <2>3
  <2> QED
    BY <1>0, <1>1, <1>2, <2>1, <2>4, QuietStep
<1>5. CASE Spawned \/ Return \/ Close \/ Cancel \/ UNCHANGED vars
  <2>1. chan' = chan /\ final' = final /\ outcome' = outcome /\ pc' = pc
    BY <1>5 DEF Spawned, Return, Close, Cancel, vars
  <2> QED
    BY <1>0, <1>2, <2>1, QuietStep
<1>6. CASE Collect
  <2>1. outcome' = outcome /\ pc' = pc
    BY <1>6 DEF Collect
  <2> QED
    BY <1>0, <1>6, <2>1, CollectKeepsArrived, QuietStep
<1> QED
  BY <1>0, <1>3, <1>4, <1>5, <1>6, SendMatch DEF Next, Caller, Goroutine

\* In every behaviour the list is right.
THEOREM ResultsInvariance == Spec => [](ResolverInv /\ ResultsMatch)
<1>1. Init => ResultsMatch
  <2> SUFFICES ASSUME Init PROVE ResultsMatch
    OBVIOUS
  <2>1. DOMAIN Arrived = {}
    BY DEF Init, Arrived
  <2>2. \A f \in FQDN : outcome[f].fqdn = f /\ pc[f] \notin HasSent
    BY DEF Init, NewDNSResolverResult, HasSent
  <2> QED
    BY <2>1, <2>2 DEF ResultsMatch
<1>2. ResolverInv /\ ResultsMatch /\ [Next]_vars => ResultsMatch'
  BY MatchStep
<1> QED
  BY <1>1, <1>2, ResolverInvariance, PTL DEF Spec

\* What Resolve returns are the outcomes of its goroutines, one for each.
LEMMA FinalResults ==
  ASSUME ResolverInv, ResultsMatch, caller = "returned"
  PROVE  /\ \A k \in DOMAIN final :
              final[k].fqdn \in FQDN /\ final[k] = outcome[final[k].fqdn]
         /\ \A f \in FQDN :
              \E k \in DOMAIN final :
                /\ final[k] = outcome[f]
                /\ \A l \in DOMAIN final : final[l].fqdn = f => l = k
<1>1. chan = <<>> /\ final \in Seq(Result) /\ \A f \in FQDN : pc[f] = "done"
  BY DEF ResolverInv, TypeOK, PhasesOrdered
<1>2. DOMAIN final = DOMAIN Arrived /\ \A k \in DOMAIN final : Arrived[k] = final[k]
  BY <1>1 DEF Arrived
<1>3. \A k \in DOMAIN Arrived : Arrived[k].fqdn \in FQDN
  BY ArrivedType DEF ResolverInv
<1>4. ASSUME NEW f \in FQDN
      PROVE  \E k \in DOMAIN final :
               /\ final[k] = outcome[f]
               /\ \A l \in DOMAIN final : final[l].fqdn = f => l = k
  <2>1. PICK k \in DOMAIN Arrived : Arrived[k].fqdn = f
    BY <1>1 DEF ResultsMatch, HasSent
  <2>2. final[k] = outcome[f]
    BY <1>2, <2>1 DEF ResultsMatch
  <2>3. \A l \in DOMAIN final : final[l].fqdn = f => l = k
    BY <1>2, <2>1 DEF ResultsMatch
  <2> QED
    BY <1>2, <2>2, <2>3
<1> QED
  BY <1>2, <1>3, <1>4 DEF ResultsMatch

\* When Resolve returns, every name has exactly one result in the list, the
\* one its goroutine produced.
THEOREM ResolverExactlyOneResult == Spec => []ExactlyOneResult
<1>1. ResolverInv /\ ResultsMatch => ExactlyOneResult
  BY FinalResults DEF ExactlyOneResult
<1> QED
  BY <1>1, ResultsInvariance, PTL

-----------------------------------------------------------------------------
(***************************************************************************)
(* The aggregate.                                                          *)
(***************************************************************************)

\* Among failures there is a first one of the highest priority, and it is the
\* one reported.
LEMMA WorstResultIsWorst ==
  ASSUME NEW results \in Seq(Result), Failed(results) # {}
  PROVE  /\ WorstResult(results) \in Failed(results)
         /\ \A l \in Failed(results) :
              Priority(results[l].reason) <= Priority(results[WorstResult(results)].reason)
<1> DEFINE P(k) == Priority(results[k].reason)
           Priorities == {P(k) : k \in Failed(results)}
<1>1. \A k : P(k) \in Int /\ P(k) <= 100
  BY DEF Priority
<1> HIDE DEF P
<1>2. PICK p \in Priorities : \A q \in Priorities : q <= p
  <2>1. Priorities \in SUBSET Int /\ Priorities # {} /\ \A q \in Priorities : q <= 100
    BY <1>1
  <2>2. PICK n \in Int : n = 100
    OBVIOUS
  <2>3. \A q \in Priorities : q <= n
    BY <2>1, <2>2
  <2> HIDE DEF Priorities
  <2> QED
    BY <2>1, <2>3, GreatestInteger
<1> DEFINE Worst == {k \in Failed(results) : P(k) = p}
<1>3. PICK first \in Worst : \A l \in Worst : first <= l
  <2>1. Worst \in SUBSET Nat /\ Worst # {}
    BY DEF Failed
  <2> HIDE DEF Worst
  <2> QED
    BY <2>1, LeastNatural
<1>4. \A l \in Failed(results) : P(l) <= P(first)
  BY <1>2, <1>3
<1>5. \A l \in Failed(results) : P(l) < P(first) \/ (P(l) = P(first) /\ first <= l)
  <2>1. ASSUME NEW l \in Failed(results)
        PROVE  P(l) < P(first) \/ (P(l) = P(first) /\ first <= l)
    <3>1. P(l) <= P(first) /\ P(l) \in Int /\ P(first) \in Int
      BY <1>1, <1>4
    <3>2. P(l) = P(first) => first <= l
      BY <1>3
    <3> QED
      BY <3>1, <3>2
  <2> QED
    BY <2>1
<1>6. first \in Failed(results)
  BY <1>3
<1> DEFINE w == WorstResult(results)
<1>7. w \in Failed(results)
      /\ \A l \in Failed(results) : P(l) < P(w) \/ (P(l) = P(w) /\ w <= l)
  <2>1. \E k \in Failed(results) :
          \A l \in Failed(results) : P(l) < P(k) \/ (P(l) = P(k) /\ k <= l)
    BY <1>5, <1>6
  <2>2. w = CHOOSE k \in Failed(results) :
              \A l \in Failed(results) : P(l) < P(k) \/ (P(l) = P(k) /\ k <= l)
    BY DEF WorstResult, P
  <2> QED
    BY <2>1, <2>2, Zenon
<1> HIDE DEF w
<1>8. \A l \in Failed(results) : P(l) <= P(w)
  BY <1>1, <1>7
<1> QED
  BY <1>7, <1>8 DEF P, w

\* The aggregate status and the reason the message reports depend only on what
\* the lookups returned, for any order in which the results arrived.
THEOREM ResolverAggregateExact == Spec => []AggregateExact
<1>1. ResolverInv /\ ResultsMatch => AggregateExact
  <2> DEFINE ok == {f \in FQDN : outcome[f].reason = "Success"}
             status == AggregatedResolutionStatus(final)
             worst == final[WorstResult(final)]
  <2> SUFFICES ASSUME ResolverInv, ResultsMatch, caller = "returned"
               PROVE  /\ status = "Success" <=> ok = FQDN
                      /\ status = "Failure" <=> ok = {} /\ FQDN # {}
                      /\ \A f \in FQDN \ ok :
                           /\ worst \in {outcome[g] : g \in FQDN \ ok}
                           /\ Priority(outcome[f].reason) <= Priority(worst.reason)
    BY DEF AggregateExact
  <2>1. /\ \A k \in DOMAIN final :
             final[k].fqdn \in FQDN /\ final[k] = outcome[final[k].fqdn]
        /\ \A f \in FQDN : \E k \in DOMAIN final : final[k] = outcome[f]
    BY FinalResults
  <2>2. /\ Succeeded(final) = DOMAIN final <=> ok = FQDN
        /\ Succeeded(final) = {} <=> ok = {}
        /\ DOMAIN final = {} <=> FQDN = {}
    <3>1. Succeeded(final) = DOMAIN final <=> ok = FQDN
      BY <2>1 DEF Succeeded
    <3>2. Succeeded(final) = {} <=> ok = {}
      BY <2>1 DEF Succeeded
    <3>3. DOMAIN final = {} <=> FQDN = {}
      BY <2>1
    <3> QED
      BY <3>1, <3>2, <3>3
  <2>3. /\ status = "Success" <=> Succeeded(final) = DOMAIN final
        /\ status = "Failure" <=> DOMAIN final # {} /\ Succeeded(final) = {}
    BY DEF AggregatedResolutionStatus
  <2>4. ASSUME NEW f \in FQDN \ ok
        PROVE  /\ worst \in {outcome[g] : g \in FQDN \ ok}
               /\ Priority(outcome[f].reason) <= Priority(worst.reason)
    <3>1. PICK k \in DOMAIN final : final[k] = outcome[f]
      BY <2>1
    <3>2. k \in Failed(final)
      BY <3>1 DEF Failed, Succeeded
    <3>3. final \in Seq(Result)
      BY DEF ResolverInv, TypeOK
    <3>4. WorstResult(final) \in Failed(final)
      BY <3>2, <3>3, WorstResultIsWorst
    <3>5. worst \in {outcome[g] : g \in FQDN \ ok}
      BY <2>1, <3>4 DEF Failed, Succeeded
    <3> QED
      BY <3>1, <3>2, <3>3, <3>5, WorstResultIsWorst
  <2> QED
    BY <2>2, <2>3, <2>4
<1> QED
  BY <1>1, ResultsInvariance, PTL

=============================================================================
