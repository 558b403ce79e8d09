-------------------------- MODULE ReconcilerProofs --------------------------
(***************************************************************************)
(* Proofs about Reconciler, for any specs, addresses and answers of DNS    *)
(* and for any number of edits, drifts and failures.                       *)
(*                                                                         *)
(* NeverForgotten holds for either of two reasons.  While every policy has *)
(* rules, whatever the cache holds is scheduled (CacheIsScheduled).  With  *)
(* egress: [] it is about the moment when a round ends with nothing left   *)
(* to do, which the code decides by a copy of the policy that may be old.  *)
(* So the invariant says how the copies relate to the policy: a copy that  *)
(* counts as fresh is the current version (CopiesCurrent), an older one of *)
(* the same policy has a lower generation unless its spec is the same      *)
(* (VersionsOrdered), and while a round works on a copy that asks for no   *)
(* rules although the policy by now does, another round is on its way      *)
(* (EmptyIsCovered).  That takes a watch that is never interrupted.        *)
(***************************************************************************)
EXTENDS Reconciler, FiniteSetTheorems, TLAPS

\* What has not been outdated by a write is the current version.
CopiesCurrent ==
  /\ npFresh => npCache = np
  /\ mnpFresh => mnpCache = mnp
  /\ snapFresh /\ pc # "idle" => snap = np

\* c is an earlier version of np, or one of another incarnation.
EarlierVersion(c) ==
  c # Nil =>
    /\ c.uid <= created
    /\ np # Nil /\ np.uid = c.uid =>
         /\ c.generation <= np.generation
         /\ c.generation = np.generation => c.spec = np.spec

VersionsOrdered ==
  /\ np # Nil => np.uid <= created /\ np.status.observedGeneration <= np.generation
  /\ EarlierVersion(npCache)
  /\ EarlierVersion(snap)

\* What a round carries along fits the copy it works on.
RoundConsistent ==
  /\ pc \in {"emptyStatus", "delete"} => snap.spec = Empty
  /\ pc \in {"apply", "status", "emptyStatus"} =>
       /\ work.ledger \ work.fresh \subseteq snap.status.ledger
       /\ work.fresh \subseteq work.ledger

\* Another round will come.
Pending == queued \/ timer \/ EventDue

EmptyIsCovered ==
  /\ pc # "idle" /\ snap.spec = Empty
  /\ np # Nil /\ np.spec # Empty
  => Pending

CacheIsScheduled == npCache # Nil => queued \/ timer \/ pc # "idle"

ReconcilerInv ==
  /\ TypeOK
  /\ CopiesCurrent
  /\ VersionsOrdered
  /\ RoundConsistent
  /\ ~MayRelist => EmptyIsCovered /\ NeverForgotten
  /\ Empty \notin Specs => CacheIsScheduled

-----------------------------------------------------------------------------
(***************************************************************************)
(* Types.                                                                  *)
(***************************************************************************)

\* The status a round computes is a status.
LEMMA NewStatusType ==
  ASSUME TypeOK, pc # "idle"
  PROVE  NewStatus \in Status
<1>1. snap \in NetworkPolicy
  BY DEF TypeOK
<1>2. snap.generation \in Nat
  BY <1>1 DEF NetworkPolicy
<1>3. work.ledger \in SUBSET Address /\ work.fresh \in SUBSET Address /\ work.ready \in ReadyReasons
  BY DEF TypeOK
<1>4. Cardinality(work.ledger) \in Nat
  BY <1>3, AddressAssumption, FS_Subset, FS_CardinalityType
<1> QED
  BY <1>2, <1>3, <1>4 DEF NewStatus, Status

\* So is the MultiNetworkPolicy it asks for.
LEMMA DesiredType ==
  ASSUME TypeOK, pc # "idle"
  PROVE  Desired \in MultiNetworkPolicy
<1>1. snap \in NetworkPolicy
  BY DEF TypeOK
<1>2. snap.uid \in Nat /\ snap.spec \in Specs /\ snap.labels \in {0, 1}
  BY <1>1 DEF NetworkPolicy
<1>3. work.ledger \in SUBSET Address
  BY DEF TypeOK
<1> QED
  BY <1>2, <1>3 DEF Desired, MultiNetworkPolicy

LEMMA TypeInit == Init => TypeOK
<1> SUFFICES ASSUME Init PROVE TypeOK
  OBVIOUS
<1>1. /\ npFresh \in BOOLEAN /\ mnpFresh \in BOOLEAN /\ snapFresh \in BOOLEAN
      /\ queued \in BOOLEAN /\ timer \in BOOLEAN
  BY Zenon DEF Init
<1>2. work \in [ledger : SUBSET Address, fresh : SUBSET Address, ready : ReadyReasons]
  BY DEF Init, NoWork, ReadyReasons
<1> QED
  BY <1>1, <1>2, BoundsAssumption DEF Init, TypeOK

\* Whichever way a round ends, the worker is idle with nothing in its hands.
LEMMA EndTypes ==
  ASSUME TypeOK, Done \/ RequeueAfter \/ Failed
  PROVE  /\ pc' = "idle" /\ snap' = Nil /\ work' = NoWork
         /\ work' \in [ledger : SUBSET Address, fresh : SUBSET Address, ready : ReadyReasons]
         /\ queued' \in BOOLEAN /\ timer' \in BOOLEAN
<1>1. pc' = "idle" /\ snap' = Nil /\ work' = NoWork
  BY Zenon DEF Done, RequeueAfter, Failed, Leave
<1>2. queued' \in BOOLEAN /\ timer' \in BOOLEAN
  BY Zenon DEF Done, RequeueAfter, Failed, TypeOK
<1> QED
  BY <1>1, <1>2 DEF NoWork, ReadyReasons

\* A failure is counted, within the bound.
LEMMA FaultType ==
  ASSUME TypeOK, Fault \/ UNCHANGED faults
  PROVE  faults' \in 0..MaxFaults
  BY BoundsAssumption DEF Fault, TypeOK

\* The status write, in all its outcomes, keeps the types.
LEMMA StatusTypes ==
  ASSUME TypeOK, pc # "idle", StatusSucceeds \/ StatusFails
  PROVE  /\ np' \in NetworkPolicy \cup {Nil}
         /\ npFresh' \in BOOLEAN /\ snapFresh' \in BOOLEAN /\ npCache' = npCache
         /\ faults' \in 0..MaxFaults
<1>1. UNCHANGED policy \/ (StatusAccepted /\ StoreStatus)
  BY Zenon DEF StatusSucceeds, StatusFails
<1>2. faults' \in 0..MaxFaults
  <2>1. Fault \/ UNCHANGED faults
    BY Zenon DEF StatusSucceeds, StatusFails
  <2> QED
    BY <2>1, FaultType
<1>3. CASE UNCHANGED policy
  BY <1>2, <1>3 DEF policy, TypeOK
<1>4. CASE StatusAccepted /\ StoreStatus
  <2>1. np \in NetworkPolicy
    BY <1>4 DEF StatusAccepted, TypeOK
  <2>2. np' = [np EXCEPT !.status = NewStatus]
    BY <1>4 DEF StoreStatus, WriteNP
  <2>3. np' \in NetworkPolicy
    BY <2>1, <2>2, NewStatusType DEF NetworkPolicy
  <2>4. npFresh' \in BOOLEAN /\ snapFresh' \in BOOLEAN /\ npCache' = npCache
    BY <1>4, Zenon DEF StoreStatus, WriteNP
  <2> QED
    BY <1>2, <2>3, <2>4
<1> QED
  BY <1>1, <1>3, <1>4

LEMMA TypeNext == TypeOK /\ [Next]_vars => TypeOK'
<1> SUFFICES ASSUME TypeOK, [Next]_vars PROVE TypeOK'
  OBVIOUS
<1>1. ASSUME NEW spec \in Specs, UserCreate(spec) PROVE TypeOK'
  <2>1. BlankStatus \in Status
    BY DEF BlankStatus, Status, ReadyReasons
  <2>2. created + 1 \in 0..MaxCreated
    BY <1>1, BoundsAssumption DEF UserCreate, TypeOK
  <2>3. np' \in NetworkPolicy
    BY <1>1, <2>1, <2>2 DEF UserCreate, WriteNP, NetworkPolicy
  <2>4. npFresh' \in BOOLEAN /\ snapFresh' \in BOOLEAN
    BY <1>1, Zenon DEF UserCreate, WriteNP
  <2> QED
    BY <1>1, <2>2, <2>3, <2>4 DEF UserCreate, WriteNP, TypeOK, multi
<1>2. ASSUME NEW spec \in Specs, UserEdit(spec) PROVE TypeOK'
  <2>1. np \in NetworkPolicy
    BY <1>2 DEF UserEdit, TypeOK
  <2>2. np.generation + 1 \in Nat
    BY <2>1 DEF NetworkPolicy
  <2>3. np' = [np EXCEPT !.spec = spec, !.generation = np.generation + 1]
    BY <1>2 DEF UserEdit, WriteNP
  <2>4. np' \in NetworkPolicy
    BY <2>1, <2>2, <2>3 DEF NetworkPolicy
  <2>5. edits' \in 0..MaxEdits
    BY <1>2, BoundsAssumption DEF UserEdit, TypeOK
  <2>6. npFresh' \in BOOLEAN /\ snapFresh' \in BOOLEAN
    BY <1>2, Zenon DEF UserEdit, WriteNP
  <2> QED
    BY <1>2, <2>4, <2>5, <2>6 DEF UserEdit, WriteNP, TypeOK, multi
<1>3. ASSUME UserRelabel PROVE TypeOK'
  <2>1. np \in NetworkPolicy
    BY <1>3 DEF UserRelabel, TypeOK
  <2>2. 1 - np.labels \in {0, 1}
    BY <2>1 DEF NetworkPolicy
  <2>3. np' \in NetworkPolicy
    BY <1>3, <2>1, <2>2 DEF UserRelabel, WriteNP, NetworkPolicy
  <2>4. edits' \in 0..MaxEdits
    BY <1>3, BoundsAssumption DEF UserRelabel, TypeOK
  <2>5. npFresh' \in BOOLEAN /\ snapFresh' \in BOOLEAN
    BY <1>3, Zenon DEF UserRelabel, WriteNP
  <2> QED
    BY <1>3, <2>3, <2>4, <2>5 DEF UserRelabel, WriteNP, TypeOK, multi
<1>4. ASSUME UserDelete PROVE TypeOK'
  <2>1. npFresh' \in BOOLEAN /\ snapFresh' \in BOOLEAN
    BY <1>4, Zenon DEF UserDelete, WriteNP
  <2> QED
    BY <1>4, <2>1 DEF UserDelete, WriteNP, TypeOK, multi, bounds
<1>5. ASSUME Drift PROVE TypeOK'
  <2>1. drifts' \in 0..MaxDrifts
    BY <1>5, BoundsAssumption DEF Drift, TypeOK
  <2>2. mnp' \in MultiNetworkPolicy \cup {Nil}
    <3>1. CASE mnp # Nil /\ WriteMNP([mnp EXCEPT !.spec = Drifted])
      BY <3>1 DEF WriteMNP, MultiNetworkPolicy, TypeOK
    <3>2. CASE WriteMNP(Nil)
      BY <3>2 DEF WriteMNP
    <3>3. ASSUME NEW owner \in {NoOwner, Stranger},
                 WriteMNP([owner |-> owner, spec |-> Drifted, labels |-> 0, addresses |-> {}])
          PROVE  mnp' \in MultiNetworkPolicy
      BY <3>3 DEF WriteMNP, MultiNetworkPolicy
    <3> QED
      BY <1>5, <3>1, <3>2, <3>3 DEF Drift
  <2>3. mnpFresh' \in BOOLEAN /\ mnpCache' = mnpCache
    BY <1>5, Zenon DEF Drift, WriteMNP
  <2> QED
    BY <1>5, <2>1, <2>2, <2>3 DEF Drift, TypeOK, policy
<1>6. ASSUME CollectGarbage PROVE TypeOK'
  <2>1. mnpFresh' \in BOOLEAN
    BY <1>6, Zenon DEF CollectGarbage, WriteMNP
  <2> QED
    BY <1>6, <2>1 DEF CollectGarbage, WriteMNP, TypeOK, policy, bounds
<1>7. ASSUME SyncNP \/ RelistNP PROVE TypeOK'
  <2>1. npFresh' \in BOOLEAN /\ queued' \in BOOLEAN
    BY <1>7, Zenon DEF SyncNP, RelistNP, SyncCache
  <2> QED
    BY <1>7, <2>1 DEF SyncNP, RelistNP, SyncCache, TypeOK, multi, bounds
<1>8. ASSUME SyncMNP PROVE TypeOK'
  <2>1. mnpFresh' \in BOOLEAN
    BY <1>8, Zenon DEF SyncMNP
  <2> QED
    BY <1>8, <2>1 DEF SyncMNP, TypeOK, policy, bounds
<1>9. ASSUME TimerFires PROVE TypeOK'
  <2>1. timer' \in BOOLEAN /\ queued' \in BOOLEAN
    BY <1>9, Zenon DEF TimerFires
  <2> QED
    BY <1>9, <2>1 DEF TimerFires, TypeOK, policy, multi, bounds
<1>10. ASSUME Begin PROVE TypeOK'
  <2>1. faults' \in 0..MaxFaults
    BY <1>10, FaultType DEF Begin
  <2>2. queued' \in BOOLEAN /\ snapFresh' \in BOOLEAN
    BY <1>10, Zenon DEF Begin, TypeOK
  <2>3. /\ snap' \in NetworkPolicy \cup {Nil}
        /\ pc' \in {"idle", "resolve"}
        /\ pc' # "idle" => snap' # Nil
    BY <1>10 DEF Begin, TypeOK
  <2> QED
    BY <1>10, <2>1, <2>2, <2>3 DEF Begin, TypeOK, multi
<1>11. ASSUME NEW answer \in Answers, NEW kept \in SUBSET Address, Resolve(answer, kept)
       PROVE  TypeOK'
  <2>1. work' \in [ledger : SUBSET Address, fresh : SUBSET Address, ready : ReadyReasons]
    BY <1>11, AnswersAssumption DEF Resolve, ReadyReasons
  <2> QED
    BY <1>11, <2>1 DEF Resolve, TypeOK, policy, multi, bounds
<1>12. ASSUME ResolveEmpty PROVE TypeOK'
  <2>1. CASE Done
    BY <1>12, <2>1, EndTypes DEF ResolveEmpty, TypeOK, policy, multi, bounds
  <2>2. CASE /\ pc' = "emptyStatus"
             /\ work' = [ledger |-> {}, fresh |-> {}, ready |-> "Failure"]
             /\ UNCHANGED <<snap, queued, timer>>
    <3>1. work' \in [ledger : SUBSET Address, fresh : SUBSET Address, ready : ReadyReasons]
      BY <2>2 DEF ReadyReasons
    <3> QED
      BY <1>12, <2>2, <3>1 DEF ResolveEmpty, TypeOK, policy, multi, bounds
  <2> QED
    BY <1>12, <2>1, <2>2 DEF ResolveEmpty
<1>13. ASSUME Apply PROVE TypeOK'
  <2>1. faults' \in 0..MaxFaults
    BY <1>13, FaultType DEF Apply
  <2>2. pc = "apply" /\ \E ready \in ReadyReasons : Applied(ready)
    BY <1>13 DEF Apply, ReadySuccess, ReadyReasons
  <2>3. PICK ready \in ReadyReasons : Applied(ready)
    BY <2>2
  <2>4. work' \in [ledger : SUBSET Address, fresh : SUBSET Address, ready : ReadyReasons]
    BY <2>3 DEF Applied, TypeOK
  <2>5. UNCHANGED multi \/ WriteMNP(Desired)
    BY <1>13, Zenon DEF Apply
  <2>6. /\ mnp' \in MultiNetworkPolicy \cup {Nil} /\ mnpCache' = mnpCache
        /\ mnpFresh' \in BOOLEAN
    <3>1. CASE UNCHANGED multi
      BY <3>1 DEF multi, TypeOK
    <3>2. CASE WriteMNP(Desired)
      <4>1. mnpFresh' \in BOOLEAN
        BY <3>2, Zenon DEF WriteMNP
      <4> QED
        BY <2>2, <3>2, <4>1, DesiredType DEF WriteMNP
    <3> QED
      BY <2>5, <3>1, <3>2
  <2> QED
    BY <2>1, <2>2, <2>3, <2>4, <2>6 DEF Applied, TypeOK, policy
<1>14. ASSUME UpdateStatus PROVE TypeOK'
  <2>1. pc # "idle" /\ (StatusSucceeds \/ StatusFails) /\ (Done \/ RequeueAfter \/ Failed)
    BY <1>14 DEF UpdateStatus
  <2> QED
    BY <1>14, <2>1, StatusTypes, EndTypes DEF UpdateStatus, TypeOK, multi
<1>15. ASSUME UpdateEmptyStatus PROVE TypeOK'
  <2>1. pc # "idle" /\ (StatusSucceeds \/ StatusFails)
    BY <1>15 DEF UpdateEmptyStatus
  <2>2. CASE Failed
    BY <1>15, <2>1, <2>2, StatusTypes, EndTypes DEF UpdateEmptyStatus, TypeOK, multi
  <2>3. CASE pc' = "delete" /\ UNCHANGED <<snap, work, queued, timer>>
    BY <1>15, <2>1, <2>3, StatusTypes DEF UpdateEmptyStatus, TypeOK, multi
  <2> QED
    BY <1>15, <2>2, <2>3 DEF UpdateEmptyStatus
<1>16. ASSUME Delete PROVE TypeOK'
  <2>1. Done \/ RequeueAfter \/ Failed
    BY <1>16, Zenon DEF Delete
  <2>2. faults' \in 0..MaxFaults
    BY <1>16, FaultType DEF Delete
  <2>3. UNCHANGED multi \/ WriteMNP(Nil)
    BY <1>16, Zenon DEF Delete
  <2>4. /\ mnp' \in MultiNetworkPolicy \cup {Nil} /\ mnpCache' = mnpCache
        /\ mnpFresh' \in BOOLEAN
    <3>1. CASE UNCHANGED multi
      BY <3>1 DEF multi, TypeOK
    <3>2. CASE WriteMNP(Nil)
      <4>1. mnpFresh' \in BOOLEAN
        BY <3>2, Zenon DEF WriteMNP
      <4> QED
        BY <3>2, <4>1 DEF WriteMNP
    <3> QED
      BY <2>3, <3>1, <3>2
  <2> QED
    BY <1>16, <2>1, <2>2, <2>4, EndTypes DEF Delete, TypeOK, policy
<1>17. ASSUME Crash PROVE TypeOK'
  <2>1. faults' \in 0..MaxFaults
    BY <1>17, FaultType DEF Crash
  <2>2. /\ queued' \in BOOLEAN /\ timer' \in BOOLEAN
        /\ npFresh' \in BOOLEAN /\ mnpFresh' \in BOOLEAN /\ snapFresh' \in BOOLEAN
    BY <1>17, Zenon DEF Crash
  <2>3. work' \in [ledger : SUBSET Address, fresh : SUBSET Address, ready : ReadyReasons]
    BY <1>17 DEF Crash, Leave, NoWork, ReadyReasons
  <2> QED
    BY <1>17, <2>1, <2>2, <2>3 DEF Crash, Leave, TypeOK
<1>18. CASE UNCHANGED vars
  BY <1>18 DEF vars, TypeOK
<1> QED
  BY <1>1, <1>2, <1>3, <1>4, <1>5, <1>6, <1>7, <1>8, <1>9, <1>10, <1>11, <1>12, <1>13,
     <1>14, <1>15, <1>16, <1>17, <1>18 DEF Next, Worker, User

\* Every object, every copy of one and all that a round carries along keep
\* their types, and a round has a policy to work on.
THEOREM ReconcilerTypeCorrect == Spec => []TypeOK
  BY TypeInit, TypeNext, PTL DEF Spec

-----------------------------------------------------------------------------
(***************************************************************************)
(* The invariant.                                                          *)
(***************************************************************************)

LEMMA InvInit == Init => ReconcilerInv
<1> SUFFICES ASSUME Init PROVE ReconcilerInv
  OBVIOUS
<1>1. TypeOK
  BY TypeInit
<1> QED
  BY <1>1 DEF ReconcilerInv, Init, CopiesCurrent, VersionsOrdered, EarlierVersion,
     RoundConsistent, EmptyIsCovered, NeverForgotten, CacheIsScheduled

\* A new incarnation is an event for whatever the cache holds, if the watch
\* is not interrupted.
LEMMA CreateInv ==
  ASSUME ReconcilerInv, NEW spec \in Specs, UserCreate(spec)
  PROVE  ReconcilerInv'
<1>1. /\ np' = [uid |-> created + 1, generation |-> 1, spec |-> spec, labels |-> 0,
                status |-> BlankStatus]
      /\ npCache' = npCache /\ snap' = snap /\ created' = created + 1
      /\ UNCHANGED <<mnp, mnpCache, mnpFresh, pc, work, queued, timer>>
  BY DEF UserCreate, WriteNP, multi
<1>2. ~npFresh' /\ ~snapFresh'
  BY DEF UserCreate, WriteNP
<1>3. created \in Nat /\ EarlierVersion(npCache) /\ EarlierVersion(snap)
  BY DEF ReconcilerInv, TypeOK, VersionsOrdered
<1>4. /\ npCache \in NetworkPolicy \cup {Nil} /\ snap \in NetworkPolicy \cup {Nil}
  BY DEF ReconcilerInv, TypeOK
<1>5. TypeOK'
  BY TypeNext DEF Next, User, ReconcilerInv
<1>6. CopiesCurrent'
  BY <1>1, <1>2 DEF ReconcilerInv, CopiesCurrent
<1>7. EarlierVersion(npCache)' /\ EarlierVersion(snap)'
  BY <1>1, <1>3, <1>4 DEF EarlierVersion, NetworkPolicy
<1>8. VersionsOrdered'
  BY <1>1, <1>3, <1>7 DEF VersionsOrdered, BlankStatus
<1>9. RoundConsistent'
  BY <1>1 DEF ReconcilerInv, RoundConsistent
<1>10. ~MayRelist /\ np' # Nil => EventDue'
  BY <1>1, <1>2, <1>3, <1>4 DEF EventDue, Event, Recreated, EarlierVersion, NetworkPolicy
<1>11. ~MayRelist => EmptyIsCovered' /\ NeverForgotten'
  BY <1>10 DEF EmptyIsCovered, NeverForgotten, Pending
<1> QED
  BY <1>1, <1>5, <1>6, <1>8, <1>9, <1>11 DEF ReconcilerInv, CacheIsScheduled

\* So is a change of the spec, for it raises the generation.
LEMMA EditInv ==
  ASSUME ReconcilerInv, NEW spec \in Specs, UserEdit(spec)
  PROVE  ReconcilerInv'
<1>1. /\ np \in NetworkPolicy
      /\ np' = [np EXCEPT !.spec = spec, !.generation = np.generation + 1]
      /\ UNCHANGED <<npCache, snap, created, mnp, mnpCache, mnpFresh, pc, work,
                     queued, timer>>
  BY DEF UserEdit, WriteNP, multi, ReconcilerInv, TypeOK
<1>2. ~npFresh' /\ ~snapFresh'
  BY DEF UserEdit, WriteNP
<1>3. /\ np.generation \in Nat /\ np.uid \in Nat /\ np.status = np'.status
      /\ np'.generation = np.generation + 1 /\ np'.uid = np.uid
  BY <1>1 DEF NetworkPolicy
<1>4. /\ npCache \in NetworkPolicy \cup {Nil} /\ snap \in NetworkPolicy \cup {Nil}
      /\ np # Nil
  BY DEF ReconcilerInv, TypeOK, UserEdit
<1>5. TypeOK'
  BY TypeNext DEF Next, User, ReconcilerInv
<1>6. CopiesCurrent'
  BY <1>1, <1>2 DEF ReconcilerInv, CopiesCurrent
<1>7. EarlierVersion(npCache)' /\ EarlierVersion(snap)'
  BY <1>1, <1>3, <1>4 DEF EarlierVersion, NetworkPolicy, ReconcilerInv, VersionsOrdered
<1>8. np.status.observedGeneration \in Nat
  BY <1>1 DEF NetworkPolicy, Status
<1>9. VersionsOrdered'
  BY <1>1, <1>3, <1>4, <1>7, <1>8 DEF ReconcilerInv, VersionsOrdered
<1>10. RoundConsistent'
  BY <1>1 DEF ReconcilerInv, RoundConsistent
<1>11. ~MayRelist /\ np' # Nil => EventDue'
  BY <1>1, <1>2, <1>3, <1>4
     DEF EventDue, Event, Recreated, EarlierVersion, NetworkPolicy, ReconcilerInv, VersionsOrdered
<1>12. ~MayRelist => EmptyIsCovered' /\ NeverForgotten'
  BY <1>11 DEF EmptyIsCovered, NeverForgotten, Pending
<1> QED
  BY <1>1, <1>5, <1>6, <1>9, <1>10, <1>12 DEF ReconcilerInv, CacheIsScheduled

(***************************************************************************)
(* All other steps leave the spec and the generation of np alone, or       *)
(* remove np.  Such a step is no event, and makes no event that is due     *)
(* disappear.                                                              *)
(***************************************************************************)
SameVersion ==
  /\ np' # Nil =>
       /\ np # Nil
       /\ np'.uid = np.uid /\ np'.generation = np.generation /\ np'.spec = np.spec
       /\ np'.status.observedGeneration <= np'.generation
  /\ npFresh' => npFresh /\ np' = np
  /\ snapFresh' => snapFresh /\ np' = np
  /\ npCache' = npCache
  /\ created' = created

LEMMA SameVersionKeeps ==
  ASSUME ReconcilerInv, SameVersion
  PROVE  /\ npFresh' => npCache' = np'
         /\ snapFresh' /\ pc # "idle" => snap = np'
         /\ snap' \in {snap, Nil} => VersionsOrdered'
         /\ np' # Nil /\ EventDue => EventDue'
<1>1. EarlierVersion(npCache)'
  BY DEF SameVersion, ReconcilerInv, VersionsOrdered, EarlierVersion
<1>2. snap' \in {snap, Nil} => EarlierVersion(snap)'
  BY DEF SameVersion, ReconcilerInv, VersionsOrdered, EarlierVersion
<1>3. snap' \in {snap, Nil} => VersionsOrdered'
  BY <1>1, <1>2 DEF SameVersion, ReconcilerInv, VersionsOrdered
<1>4. np' # Nil /\ EventDue => EventDue'
  BY DEF SameVersion, EventDue, Event, Recreated
<1> QED
  BY <1>3, <1>4 DEF SameVersion, ReconcilerInv, CopiesCurrent

\* A step that does not touch np is one of them.
LEMMA PolicyUnchanged ==
  ASSUME ReconcilerInv, UNCHANGED policy, UNCHANGED created
  PROVE  SameVersion
  BY DEF SameVersion, policy, ReconcilerInv, VersionsOrdered

\* While no round begins or ends, it is enough that none is called off.
LEMMA RoundStays ==
  ASSUME ReconcilerInv, SameVersion, TypeOK', RoundConsistent',
         snap' = snap, pc' = "idle" <=> pc = "idle",
         queued \/ timer => queued' \/ timer',
         mnpFresh' => mnpCache' = mnp'
  PROVE  ReconcilerInv'
<1>1. CopiesCurrent' /\ VersionsOrdered'
  BY SameVersionKeeps DEF CopiesCurrent
<1>2. np' # Nil /\ Pending => Pending'
  BY SameVersionKeeps DEF Pending
<1>3. ~MayRelist => EmptyIsCovered'
  BY <1>2 DEF EmptyIsCovered, ReconcilerInv, SameVersion
<1>4. ~MayRelist => NeverForgotten'
  BY <1>2 DEF NeverForgotten, Pending, ReconcilerInv, SameVersion
<1>5. Empty \notin Specs => CacheIsScheduled'
  BY DEF CacheIsScheduled, ReconcilerInv, SameVersion
<1> QED
  BY <1>1, <1>3, <1>4, <1>5 DEF ReconcilerInv

\* When a round ends, another one must be on its way, if the policy has rules.
LEMMA RoundEnds ==
  ASSUME ReconcilerInv, SameVersion, TypeOK',
         snap' = Nil, pc' = "idle",
         ~MayRelist /\ np' # Nil /\ np'.spec # Empty => Pending',
         Empty \notin Specs => queued' \/ timer',
         mnpFresh' => mnpCache' = mnp'
  PROVE  ReconcilerInv'
<1>1. CopiesCurrent' /\ VersionsOrdered'
  BY SameVersionKeeps DEF CopiesCurrent
<1>2. EmptyIsCovered' /\ RoundConsistent'
  BY DEF EmptyIsCovered, RoundConsistent
<1>3. ~MayRelist => NeverForgotten'
  BY DEF NeverForgotten, Pending
<1>4. Empty \notin Specs => CacheIsScheduled'
  BY DEF CacheIsScheduled
<1> QED
  BY <1>1, <1>2, <1>3, <1>4 DEF ReconcilerInv

\* The status write changes nothing but the status, and that of the version
\* the round has worked on.
LEMMA StatusSameVersion ==
  ASSUME ReconcilerInv, pc # "idle", UNCHANGED created, StatusSucceeds \/ StatusFails
  PROVE  SameVersion
<1>1. CASE UNCHANGED policy
  BY <1>1, PolicyUnchanged
<1>2. CASE StatusAccepted /\ StoreStatus
  <2>1. np \in NetworkPolicy /\ np = snap /\ np # Nil
    BY <1>2 DEF StatusAccepted, ReconcilerInv, TypeOK, CopiesCurrent
  <2>2. np' = [np EXCEPT !.status = NewStatus] /\ npCache' = npCache
    BY <1>2 DEF StoreStatus, WriteNP
  <2>3. ~npFresh' /\ ~snapFresh'
    BY <1>2 DEF StoreStatus, WriteNP
  <2>4. np.generation \in Nat
    BY <2>1 DEF NetworkPolicy
  <2>5. /\ np'.uid = np.uid /\ np'.generation = np.generation /\ np'.spec = np.spec
        /\ np'.status.observedGeneration = np.generation
    BY <2>1, <2>2 DEF NetworkPolicy, NewStatus
  <2> QED
    BY <2>1, <2>2, <2>3, <2>4, <2>5 DEF SameVersion
<1> QED
  BY <1>1, <1>2, Zenon DEF StatusSucceeds, StatusFails

-----------------------------------------------------------------------------
LEMMA InvNext == ReconcilerInv /\ [Next]_vars => ReconcilerInv'
<1> SUFFICES ASSUME ReconcilerInv, [Next]_vars PROVE ReconcilerInv'
  OBVIOUS
<1>a. TypeOK /\ TypeOK'
  BY TypeNext DEF ReconcilerInv
<1>b. RoundConsistent /\ (mnpFresh => mnpCache = mnp)
  BY DEF ReconcilerInv, CopiesCurrent
<1>1. ASSUME NEW spec \in Specs, UserCreate(spec) PROVE ReconcilerInv'
  BY <1>1, CreateInv
<1>2. ASSUME NEW spec \in Specs, UserEdit(spec) PROVE ReconcilerInv'
  BY <1>2, EditInv
<1>3. ASSUME UserRelabel PROVE ReconcilerInv'
  <2>1. np \in NetworkPolicy /\ np # Nil
    BY <1>3, <1>a DEF UserRelabel, TypeOK
  <2>2. /\ np' = [np EXCEPT !.labels = 1 - np.labels] /\ npCache' = npCache
        /\ UNCHANGED <<mnp, mnpCache, mnpFresh, pc, snap, work, queued, timer, created>>
    BY <1>3 DEF UserRelabel, WriteNP, multi
  <2>3. ~npFresh' /\ ~snapFresh'
    BY <1>3 DEF UserRelabel, WriteNP
  <2>4. /\ np'.uid = np.uid /\ np'.generation = np.generation /\ np'.spec = np.spec
        /\ np'.status = np.status
    BY <2>1, <2>2 DEF NetworkPolicy
  <2>5. SameVersion
    BY <2>1, <2>2, <2>3, <2>4 DEF SameVersion, ReconcilerInv, VersionsOrdered
  <2>6. RoundConsistent'
    BY <1>b, <2>2 DEF RoundConsistent
  <2> QED
    BY <1>a, <1>b, <2>2, <2>5, <2>6, RoundStays
<1>4. ASSUME UserDelete PROVE ReconcilerInv'
  <2>1. ~npFresh' /\ ~snapFresh'
    BY <1>4 DEF UserDelete, WriteNP
  <2>2. SameVersion
    BY <1>4, <2>1 DEF UserDelete, WriteNP, SameVersion, bounds
  <2>3. RoundConsistent'
    BY <1>4, <1>b DEF UserDelete, RoundConsistent
  <2> QED
    BY <1>4, <1>a, <1>b, <2>2, <2>3, RoundStays DEF UserDelete, multi
<1>5. ASSUME Drift PROVE ReconcilerInv'
  <2>1. SameVersion
    BY <1>5, PolicyUnchanged DEF Drift
  <2>2. ~mnpFresh'
    BY <1>5, Zenon DEF Drift, WriteMNP
  <2>3. RoundConsistent'
    BY <1>5, <1>b DEF Drift, RoundConsistent
  <2> QED
    BY <1>5, <1>a, <2>1, <2>2, <2>3, RoundStays DEF Drift
<1>6. ASSUME CollectGarbage PROVE ReconcilerInv'
  <2>1. SameVersion
    BY <1>6, PolicyUnchanged DEF CollectGarbage, bounds
  <2>2. ~mnpFresh'
    BY <1>6 DEF CollectGarbage, WriteMNP
  <2>3. RoundConsistent'
    BY <1>6, <1>b DEF CollectGarbage, RoundConsistent
  <2> QED
    BY <1>6, <1>a, <2>1, <2>2, <2>3, RoundStays DEF CollectGarbage
<1>7. ASSUME SyncNP \/ RelistNP PROVE ReconcilerInv'
  <2>1. /\ npCache' = np /\ np' = np
        /\ UNCHANGED <<snapFresh, mnp, mnpCache, mnpFresh, pc, snap, work, timer, created>>
    BY <1>7 DEF SyncNP, RelistNP, SyncCache, multi, bounds
  <2>2. /\ npFresh' /\ (queued \/ Event(npCache, np) => queued')
        /\ ~MayRelist /\ Recreated(npCache, np) => queued'
    BY <1>7, Zenon DEF SyncNP, RelistNP, SyncCache
  <2>3. CopiesCurrent' /\ RoundConsistent'
    BY <2>1 DEF ReconcilerInv, CopiesCurrent, RoundConsistent
  <2>4. VersionsOrdered'
    BY <2>1, <1>a DEF ReconcilerInv, VersionsOrdered, EarlierVersion, NetworkPolicy, TypeOK
  <2>5. Pending => Pending'
    BY <2>1, <2>2 DEF Pending, EventDue
  <2>6. ~MayRelist => EmptyIsCovered' /\ NeverForgotten'
    BY <2>1, <2>5 DEF ReconcilerInv, EmptyIsCovered, NeverForgotten, Pending
  <2>7. Empty \notin Specs => CacheIsScheduled'
    BY <2>1, <2>2 DEF ReconcilerInv, CacheIsScheduled, Event
  <2> QED
    BY <1>a, <2>3, <2>4, <2>6, <2>7 DEF ReconcilerInv
<1>8. ASSUME SyncMNP PROVE ReconcilerInv'
  <2>1. SameVersion
    BY <1>8, PolicyUnchanged DEF SyncMNP, bounds
  <2>2. mnpCache' = mnp'
    BY <1>8 DEF SyncMNP
  <2>3. RoundConsistent'
    BY <1>8, <1>b DEF SyncMNP, RoundConsistent
  <2> QED
    BY <1>8, <1>a, <2>1, <2>2, <2>3, RoundStays DEF SyncMNP
<1>9. ASSUME TimerFires PROVE ReconcilerInv'
  <2>1. SameVersion
    BY <1>9, PolicyUnchanged DEF TimerFires, bounds
  <2>2. queued'
    BY <1>9, Zenon DEF TimerFires
  <2>3. RoundConsistent'
    BY <1>9, <1>b DEF TimerFires, RoundConsistent
  <2> QED
    BY <1>9, <1>a, <1>b, <2>1, <2>2, <2>3, RoundStays DEF TimerFires, multi
<1>10. ASSUME Begin PROVE ReconcilerInv'
  <2>1. UNCHANGED <<np, npCache, npFresh, mnp, mnpCache, mnpFresh, work, timer, created>>
    BY <1>10 DEF Begin, multi
  <2>2. CASE npCache = Nil /\ UNCHANGED <<pc, snap, snapFresh>>
    \* A policy the cache does not show yet will be an event.
    <3>1. np # Nil => EventDue
      BY <2>2 DEF EventDue, Event, ReconcilerInv, CopiesCurrent
    <3>2. np' # Nil => Pending'
      BY <3>1, <2>1 DEF Pending, EventDue, Event, Recreated
    <3>3. VersionsOrdered' /\ CopiesCurrent' /\ RoundConsistent'
      BY <2>1, <2>2 DEF ReconcilerInv, VersionsOrdered, EarlierVersion, CopiesCurrent,
         RoundConsistent
    <3> QED
      BY <1>a, <2>1, <2>2, <3>2, <3>3
         DEF ReconcilerInv, EmptyIsCovered, NeverForgotten, Pending, CacheIsScheduled
  <2>3. CASE npCache # Nil /\ pc' = "resolve" /\ snap' = npCache /\ snapFresh' = npFresh
    \* An old copy that asks for no rules is one an event is due for.
    <3>1. CopiesCurrent' /\ RoundConsistent'
      BY <2>1, <2>3 DEF ReconcilerInv, CopiesCurrent, RoundConsistent
    <3>2. VersionsOrdered'
      BY <2>1, <2>3 DEF ReconcilerInv, VersionsOrdered, EarlierVersion
    <3>3. ~MayRelist /\ np # Nil /\ np.spec # Empty /\ npCache.spec = Empty => EventDue
      BY <2>3 DEF EventDue, Event, Recreated, ReconcilerInv, CopiesCurrent, VersionsOrdered,
         EarlierVersion
    <3>4. ~MayRelist => EmptyIsCovered'
      BY <2>1, <2>3, <3>3 DEF EmptyIsCovered, Pending, EventDue, Event, Recreated
    <3>5. NeverForgotten' /\ CacheIsScheduled'
      BY <2>3 DEF NeverForgotten, CacheIsScheduled
    <3> QED
      BY <1>a, <3>1, <3>2, <3>4, <3>5 DEF ReconcilerInv
  <2>4. CASE UNCHANGED <<queued, pc, snap, snapFresh>>
    <3>1. SameVersion
      BY <2>1, <2>4, PolicyUnchanged DEF policy
    <3>2. RoundConsistent'
      BY <1>b, <2>1, <2>4 DEF RoundConsistent
    <3> QED
      BY <1>a, <1>b, <2>1, <2>4, <3>1, <3>2, RoundStays
  <2> QED
    BY <1>10, <2>2, <2>3, <2>4 DEF Begin
<1>11. ASSUME NEW answer \in Answers, NEW kept \in SUBSET Address, Resolve(answer, kept)
       PROVE  ReconcilerInv'
  <2>1. SameVersion
    BY <1>11, PolicyUnchanged DEF Resolve, bounds
  <2>2. RoundConsistent'
    BY <1>11 DEF Resolve, RoundConsistent
  <2> QED
    BY <1>11, <1>a, <1>b, <2>1, <2>2, RoundStays DEF Resolve, multi
<1>12. ASSUME ResolveEmpty PROVE ReconcilerInv'
  <2>1. SameVersion
    BY <1>12, PolicyUnchanged DEF ResolveEmpty, bounds
  <2>2. CASE Done
    <3>1. pc' = "idle" /\ snap' = Nil /\ queued' = queued /\ timer' = timer
      BY <2>2 DEF Done, Leave
    <3>2. ~MayRelist /\ np # Nil /\ np.spec # Empty => Pending
      BY <1>12 DEF ResolveEmpty, ReconcilerInv, EmptyIsCovered
    <3>3. ~MayRelist /\ np' # Nil /\ np'.spec # Empty => Pending'
      BY <1>12, <3>1, <3>2 DEF ResolveEmpty, policy, Pending, EventDue, Event, Recreated
    <3>4. Empty \in Specs
      BY <1>12, <1>a DEF ResolveEmpty, TypeOK, NetworkPolicy
    <3> QED
      BY <1>12, <1>a, <1>b, <2>1, <3>1, <3>3, <3>4, RoundEnds DEF ResolveEmpty, multi
  <2>3. CASE /\ pc' = "emptyStatus"
             /\ work' = [ledger |-> {}, fresh |-> {}, ready |-> "Failure"]
             /\ UNCHANGED <<snap, queued, timer>>
    <3>1. RoundConsistent'
      BY <1>12, <2>3 DEF ResolveEmpty, RoundConsistent
    <3> QED
      BY <1>12, <1>a, <1>b, <2>1, <2>3, <3>1, RoundStays DEF ResolveEmpty, multi
  <2> QED
    BY <1>12, <2>2, <2>3 DEF ResolveEmpty
<1>13. ASSUME Apply PROVE ReconcilerInv'
  <2>1. pc = "apply" /\ \E ready : Applied(ready)
    BY <1>13 DEF Apply
  <2>2. PICK ready : Applied(ready)
    BY <2>1
  <2>3. SameVersion
    BY <2>2, PolicyUnchanged DEF Applied
  <2>4. work'.ledger = work.ledger /\ work'.fresh = work.fresh
    BY <1>a, <2>2 DEF Applied, TypeOK
  <2>5. RoundConsistent'
    BY <1>b, <2>1, <2>2, <2>4 DEF Applied, RoundConsistent
  <2>6. mnpFresh' => mnpCache' = mnp'
    <3>1. UNCHANGED multi \/ WriteMNP(Desired)
      BY <1>13, Zenon DEF Apply
    <3> QED
      BY <1>b, <3>1 DEF multi, WriteMNP
  <2> QED
    BY <1>a, <2>1, <2>2, <2>3, <2>5, <2>6, RoundStays DEF Applied
<1>14. ASSUME UpdateStatus PROVE ReconcilerInv'
  <2>1. /\ pc # "idle" /\ (StatusSucceeds \/ StatusFails)
        /\ UNCHANGED <<created, mnp, mnpCache, mnpFresh>>
    BY <1>14 DEF UpdateStatus, multi
  <2>2. SameVersion
    BY <2>1, StatusSameVersion
  <2>3. pc' = "idle" /\ snap' = Nil /\ (queued' \/ timer')
    BY <1>14 DEF UpdateStatus, RequeueAfter, Failed, Leave
  <2>4. Pending'
    BY <2>3 DEF Pending
  <2> QED
    BY <1>a, <1>b, <2>1, <2>2, <2>3, <2>4, RoundEnds
<1>15. ASSUME UpdateEmptyStatus PROVE ReconcilerInv'
  <2>1. /\ pc = "emptyStatus" /\ (StatusSucceeds \/ StatusFails)
        /\ UNCHANGED <<created, mnp, mnpCache, mnpFresh>>
    BY <1>15 DEF UpdateEmptyStatus, multi
  <2>2. SameVersion
    BY <2>1, StatusSameVersion
  <2>3. CASE Failed
    <3>1. pc' = "idle" /\ snap' = Nil /\ queued'
      BY <2>3 DEF Failed, Leave
    <3>2. Pending'
      BY <3>1 DEF Pending
    <3> QED
      BY <1>a, <1>b, <2>1, <2>2, <3>1, <3>2, RoundEnds
  <2>4. CASE pc' = "delete" /\ UNCHANGED <<snap, work, queued, timer>>
    <3>1. RoundConsistent'
      BY <1>b, <2>1, <2>4 DEF RoundConsistent
    <3> QED
      BY <1>a, <1>b, <2>1, <2>2, <2>4, <3>1, RoundStays
  <2> QED
    BY <1>15, <2>3, <2>4 DEF UpdateEmptyStatus
<1>16. ASSUME Delete PROVE ReconcilerInv'
  <2>1. SameVersion
    BY <1>16, PolicyUnchanged DEF Delete
  <2>2. pc' = "idle" /\ snap' = Nil /\ (queued' \/ (queued' = queued /\ timer' = timer))
    BY <1>16 DEF Delete, Done, Failed, Leave
  <2>3. ~MayRelist /\ np # Nil /\ np.spec # Empty => Pending
    BY <1>16, <1>b DEF Delete, RoundConsistent, ReconcilerInv, EmptyIsCovered
  <2>4. ~MayRelist /\ np' # Nil /\ np'.spec # Empty => Pending'
    BY <1>16, <2>2, <2>3 DEF Delete, policy, Pending, EventDue, Event, Recreated
  <2>6. Empty \in Specs
    BY <1>16, <1>a, <1>b DEF Delete, RoundConsistent, TypeOK, NetworkPolicy
  <2>5. mnpFresh' => mnpCache' = mnp'
    <3>1. UNCHANGED multi \/ WriteMNP(Nil)
      BY <1>16, Zenon DEF Delete
    <3> QED
      BY <1>b, <3>1 DEF multi, WriteMNP
  <2> QED
    BY <1>a, <2>1, <2>2, <2>4, <2>5, <2>6, RoundEnds
<1>17. ASSUME Crash PROVE ReconcilerInv'
  <2>1. /\ pc' = "idle" /\ snap' = Nil /\ np' = np /\ npCache' = np /\ created' = created
        /\ mnp' = mnp /\ mnpCache' = mnp
    BY <1>17 DEF Crash, Leave
  <2>2. np # Nil => queued'
    BY <1>17, Zenon DEF Crash
  <2>3. CopiesCurrent' /\ RoundConsistent' /\ EmptyIsCovered'
    BY <2>1 DEF CopiesCurrent, RoundConsistent, EmptyIsCovered
  <2>4. VersionsOrdered'
    BY <1>a, <2>1 DEF ReconcilerInv, VersionsOrdered, EarlierVersion, NetworkPolicy, TypeOK
  <2>5. NeverForgotten' /\ CacheIsScheduled'
    BY <2>1, <2>2 DEF NeverForgotten, CacheIsScheduled
  <2> QED
    BY <1>a, <2>3, <2>4, <2>5 DEF ReconcilerInv
<1>18. CASE UNCHANGED vars
  <2>1. SameVersion
    BY <1>18, PolicyUnchanged DEF vars, policy
  <2>2. RoundConsistent'
    BY <1>18, <1>b DEF vars, RoundConsistent
  <2> QED
    BY <1>18, <1>a, <1>b, <2>1, <2>2, RoundStays DEF vars
<1> QED
  BY <1>1, <1>2, <1>3, <1>4, <1>5, <1>6, <1>7, <1>8, <1>9, <1>10, <1>11, <1>12, <1>13,
     <1>14, <1>15, <1>16, <1>17, <1>18 DEF Next, Worker, User

\* The invariant holds throughout.
THEOREM ReconcilerInvariance == Spec => []ReconcilerInv
  BY InvInit, InvNext, PTL DEF Spec

-----------------------------------------------------------------------------
(***************************************************************************)
(* The results.                                                            *)
(***************************************************************************)

\* A policy with rules never drops out of the loop, whatever copy of it a
\* round has worked on, whichever call fails, whichever event the predicate
\* holds back and wherever the process dies.  Either no policy has egress: [],
\* as the CRD demands, or the watch is never interrupted.
THEOREM PolicyNeverForgotten ==
  ASSUME Empty \notin Specs \/ ~MayRelist
  PROVE  Spec => []NeverForgotten
<1>1. ReconcilerInv => NeverForgotten
  <2> SUFFICES ASSUME ReconcilerInv, Empty \notin Specs, np # Nil PROVE NeverForgotten
    BY DEF ReconcilerInv, NeverForgotten
  <2>1. npCache = Nil => EventDue
    BY DEF ReconcilerInv, CopiesCurrent, EventDue, Event
  <2> QED
    BY <2>1 DEF ReconcilerInv, CacheIsScheduled, NeverForgotten
<1> QED
  BY <1>1, ReconcilerInvariance, PTL

\* Only a round that has worked on the current version stores its ledger, so
\* that ledgers succeed each other round by round and the observed generation
\* never goes back.
THEOREM LedgersSucceed == Spec => LedgerStep
<1> DEFINE Step ==
      np # Nil /\ np' # Nil /\ np.uid = np'.uid =>
        /\ np'.status.ledger \ np'.status.fresh \subseteq np.status.ledger
        /\ np'.status # np.status => np'.status.fresh \subseteq np'.status.ledger
        /\ np'.status.observedGeneration >= np.status.observedGeneration
<1>1. ASSUME ReconcilerInv, [Next]_vars PROVE [Step]_vars
  <2> SUFFICES ASSUME np # Nil, np' # Nil
               PROVE  Step
    BY <1>1
  <2>1. np \in NetworkPolicy
    BY <1>1 DEF ReconcilerInv, TypeOK
  <2>2. np.status \in Status
    BY <2>1 DEF NetworkPolicy
  <2>3. CASE np'.status = np.status
    <3>1. np.status.observedGeneration \in Nat /\ np.status.ledger \subseteq Address
      BY <2>2 DEF Status
    <3> QED
      BY <2>3, <3>1
  <2>4. CASE pc \in {"status", "emptyStatus"} /\ StatusAccepted /\ StoreStatus
    <3>1. /\ snap = np /\ work.ledger \ work.fresh \subseteq np.status.ledger
          /\ work.fresh \subseteq work.ledger
      BY <1>1, <2>4 DEF ReconcilerInv, CopiesCurrent, RoundConsistent, StatusAccepted
    <3>2. np' = [np EXCEPT !.status = NewStatus]
      BY <2>4 DEF StoreStatus, WriteNP
    <3>3. np'.status = NewStatus
      BY <2>1, <3>2 DEF NetworkPolicy
    <3>4. np.status.observedGeneration <= np.generation
      BY <1>1 DEF ReconcilerInv, VersionsOrdered
    <3>5. np.status.observedGeneration \in Nat /\ np.generation \in Nat
      BY <2>1, <2>2 DEF NetworkPolicy, Status
    <3> QED
      BY <3>1, <3>3, <3>4, <3>5 DEF NewStatus
  <2>5. np'.status = np.status
          \/ (pc \in {"status", "emptyStatus"} /\ StatusAccepted /\ StoreStatus)
    <3>1. ASSUME NEW spec \in Specs, UserCreate(spec) PROVE FALSE
      BY <3>1 DEF UserCreate
    <3>2. ASSUME NEW spec \in Specs, UserEdit(spec) PROVE np'.status = np.status
      BY <2>1, <3>2 DEF UserEdit, WriteNP, NetworkPolicy
    <3>3. CASE UserRelabel
      BY <2>1, <3>3 DEF UserRelabel, WriteNP, NetworkPolicy
    <3>4. CASE UserDelete
      BY <3>4 DEF UserDelete, WriteNP
    <3>5. CASE UpdateStatus \/ UpdateEmptyStatus
      BY <3>5 DEF UpdateStatus, UpdateEmptyStatus, StatusSucceeds, StatusFails, policy
    <3>6. CASE np' = np
      BY <3>6
    <3>7. ASSUME \/ Drift \/ CollectGarbage \/ SyncNP \/ RelistNP \/ SyncMNP
                 \/ TimerFires \/ Begin
                 \/ \E answer \in Answers, kept \in SUBSET Address : Resolve(answer, kept)
                 \/ ResolveEmpty \/ Apply \/ Delete \/ Crash \/ UNCHANGED vars
          PROVE  np' = np
      BY <3>7 DEF Drift, CollectGarbage, SyncNP, RelistNP, SyncCache, SyncMNP, TimerFires,
         Begin, Resolve, ResolveEmpty, Apply, Applied, Delete, Crash, vars, policy
    <3> QED
      BY <1>1, <3>1, <3>2, <3>3, <3>4, <3>5, <3>6, <3>7 DEF Next, Worker, User
  <2> QED
    BY <2>3, <2>4, <2>5
<1> QED
  BY <1>1, ReconcilerInvariance, PTL DEF Spec, LedgerStep

\* The controller never changes an mnp of somebody else, however old the copy
\* it has looked at: a write to an mnp that has changed hands is refused.  No
\* policy has egress: [], as the CRD demands.
THEOREM StrangersUntouched ==
  ASSUME Empty \notin Specs
  PROVE  Spec => StrangerUntouched
<1> DEFINE Step ==
      mnp # Nil /\ mnp.owner = Stranger /\ mnp' # mnp => drifts' # drifts
<1>1. ASSUME ReconcilerInv, [Next]_vars PROVE [Step]_vars
  <2> SUFFICES ASSUME mnp # Nil, mnp.owner = Stranger, mnp' # mnp
               PROVE  drifts' # drifts
    BY <1>1
  <2>1. CASE Drift
    BY <1>1, <2>1 DEF Drift, ReconcilerInv, TypeOK
  <2>2. CASE Delete
    BY <1>1, <2>2 DEF Delete, ReconcilerInv, RoundConsistent, TypeOK, NetworkPolicy
  <2>3. CASE CollectGarbage
    BY <2>3 DEF CollectGarbage
  <2>4. CASE Apply
    <3>1. ApplyWrites
      BY <2>4 DEF Apply, multi
    <3>2. mnpCache = mnp /\ Adoptable(mnpCache)
      BY <1>1, <3>1 DEF ApplyWrites, ReconcilerInv, CopiesCurrent
    <3> QED
      BY <3>2 DEF Adoptable
  <2>5. ASSUME \/ User \/ SyncNP \/ RelistNP \/ SyncMNP \/ TimerFires \/ Begin
               \/ \E answer \in Answers, kept \in SUBSET Address : Resolve(answer, kept)
               \/ ResolveEmpty \/ UpdateStatus \/ UpdateEmptyStatus \/ Crash
               \/ UNCHANGED vars
        PROVE  mnp' = mnp
    BY <2>5 DEF User, UserCreate, UserEdit, UserRelabel, UserDelete, SyncNP, RelistNP,
       SyncCache, SyncMNP, TimerFires, Begin, Resolve, ResolveEmpty, UpdateStatus, UpdateEmptyStatus, Crash,
       vars, multi
  <2> QED
    BY <1>1, <2>1, <2>2, <2>3, <2>4, <2>5 DEF Next, Worker
<1> QED
  BY <1>1, ReconcilerInvariance, PTL DEF Spec, StrangerUntouched

=============================================================================
