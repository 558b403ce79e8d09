----------------------------- MODULE Reconciler -----------------------------
(***************************************************************************)
(* The controller at work on one NetworkPolicy (np) and the                *)
(* MultiNetworkPolicy (mnp) of the same name: Reconcile, split at its      *)
(* calls to DNS and to the API server, next to the user, the watches that  *)
(* feed the client's cache, the garbage collector and failures.            *)
(*                                                                         *)
(* Reads come from the cache, which trails the API server; writes go to    *)
(* the API server, which refuses one that is based on an old version.      *)
(* Instead of resource versions the model keeps, for every copy of an      *)
(* object, whether the object has been written since the copy was made.    *)
(* The work queue never gives one key to two workers at a time, so there   *)
(* is one worker here.                                                     *)
(*                                                                         *)
(* What the ledger does with time is in module Ledger.  Here a round keeps *)
(* the fresh addresses and any of the recorded ones, which is all it can   *)
(* do (RoundKeepsOrDrops in LedgerProofs).  Which traffic a rule list      *)
(* permits is in module Translation; here the rules of mnp are the spec    *)
(* they were made from and the addresses they open.                        *)
(***************************************************************************)
EXTENDS Integers, FiniteSets

CONSTANTS
  Specs,        \* the specs a user may write
  Empty,        \* a spec with egress: []
  Drifted,      \* an mnp spec that somebody else has written
  Address,
  Answers,      \* what DNS may return: sets of addresses, {} for a failure
  Nil,          \* no object
  MayRelist,    \* whether a watch may break off and start again with a list
  MaxCreated,   \* bound: policies created
  MaxEdits,     \* bound: changes of spec or metadata
  MaxDrifts,    \* bound: changes of the mnp by others
  MaxFaults     \* bound: failed API calls and crashes

ASSUME AddressAssumption == IsFiniteSet(Address)
ASSUME AnswersAssumption == Answers \subseteq SUBSET Address
ASSUME BoundsAssumption ==
  /\ MaxCreated \in Nat \ {0}
  /\ MaxEdits \in Nat /\ MaxDrifts \in Nat /\ MaxFaults \in Nat
ASSUME DriftedAssumption == Drifted \notin Specs
ASSUME MayRelistAssumption == MayRelist \in BOOLEAN

VARIABLES
  np,         \* the NetworkPolicy in the API server, or Nil
  npCache,    \* the same in the cache
  npFresh,    \* np has not been written since npCache was made
  mnp,        \* the MultiNetworkPolicy in the API server, or Nil
  mnpCache,
  mnpFresh,
  pc,         \* where the worker is in Reconcile
  snap,       \* the copy of np that Reconcile works on
  snapFresh,  \* np has not been written since snap was made
  work,       \* what this round has found out: ledger, fresh addresses, ready
  queued,     \* the key is in the work queue
  timer,      \* the key is due later (RequeueAfter)
  created, edits, drifts, faults

policy == <<np, npCache, npFresh, snapFresh>>
multi == <<mnp, mnpCache, mnpFresh>>
bounds == <<created, edits, drifts, faults>>
vars == <<np, npCache, npFresh, mnp, mnpCache, mnpFresh, pc, snap, snapFresh,
          work, queued, timer, created, edits, drifts, faults>>

\* Besides policies (by uid), an mnp may be controlled by nobody, or by
\* somebody else who is there to stay.
NoOwner == 0
Stranger == -1

BlankStatus ==
  [ledger |-> {}, fresh |-> {}, observedGeneration |-> 0, ready |-> "Unknown",
   appliedAddressCount |-> 0]

NoWork == [ledger |-> {}, fresh |-> {}, ready |-> "Unknown"]

Init ==
  /\ np = Nil /\ npCache = Nil /\ npFresh = TRUE
  /\ mnp = Nil /\ mnpCache = Nil /\ mnpFresh = TRUE
  /\ pc = "idle"
  /\ snap = Nil /\ snapFresh = FALSE
  /\ work = NoWork
  /\ queued = FALSE /\ timer = FALSE
  /\ created = 0 /\ edits = 0 /\ drifts = 0 /\ faults = 0

(***************************************************************************)
(* Writes, as the API server performs them.                                *)
(***************************************************************************)
WriteNP(new) ==
  /\ np' = new
  /\ npFresh' = FALSE
  /\ snapFresh' = FALSE
  /\ UNCHANGED npCache

WriteMNP(new) ==
  /\ mnp' = new
  /\ mnpFresh' = FALSE
  /\ UNCHANGED mnpCache

Fault == faults < MaxFaults /\ faults' = faults + 1

-----------------------------------------------------------------------------
(***************************************************************************)
(* The user, and others who change the mnp behind the controller's back.   *)
(***************************************************************************)
UserCreate(spec) ==
  /\ np = Nil
  /\ created < MaxCreated
  /\ created' = created + 1
  /\ WriteNP([uid |-> created + 1, generation |-> 1, spec |-> spec, labels |-> 0,
              status |-> BlankStatus])
  /\ UNCHANGED <<multi, pc, snap, work, queued, timer, edits, drifts, faults>>

UserEdit(spec) ==
  /\ np # Nil
  /\ spec # np.spec
  /\ edits < MaxEdits
  /\ edits' = edits + 1
  /\ WriteNP([np EXCEPT !.spec = spec, !.generation = @ + 1])
  /\ UNCHANGED <<multi, pc, snap, work, queued, timer, created, drifts, faults>>

\* Labels (and annotations) are not part of the generation.
UserRelabel ==
  /\ np # Nil
  /\ edits < MaxEdits
  /\ edits' = edits + 1
  /\ WriteNP([np EXCEPT !.labels = 1 - @])
  /\ UNCHANGED <<multi, pc, snap, work, queued, timer, created, drifts, faults>>

\* There is no finalizer: the object is gone at once.
UserDelete ==
  /\ np # Nil
  /\ WriteNP(Nil)
  /\ UNCHANGED <<multi, pc, snap, work, queued, timer, bounds>>

\* The mnp is changed or removed, or one of that name is created.
Drift ==
  /\ drifts < MaxDrifts
  /\ drifts' = drifts + 1
  /\ \/ /\ mnp # Nil /\ mnp.spec # Drifted
        /\ WriteMNP([mnp EXCEPT !.spec = Drifted])
     \/ mnp # Nil /\ WriteMNP(Nil)
     \/ /\ mnp = Nil
        /\ \E owner \in {NoOwner, Stranger} :
             WriteMNP([owner |-> owner, spec |-> Drifted, labels |-> 0, addresses |-> {}])
  /\ UNCHANGED <<policy, pc, snap, work, queued, timer, created, edits, faults>>

(***************************************************************************)
(* The garbage collector: an mnp whose owner does not exist is deleted.    *)
(***************************************************************************)
CollectGarbage ==
  /\ mnp # Nil
  /\ mnp.owner \notin {NoOwner, Stranger}
  /\ ~(np # Nil /\ np.uid = mnp.owner)
  /\ WriteMNP(Nil)
  /\ UNCHANGED <<policy, pc, snap, work, queued, timer, bounds>>

(***************************************************************************)
(* The watches.  GenerationChangedPredicate lets creations, deletions and  *)
(* changes of the generation through; the uid it does not look at.  Only   *)
(* np is watched for events.                                               *)
(***************************************************************************)
Event(old, new) ==
  \/ (old = Nil) # (new = Nil)
  \/ old # Nil /\ new # Nil /\ old.generation # new.generation

\* Between the two versions a policy was deleted and another one created.
Recreated(old, new) == old # Nil /\ new # Nil /\ old.uid # new.uid

SyncCache ==
  /\ ~npFresh
  /\ npCache' = np
  /\ npFresh' = TRUE
  /\ UNCHANGED <<np, snapFresh, multi, pc, snap, work, timer, bounds>>

\* The watch reports every change by itself, the deletion and the creation
\* of a policy that is there again too.
SyncNP ==
  /\ SyncCache
  /\ queued' = (queued \/ Event(npCache, np) \/ Recreated(npCache, np))

\* A watch that was interrupted starts again with a list, and all that
\* happened to np in between arrives as one update.
RelistNP ==
  /\ MayRelist
  /\ SyncCache
  /\ queued' = (queued \/ Event(npCache, np))

SyncMNP ==
  /\ ~mnpFresh
  /\ mnpCache' = mnp
  /\ mnpFresh' = TRUE
  /\ UNCHANGED <<policy, mnp, pc, snap, work, queued, timer, bounds>>

TimerFires ==
  /\ timer
  /\ timer' = FALSE
  /\ queued' = TRUE
  /\ UNCHANGED <<policy, multi, pc, snap, work, bounds>>

-----------------------------------------------------------------------------
(***************************************************************************)
(* The ways Reconcile ends.                                                *)
(***************************************************************************)
Leave ==
  /\ pc' = "idle"
  /\ snap' = Nil
  /\ work' = NoWork

\* return ctrl.Result{}, nil
Done == Leave /\ UNCHANGED <<queued, timer>>

\* Mutant of RequeueAfter: the round ends as if nothing were left to do.
RequeueAfterForgotten == Leave /\ UNCHANGED <<queued, timer>>

\* return ctrl.Result{RequeueAfter: ...}, nil
RequeueAfter == Leave /\ timer' = TRUE /\ UNCHANGED queued

\* return ctrl.Result{}, err
Failed == Leave /\ queued' = TRUE /\ UNCHANGED timer

(***************************************************************************)
(* Reconcile.                                                              *)
(***************************************************************************)
\* Mutant of Begin: a policy that is not found is not a reason to stop.
BeginWithoutNotFound ==
  /\ pc = "idle"
  /\ queued
  /\ queued' = FALSE
  /\ pc' = "resolve" /\ snap' = npCache /\ snapFresh' = npFresh
  /\ UNCHANGED <<np, npCache, npFresh, multi, work, timer, bounds>>

\* The key is taken from the queue and np is read (from the cache); if that
\* fails, the key is queued again.
Begin ==
  /\ pc = "idle"
  /\ queued
  /\ \/ /\ queued' = FALSE
        /\ IF npCache = Nil
           THEN UNCHANGED <<pc, snap, snapFresh>>
           ELSE pc' = "resolve" /\ snap' = npCache /\ snapFresh' = npFresh
        /\ UNCHANGED faults
     \/ Fault /\ UNCHANGED <<queued, pc, snap, snapFresh>>
  /\ UNCHANGED <<np, npCache, npFresh, multi, work, timer, created, edits, drifts>>

\* DNS answers, the ledger is brought up to date and the rules are computed.
\* A spec without egress rules has no names to resolve and yields no mnp; it
\* is not looked at again once its generation has been observed.
Resolve(answer, kept) ==
  /\ pc = "resolve"
  /\ snap.spec # Empty
  /\ kept \subseteq snap.status.ledger
  /\ pc' = "apply"
  /\ work' = [ledger |-> answer \cup kept, fresh |-> answer, ready |-> "Unknown"]
  /\ UNCHANGED <<policy, multi, snap, queued, timer, bounds>>

ResolveEmpty ==
  /\ pc = "resolve"
  /\ snap.spec = Empty
  /\ \/ /\ snap.status.observedGeneration = snap.generation
        /\ Done
     \/ /\ snap.status.observedGeneration # snap.generation
        /\ pc' = "emptyStatus"
        /\ work' = [ledger |-> {}, fresh |-> {}, ready |-> "Failure"]
        /\ UNCHANGED <<snap, queued, timer>>
  /\ UNCHANGED <<policy, multi, bounds>>

Desired == [owner |-> snap.uid, spec |-> snap.spec, labels |-> snap.labels,
            addresses |-> work.ledger]

\* Mutant of Same: the labels are not compared.
SameIgnoringLabels(m, desired) == [m EXCEPT !.labels = desired.labels] = desired

\* What CreateOrUpdate compares after the changes: owner reference, spec,
\* labels and annotations.
Same(m, desired) == m = desired

\* Mutant of Adoptable: the owner is set by hand, without looking.
AdoptableAlways(m) == TRUE

\* SetControllerReference takes an mnp over that nobody controls, or a policy
\* of this name does (whatever its uid).
Adoptable(m) == m.owner # Stranger

\* controllerutil.CreateOrUpdate: read (from the cache), change, write if
\* anything changed.  A write based on an old version is refused, and so is
\* the creation of an object that exists.
ApplyWrites ==
  \/ mnpCache = Nil /\ mnp = Nil
  \/ mnpCache # Nil /\ ~Same(mnpCache, Desired) /\ Adoptable(mnpCache) /\ mnpFresh

ApplyNothing == mnpCache # Nil /\ Same(mnpCache, Desired)

Applied(ready) ==
  /\ pc' = "status"
  /\ work' = [work EXCEPT !.ready = ready]
  /\ UNCHANGED <<policy, snap, queued, timer, created, edits, drifts>>

ReadySuccess == IF work.ledger = {} THEN "EmptyRules" ELSE "Success"

Apply ==
  /\ pc = "apply"
  /\ \/ ApplyWrites /\ WriteMNP(Desired) /\ Applied(ReadySuccess) /\ UNCHANGED faults
     \/ ApplyNothing /\ UNCHANGED multi /\ Applied(ReadySuccess) /\ UNCHANGED faults
     \/ /\ ~ApplyWrites /\ ~ApplyNothing
        /\ UNCHANGED multi /\ Applied("Failure") /\ UNCHANGED faults
     \/ Fault /\ UNCHANGED multi /\ Applied("Failure")
     \/ Fault /\ ApplyWrites /\ WriteMNP(Desired) /\ Applied("Failure")

(***************************************************************************)
(* updateStatusIfNeeded.                                                   *)
(***************************************************************************)
NewStatus ==
  [ledger |-> work.ledger, fresh |-> work.fresh,
   observedGeneration |-> snap.generation, ready |-> work.ready,
   appliedAddressCount |-> Cardinality(work.ledger)]

\* The API server accepts the status: snap is still the current version.
StatusAccepted == np # Nil /\ snapFresh

StatusUnchanged == NewStatus = snap.status

StoreStatus == WriteNP([np EXCEPT !.status = NewStatus])

\* Mutant of StatusSucceeds: after a conflict the status is written again,
\* this time over the current version.
StatusSucceedsRetrying ==
  /\ \/ StatusUnchanged /\ UNCHANGED policy
     \/ ~StatusUnchanged /\ np # Nil /\ StoreStatus
  /\ UNCHANGED faults

\* Not written because nothing changed, written, or refused as a conflict
\* (a version that is not the current one, or another object of that name):
\* all three count as success.
StatusSucceeds ==
  /\ \/ StatusUnchanged /\ UNCHANGED policy
     \/ ~StatusUnchanged /\ StatusAccepted /\ StoreStatus
     \/ ~StatusUnchanged /\ ~StatusAccepted /\ np # Nil /\ UNCHANGED policy
  /\ UNCHANGED faults

\* np is gone, or the call fails before or after the write took place.
StatusFails ==
  /\ ~StatusUnchanged
  /\ \/ np = Nil /\ UNCHANGED <<policy, faults>>
     \/ Fault /\ UNCHANGED policy
     \/ Fault /\ StatusAccepted /\ StoreStatus

UpdateStatus ==
  /\ pc = "status"
  /\ \/ StatusSucceeds /\ RequeueAfter
     \/ StatusFails /\ Failed
  /\ UNCHANGED <<multi, created, edits, drifts>>

\* egress: [] stores its status before it removes the mnp.
UpdateEmptyStatus ==
  /\ pc = "emptyStatus"
  /\ \/ /\ StatusSucceeds
        /\ pc' = "delete"
        /\ UNCHANGED <<snap, work, queued, timer>>
     \/ StatusFails /\ Failed
  /\ UNCHANGED <<multi, created, edits, drifts>>

\* reconcileNetworkPolicyDeletion: looked up in the cache, deleted by name.
\* The read may fail, and so may the call, before or after its effect.
Delete ==
  /\ pc = "delete"
  /\ \/ mnpCache = Nil /\ Done /\ UNCHANGED <<multi, faults>>
     \/ mnpCache # Nil /\ mnp # Nil /\ WriteMNP(Nil) /\ Done /\ UNCHANGED faults
     \/ mnpCache # Nil /\ mnp = Nil /\ Done /\ UNCHANGED <<multi, faults>>
     \/ Fault /\ Failed /\ UNCHANGED multi
     \/ mnpCache # Nil /\ mnp # Nil /\ Fault /\ WriteMNP(Nil) /\ Failed
  /\ UNCHANGED <<policy, created, edits, drifts>>

\* The process dies and another one starts: the queue and its timers are
\* lost, the caches are filled anew and every policy gets a creation event.
Crash ==
  /\ Fault
  /\ Leave
  /\ queued' = (np # Nil)
  /\ timer' = FALSE
  /\ npCache' = np /\ npFresh' = TRUE
  /\ mnpCache' = mnp /\ mnpFresh' = TRUE
  /\ snapFresh' = FALSE
  /\ UNCHANGED <<np, mnp, created, edits, drifts>>

-----------------------------------------------------------------------------
Worker ==
  \/ Begin
  \/ \E answer \in Answers, kept \in SUBSET Address : Resolve(answer, kept)
  \/ ResolveEmpty
  \/ Apply
  \/ UpdateStatus
  \/ UpdateEmptyStatus
  \/ Delete

User ==
  \/ \E spec \in Specs : UserCreate(spec) \/ UserEdit(spec)
  \/ UserRelabel
  \/ UserDelete

Next ==
  \/ Worker
  \/ User
  \/ Drift
  \/ CollectGarbage
  \/ SyncNP
  \/ RelistNP
  \/ SyncMNP
  \/ TimerFires
  \/ Crash

Spec == Init /\ [][Next]_vars

\* The worker runs, the watches deliver (one way or the other), timers fire
\* and the garbage collector collects.  Nothing obliges the user, drift or failures.
FairSpec ==
  /\ Spec
  /\ WF_vars(Worker)
  /\ WF_vars(CollectGarbage)
  /\ WF_vars(SyncNP \/ RelistNP)
  /\ WF_vars(SyncMNP)
  /\ WF_vars(TimerFires)

-----------------------------------------------------------------------------
(***************************************************************************)
(* Properties.                                                             *)
(***************************************************************************)
ReadyReasons == {"Unknown", "Success", "EmptyRules", "Failure"}
Status ==
  [ledger : SUBSET Address, fresh : SUBSET Address, observedGeneration : Nat,
   ready : ReadyReasons, appliedAddressCount : Nat]
NetworkPolicy ==
  [uid : Nat, generation : Nat, spec : Specs, labels : {0, 1}, status : Status]
MultiNetworkPolicy ==
  [owner : Nat \cup {NoOwner, Stranger}, spec : Specs \cup {Drifted}, labels : {0, 1},
   addresses : SUBSET Address]

TypeOK ==
  /\ np \in NetworkPolicy \cup {Nil} /\ npCache \in NetworkPolicy \cup {Nil}
  /\ mnp \in MultiNetworkPolicy \cup {Nil}
  /\ mnpCache \in MultiNetworkPolicy \cup {Nil}
  /\ npFresh \in BOOLEAN /\ mnpFresh \in BOOLEAN /\ snapFresh \in BOOLEAN
  /\ pc \in {"idle", "resolve", "apply", "status", "emptyStatus", "delete"}
  /\ snap \in NetworkPolicy \cup {Nil}
  /\ pc # "idle" => snap # Nil
  /\ work \in [ledger : SUBSET Address, fresh : SUBSET Address, ready : ReadyReasons]
  /\ queued \in BOOLEAN /\ timer \in BOOLEAN
  /\ created \in 0..MaxCreated /\ edits \in 0..MaxEdits
  /\ drifts \in 0..MaxDrifts /\ faults \in 0..MaxFaults

\* However the cache catches up with np, an event will come of it.
EventDue ==
  ~npFresh /\ (Event(npCache, np) \/ (~MayRelist /\ Recreated(npCache, np)))

\* A policy with rules is never forgotten: at any time it is in the queue,
\* has a timer, is being worked on, or the cache has an event for it to
\* deliver.  Every return of Reconcile, every swallowed conflict, every
\* update that GenerationChangedPredicate holds back and every restart must
\* see to it, for nothing else would refresh its addresses.  (A policy with
\* egress: [] has no timer.  If it is re-created with rules while the watch
\* is interrupted, no event comes of it; the CRD does not admit that spec.)
NeverForgotten ==
  np # Nil /\ np.spec # Empty =>
    queued \/ timer \/ pc # "idle" \/ EventDue

\* A stored ledger is one round away from the ledger stored before it: it
\* holds the addresses DNS has just returned and otherwise only addresses of
\* the previous ledger of this very policy.  No round overwrites the outcome
\* of another, and none revives a ledger that has been replaced.
LedgerStep ==
  [][np # Nil /\ np' # Nil /\ np.uid = np'.uid =>
       /\ np'.status.ledger \ np'.status.fresh \subseteq np.status.ledger
       /\ np'.status # np.status => np'.status.fresh \subseteq np'.status.ledger
       /\ np'.status.observedGeneration >= np.status.observedGeneration]_vars

\* Ready=True with the observed generation equal to the current one means
\* that the rules in the cluster are those of the current spec (while nobody
\* interferes with the mnp).
AcknowledgedIsApplied ==
  /\ np # Nil
  /\ np.status.ready \in {"Success", "EmptyRules"}
  /\ np.status.observedGeneration = np.generation
  => mnp # Nil /\ mnp.spec = np.spec

\* AppliedAddressCount counts addresses that have been applied: a policy whose
\* rules could not be applied and that has no mnp counts none.
AppliedCountTrue ==
  np # Nil /\ np.status.ready = "Failure" /\ mnp = Nil
    => np.status.appliedAddressCount = 0

\* An mnp that somebody else controls is changed by others only, however stale
\* the cache is that the controller decides on.  This is said of policies with
\* rules, the only ones the CRD admits: the removal for egress: [] goes by the
\* name and does not look at the owner.
StrangerUntouched ==
  [][mnp # Nil /\ mnp.owner = Stranger /\ mnp' # mnp => drifts' # drifts]_vars

\* Nothing is left to do for the current np.
Quiet == pc = "idle" /\ ~queued /\ ~timer /\ npFresh

\* Once the controller is done with a policy that has egress: [], the mnp of
\* an earlier spec does not stay behind.
EmptyRevokes ==
  np # Nil /\ np.spec = Empty /\ Quiet
    => mnp = Nil \/ mnp.owner # np.uid

\* After the last change by the user, the last drift and the last failure,
\* and while DNS gives one answer, the mnp comes to hold, for good, the rules
\* and the labels of the policy and the addresses its status records, and the
\* policy reports the generation as observed and the rules as applied; unless
\* the mnp is somebody else's, which the policy reports as a failure.  And the
\* mnp of a deleted policy goes away.
InSync ==
  /\ np # Nil /\ np.spec # Empty =>
       /\ mnp # Nil
       /\ np.status.observedGeneration = np.generation
       /\ IF mnp.owner = Stranger THEN np.status.ready = "Failure"
          ELSE /\ mnp.owner = np.uid /\ mnp.spec = np.spec /\ mnp.labels = np.labels
               /\ mnp.addresses = np.status.ledger
               /\ np.status.ready \in {"Success", "EmptyRules"}
  /\ np = Nil => mnp = Nil \/ mnp.owner \in {NoOwner, Stranger}

Converges == <>[]InSync

=============================================================================
