---------------------------- MODULE LedgerStore ----------------------------
(***************************************************************************)
(* The status of one FQDN on its way through the API server, with several  *)
(* controllers at work on the policy: the deployment runs two replicas,    *)
(* and one that has lost the leader's lease (or was started without leader *)
(* election) may still be in the middle of a round.                        *)
(*                                                                         *)
(* A round reads np from its process's cache, resolves, computes the new   *)
(* status and sends it back with the version it read.  Instead of          *)
(* versions the model keeps, for every copy, whether np has been written   *)
(* since.  A cache may lag for any time, so that np is read and the name   *)
(* resolved in one step here: a copy read early and used late is a cache   *)
(* that lags.  A round that has ended may be followed by another one that  *)
(* finds the same old copy.                                                *)
(*                                                                         *)
(* What all this does to the status as it is stored is what module Ledger  *)
(* says: one round after another, on one time line (StoredIsLedger).       *)
(* Clocks of the replicas are taken to agree.                              *)
(***************************************************************************)
EXTENDS FQDNStatus

CONSTANTS
  Results,        \* the resolution results DNS may give
  Retentions,     \* the retention periods (in ticks) the annotation may ask for
  RetryTimeouts,  \* the values (in ticks) spec.retryTimeoutSeconds may have
  MaxTime,        \* bound: the clock stops here
  MaxRounds,      \* bound: rounds begun, by all processes
  MaxEdits,       \* bound: changes by the user
  Worker,         \* the controller processes
  Nil             \* no round, or no result

ASSUME ResultsAssumption == Results \subseteq DNSResolverResult
ASSUME RetentionsAssumption == Retentions \subseteq Int
ASSUME RetryTimeoutsAssumption == RetryTimeouts \subseteq Int
ASSUME StoreBoundsAssumption ==
  MaxTime \in Nat /\ MaxRounds \in Nat /\ MaxEdits \in Nat

VARIABLES
  clock,
  np,        \* the policy in the API server, as far as this FQDN is concerned
  storedAt,  \* the instant of the round that np.status comes from
  cache,     \* np in the cache of each process
  synced,    \* the processes whose cache has the current version of np
  round,     \* the round each process is in: what it read, found, and when
  valid,     \* the processes whose round has read the current version of np
  sighted,   \* for every address, the last stored round that DNS gave it to
  rounds, edits

bounds == <<rounds, edits>>
svars == <<clock, np, storedAt, cache, synced, round, valid, sighted, rounds, edits>>

NeverSighted == [a \in Address |-> NoTime]

Init ==
  /\ clock = 0
  /\ np \in [listed : {TRUE}, retryTimeout : RetryTimeouts, retention : Retentions,
            status : {BlankStatus}]
  /\ storedAt = 0
  /\ cache = [w \in Worker |-> np]
  /\ synced = Worker
  /\ round = [w \in Worker |-> Nil]
  /\ valid = {}
  /\ sighted = NeverSighted
  /\ rounds = 0 /\ edits = 0

Tick ==
  /\ clock < MaxTime
  /\ clock' = clock + 1
  /\ UNCHANGED <<np, storedAt, cache, synced, round, valid, sighted, bounds>>

\* A write in the API server makes every copy of np an old one.
Put(new) ==
  /\ np' = new
  /\ synced' = {}
  /\ valid' = {}
  /\ UNCHANGED <<clock, cache>>

(***************************************************************************)
(* The user: the name enters or leaves the spec, the retry timeout, the    *)
(* retention annotation or something else changes, or the policy is        *)
(* deleted and created anew (in between there is nothing to write to,      *)
(* which is no different from a write that fails).                         *)
(***************************************************************************)
Edited == edits < MaxEdits /\ edits' = edits + 1

Edit(listed, retryTimeout, retention) ==
  /\ Edited
  /\ Put([np EXCEPT !.listed = listed, !.retryTimeout = retryTimeout, !.retention = retention])
  /\ UNCHANGED <<storedAt, round, sighted, rounds>>

Recreate ==
  /\ Edited
  /\ Put([np EXCEPT !.status = BlankStatus])
  /\ sighted' = NeverSighted
  /\ UNCHANGED <<storedAt, round, rounds>>

\* The watch delivers the current version.
Sync(w) ==
  /\ w \notin synced
  /\ cache' = [cache EXCEPT ![w] = np]
  /\ synced' = synced \cup {w}
  /\ UNCHANGED <<clock, np, storedAt, round, valid, sighted, bounds>>

-----------------------------------------------------------------------------
(***************************************************************************)
(* A round of one process.                                                 *)
(***************************************************************************)
\* np is read and, if the name is in its spec, the name is resolved.
Begin(w, result) ==
  /\ round[w] = Nil
  /\ rounds < MaxRounds
  /\ rounds' = rounds + 1
  /\ result = Nil <=> ~cache[w].listed
  /\ round' = [round EXCEPT ![w] = [np |-> cache[w], result |-> result, at |-> clock]]
  /\ valid' = IF w \in synced THEN valid \cup {w} ELSE valid \ {w}
  /\ UNCHANGED <<clock, np, storedAt, cache, synced, sighted, edits>>

\* The status the round has computed, in memory.
NewStatus(r) ==
  IF r.np.listed
  THEN Reconciled(r.np.status, r.result, r.np.retryTimeout, r.np.retention, r.at)
  ELSE BlankStatus

End(w) == round' = [round EXCEPT ![w] = Nil]

\* The status update reaches np, whatever the process then hears of it.
Write(w) ==
  LET r == round[w] IN
  /\ Put([np EXCEPT !.status = Persisted(NewStatus(r))])
  /\ storedAt' = IF r.np.listed THEN r.at ELSE storedAt
  /\ sighted' = IF r.np.listed
                THEN [a \in Address |-> IF a \in r.result.cidrs THEN r.at ELSE sighted[a]]
                ELSE NeverSighted
  /\ End(w)
  /\ UNCHANGED bounds

\* Mutant of Store: the update is sent without the version that was read.
StoreUnconditionally(w) == round[w] # Nil /\ Write(w)

\* Mutant of Store: after a conflict the version is read anew and the same
\* status sent again.
StoreRetrying(w) == round[w] # Nil /\ w \in valid \cup synced /\ Write(w)

\* The API server takes an update of the current version only.
Store(w) == round[w] # Nil /\ w \in valid /\ Write(w)

\* The round ends without a write: its status is that of the copy it began
\* with, the API server has refused it as a conflict (which is not treated
\* as an error), or the call or the process has failed.
Drop(w) ==
  /\ round[w] # Nil
  /\ End(w)
  /\ valid' = valid \ {w}
  /\ UNCHANGED <<clock, np, storedAt, cache, synced, sighted, bounds>>

Next ==
  \/ Tick
  \/ \E listed \in BOOLEAN, retryTimeout \in RetryTimeouts, retention \in Retentions :
       Edit(listed, retryTimeout, retention)
  \/ Recreate
  \/ \E w \in Worker :
       \/ Sync(w)
       \/ \E result \in Results \cup {Nil} : Begin(w, result)
       \/ Store(w)
       \/ Drop(w)

Spec == Init /\ [][Next]_svars

-----------------------------------------------------------------------------
(***************************************************************************)
(* Properties.                                                             *)
(***************************************************************************)
NetworkPolicy == [listed : BOOLEAN, retryTimeout : RetryTimeouts,
                  retention : Retentions, status : Status]
Round == [np : NetworkPolicy, result : Results \cup {Nil}, at : 0..MaxTime]

TypeOK ==
  /\ clock \in 0..MaxTime
  /\ np \in NetworkPolicy
  /\ storedAt \in 0..MaxTime
  /\ cache \in [Worker -> NetworkPolicy]
  /\ synced \in SUBSET Worker
  /\ round \in [Worker -> Round \cup {Nil}]
  /\ valid \in SUBSET Worker
  /\ sighted \in [Address -> {NoTime} \cup 0..MaxTime]
  /\ rounds \in 0..MaxRounds /\ edits \in 0..MaxEdits

\* An address that DNS gave to a round whose status was stored stays recorded
\* for every retention period in use (less the second that rounding may
\* cost), whatever the other process, a lagging cache, an edit or a lost
\* write does meanwhile: the update of an old copy is refused and never puts
\* the ledger back to what it was before the address was seen.
SightingKept ==
  \A a \in Address :
    /\ sighted[a] # NoTime
    /\ \A retention \in Retentions : storedAt - sighted[a] <= retention - Second
    => a \in Recorded(np.status)

\* The stored status takes the steps of one sequence of rounds, each at an
\* instant not before the last one and from the status the last one left:
\* what is checked and proved about Ledger holds of the status in the API
\* server.
L == INSTANCE Ledger WITH at <- storedAt, status <- np.status

StoredIsLedger == L!Spec

=============================================================================
