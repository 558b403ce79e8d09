# A TLA+ model of fqdn-egress-operator

The operator turns a `NetworkPolicy` custom resource, whose egress rules name
FQDNs, into a `MultiNetworkPolicy` (mnp) whose rules name IP addresses.  It
resolves the names again and again, remembers in the status which addresses
each name had (the *ledger*), tolerates DNS failures for a while, keeps
addresses that have gone missing for a retention period, and regenerates the
mnp.  This directory holds a model of that logic, the configurations that check
it with TLC, and proofs checked by TLAPS.

## Inventory

| Component | State | Operations | Correct means |
|---|---|---|---|
| Ledger (`FQDNStatus.Update`, `updateFQDNStatuses`, retention pass of `Reconcile`) | per FQDN: addresses with `MissingSince`, `FailingSince`, reason | one update per round | clocks mean what they say; an address stays for a reason and is not dropped early |
| Translation (`ToMultiNetworkPolicy`, `RemoveDuplicateCIDRsInMultiNetworkPolicy`) | maps local to one computation | rule by rule, then address by address | the generated rules permit exactly what the spec asks for, in a normal form |
| Resolver pool (`DNSResolver.Resolve`) | goroutines, semaphore, wait group, result channel | spawn, acquire, look up, send, release, close, collect | one result per name, bounded lookups, no panic, no leak, returns |
| Reconciler (`Reconcile`, creation, deletion, `updateStatusIfNeeded`) | none of its own; np, mnp and their caches, work queue, timers | one round in several calls to DNS and the API server | no policy is forgotten, no round overwrites another, the mnp converges |
| Status write-back (`updateStatusIfNeeded` seen from one FQDN) | the status in the API server, one cache per controller process | read, compute, store or lose a round | what is stored is one sequence of rounds; a stored sighting is kept |
| Manager process (`cmd/main.go`) | flags | wiring, leader election (off by default), default of the limit on lookups, probes | lookups limited by a positive number; replicas do not spoil each other's ledger |
| API types and CRD | – | validation | used as types of the models |
| Events (`operation.go`), `map.go` | – | wording; unused helper | not modelled |

How they interact: a worker of controller-runtime calls `Reconcile` for one
key.  It reads np from a cache, calls the resolver pool and waits for it,
updates the ledger in its copy of np, translates, applies the mnp through
`CreateOrUpdate` (cached read, conditional write), and writes the status back
with optimistic locking.  It asks to be called again after `ttlSeconds`, after
60 s when applying failed, at once (with back-off) after an error, and not at
all for `egress: []`.  The only events are creation, deletion and a change of
generation of np; the mnp is not watched.  Nothing but the status survives a
restart.

What is hard: two timeouts over the same addresses, measured in whole seconds
across rounds (ledger); random map order and colliding keys (translation);
goroutines racing with cancellation (resolver); caches that lag, conflicts that
are swallowed, watches that break off, two writes of which either may fail,
restarts (reconciler);
two replicas of which one has lost the lease in the middle of a round (status
write-back).
`PROJECT.json` lists the hazards with their lines.

## Modules

| Module | Models |
|---|---|
| `FQDNStatus` | the status of one FQDN and the functions on it: `Update`, the retention pass, the rounding of stored times |
| `Ledger` | one FQDN's status over a sequence of rounds: `Reconcile` and `Forget` |
| `LedgerHistory` | `Ledger` with history variables, and its properties |
| `FQDNStatusProofs` | lemmas about the functions on a status |
| `LedgerProofs` | the proofs about `LedgerHistory` |
| `LedgerStore` | one FQDN's status as several controller processes store it in the API server; implements `Ledger` |
| `LedgerStoreProofs` | the proofs about `LedgerStore`, refinement included |
| `Egress` | rule translation, and what rules permit |
| `Translation` | translation and deduplication as a sequential program |
| `TranslationLists` | `Translation` with the lists the code builds from its maps, and their sorts |
| `TranslationProofs` | the proofs about `Translation` |
| `Resolver` | one call of `DNSResolver.Resolve` |
| `ResolverProofs` | the proofs about `Resolver` |
| `ResolverTimed` | `Resolver` with a clock and the timeout of every lookup |
| `ResolverTimedProofs` | `ResolverTimed` implements `Resolver`, and how long a call takes |
| `Reconciler` | the control loop, with user, caches, garbage collector and failures |
| `ReconcilerProofs` | the proofs about `Reconciler` |
| `ExtremeNumbers` | two lemmas: least and greatest elements of sets of numbers |
| `MCLedger`, `MCLedgerStore`, `MCTranslation`, `MCResolver`, `MCReconciler` | values of the constants for TLC |

Operators called "Mutant of X" are plausible mistakes in X.  They are not used
by the specifications: each property has one that it is known to detect.

### FQDNStatus, Ledger, LedgerHistory

A status is a record of `addresses` (for every address `Absent`, `NoTime` for an
entry without `MissingSince`, or an instant), `failingSince` and `reason`.
`Update` is `FQDNStatus.Update`; `Retain` and `WipeMissingSince` are the two
branches of the retention pass in `Reconcile`; `Reconciled` is their sequence.
The two loops of the retention pass apply the same test to an address that DNS
did not return, so they are one clause of `Retain`.  `Persisted` is the round
trip through the API server, which keeps whole seconds.  Time is in ticks,
`Second` ticks to the second.

`Reconcile(now, result, retryTimeout, retention)` is a whole round as far as one
FQDN is concerned; both periods may differ from round to round, because
`retryTimeoutSeconds` and the retention annotation may be edited.  Names do not influence each other, so one FQDN is enough.  `Forget`
is a round after the name has left the spec: `updateFQDNStatuses` builds the
new list from the results only.

Abstractions: `Update` and the retention pass read the clock separately (some
microseconds apart), here they share one `now`; the clock does not go
backwards; a success carries at least one address (`net.Resolver` reports an
empty answer as an error); `LastTransitionTime`, messages and events are left out.

`LedgerHistory` adds what DNS answered and when (`seen`, `missedAt`,
`failedAt`), which addresses must be kept (`owed`: the last answer, until a
permanent failure or a round that finds the failure older than the timeout then in
the spec) and the periods of the last round (`tolerance`, `keep`), all without
rounding and without looking at the status, so that the status can be compared
with it.

### LedgerStore

The deployment runs two replicas, leader election is off unless
`--leader-elect` is given, and a leader that loses its lease may still be in
the middle of a round.  So several processes (`Worker`) work on one policy.
`Begin` is the read of np from the process's cache together with the lookup (a copy
that is used late is a cache that lags); `NewStatus` is what the round computes,
with the operators of `FQDNStatus`; `Store` is a status update the API server
accepts, `Drop` a round that stores nothing: nothing changed, a conflict
(swallowed, "下次调和会修补"), a failed call, a dead process.  `Edit` changes the
retry timeout or the retention annotation or takes the name out of the spec and back, `Recreate` deletes
and creates the policy anew.  As in `Reconciler`, versions are represented by
whether np has been written since a copy was made.

`StoredIsLedger` is the refinement: with `at <- storedAt` and
`status <- np.status` the stored status behaves as `Ledger` says.  A lost round is
a stutter, so what is shown of `Ledger` carries over to what is stored, and to no
more than that: an address that only lost rounds have seen is in no ledger, and has
neither tolerance nor retention.  The clocks of the processes are taken to agree.

### Egress, Translation

`Translation` runs `ToMultiNetworkPolicy` (a step per rule), phase 1 of the
deduplication (a step per rule), phase 1.5, and phases 2 to 4 (a step per
address, in any order, because they walk a Go map).  The map from port keys to
port entries is a set with one entry per key; `PutPorts` gives it the map's
last-write-wins behaviour.  A fingerprint is a set of keys.  A generated rule has
at least one peer: a rule without would permit every destination.

In `Translation` rules, ports and peers are sets; `Canonical` is about these sets.
`TranslationLists` adds the lists: every map is walked in any order
(`groupings`, the port list of a fingerprint, the list of fingerprints) and sorted
where the code sorts (`SortedPorts`, `SortedCidrs`, `SortedFingerprints`), and
`newEgress` is what `CreateOrUpdate` compares.  Strings are represented by their
place in the order of `sort.Strings` (`KeyOrder`, `AddressOrder`); a fingerprint
compares like the list of its keys, because the comma that joins them sorts before
every character a key can go on with, and "All ports" sorts before every protocol.
  
`Intended` and `ReferencePorts`, with which the result is
compared, are written from the meaning of a spec and use none of the code's
operators.  `FQDNs` is what `Reconcile` hands to the resolver, so the ledger
translation starts from holds the names of the spec and no others.

### Resolver, ResolverTimed

Every goroutine has its own program counter.  The deferred calls run in reverse
order, so `Release` comes before `Finish`.  `select` is the choice between
`Acquire` and `Abort`.  `Cancel` may happen at any point.  A lookup ends with any
of the errors `resolutionReason` tells apart, an error that is not a DNS error and a
DNS error without any flag included.  `WorstResult` is the failure whose message is
reported: among failures of the same priority the first to arrive.  The order in which goroutines are
started is left open.  `MaxConcurrentResolves` is the rule of `main.go` for the
limit: the flag, or, when it is not positive, the number of processors (1 to 20).
The semaphore belongs to one call; the controller runs up to five rounds at a time,
each with a semaphore of its own.

`ResolverTimed` adds the clock: the timeout of a lookup starts when the goroutine
has got its slot (`TAcquire`), and a lookup whose context has ended returns
(`TLookupEnds`).  `Tick` lets time pass only when all that can run has run (`Quiet`,
the negation of the guards of all other steps), so only lookups take time.

### Reconciler

np and mnp each exist in the API server and in the cache.  Instead of resource
versions the model keeps whether the object has been written since a copy was
made, which is all that optimistic locking looks at.  `pc` follows `Reconcile`:
`idle`, `resolve`, `apply`, `status`, and `emptyStatus`, `delete` for
`egress: []`.  `Begin` is the cached read; `Resolve` the lookups, the ledger and the
rules; `Apply` is `reconcileNetworkPolicyCreation` (written, nothing to do,
refused because the cache lags, failed before or after taking effect);
`UpdateStatus` is `updateStatusIfNeeded` with the return that follows it
(unchanged, written, conflict swallowed, failed before or after taking effect,
policy gone).  The work queue never hands out a key twice at a time, so one
worker is enough for one policy; policies do not share state.

Abstractions: a round of the ledger keeps the fresh addresses and any subset of
the recorded ones (lemma `RoundKeepsOrDrops` shows that the ledger does nothing
else); the rules of the mnp are the spec they come from plus the addresses, and
private addresses are not blocked; a cache jumps to the newest version, so
intermediate versions are not seen (a watch delivers their events all the same:
`SyncNP`); the delivery of an event and the update of the
cache are one step; annotations of np other than labels are like labels (no event),
and are not kept separately; of the status, `ActiveFQDNCount`, `FailingFQDNCount`
(`networkpolicy_controller.go:316-325`) and `TotalAddressCount` are left out: they
are computed from the ledger and the answers, and nothing reads them.

`Event` is `GenerationChangedPredicate`, which compares generations and not uids.  A
watch reports a deletion and a creation one by one (`SyncNP`).  After an interruption it
starts again with a list, which turns them into one update of the object of that
name (`RelistNP`, if `MayRelist`), and that is no event when the generations are
equal.  A policy with rules has a timer, which belongs to the name and picks the new
incarnation up.  A policy with `egress: []` has none: re-created with rules
while the watch is interrupted, it is forgotten until its next edit or a
restart of the operator (`NeverForgotten` is violated in run `reconciler` if
`MayRelist` is set to TRUE there).  So the property is checked, and proved,
with `egress: []` and uninterrupted watches, and with interrupted watches and
policies with rules.

`Drift` also creates an mnp of that name which nobody controls (`NoOwner`) or which
somebody else does (`Stranger`).  `Adoptable` is the check of
`SetControllerReference`: the former is taken over, the latter makes the round
fail.  The removal for `egress: []` makes no such check and goes by the name
(`networkpolicy_delete.go:29`), so it does take away an mnp of somebody else;
`StrangerUntouched` is checked, and proved, for policies with rules.
`egress: []` is refused by the CRD's `MinItems=1`; the code handles it
nevertheless (comment at `networkpolicy_funcs.go:184`), and so does the model,
in the runs `reconciler` and `reconciler_empty_revoked`.

## Runs

All bounds are CONSTANTS: `MaxTime` in the ledger, `MaxTime`, `MaxRounds` and
`MaxEdits` in the store, `MaxCreated`, `MaxEdits`, `MaxDrifts` and `MaxFaults` in the
reconciler.

| Run | Shows | Instance |
|---|---|---|
| `ledger` | `FailingSinceExact`, `MissingSinceExact`: both clocks are exact to the second. `RecordedWasSeen`, `RecordedForAReason`: no address without a reason. `NoEarlyDrop`: retention is not cut short. `ToleranceHonoured`: failures within the tolerance withdraw nothing | 2 addresses, half-second ticks, tolerance 1 s or 2 s and retention off or 2.5 s, chosen anew in every round (retention is longer than the tolerance, which `ToleranceHonoured` needs), 4.5 s of rounds: long enough for either timeout to pass and for a failure to follow a success after it |
| `store` | `StoredIsLedger`: the stored status goes through one sequence of rounds, as `Ledger` has it. `SightingKept`: an address whose sighting was stored stays for its retention, whatever another process, a lagging cache, an edit or a lost write does | 2 processes (symmetric), 1 address, 3 rounds, 2 edits, half-second ticks up to 2 s, retention 1.5 s, tolerance 1 s (with retention on it decides nothing, so one value is enough): a round that stores, one that is overtaken by it, and one that follows |
| `translation` | `GrantsExactly`: the rules permit exactly what the spec asks for. `Canonical`: a normal form, as sets. `ListsCanonical`: the same lists of rules, ports and peers, in the same order, whatever order the maps are walked in. `CountExact`: `AppliedAddressCount` of the result | up to 2 rules with 5 port lists without ranges and all blocking settings, and 3 rules with 3 port lists; 2 names, 3 addresses (1 private) |
| `resolver` | `LookupsBounded`, `SendIsSafe`, `ExactlyOneResult`, `NothingLeftBehind`, `AggregateExact`: see their comments. `DurationBounded`: a call takes at most one timeout per batch of names (a bound that is reached). `Returns`: the call ends, cancelled or not, even if DNS never answers | 3 names, 2 slots (the default on two processors), timeout 2 ticks, every class of error `resolutionReason` tells apart |
| `reconciler` | `NeverForgotten`: a policy with rules always has a round, an event or a timer ahead. `LedgerStep`: a status write continues the ledger it was computed from | specs `s1` and `egress: []`, 2 incarnations, 2 edits, 1 fault (failed call or restart) |
| `reconciler_live` | `NeverForgotten` with watches that may be interrupted. `Converges`: after the last edit, fault and drift the mnp matches the policy, or is reported as somebody else's. `StrangerUntouched`: an mnp of somebody else is left alone, however stale the cache | 2 specs, 2 incarnations, 1 edit, 1 drift, 1 fault, interrupted watches; DNS gives one answer, so that there is something to converge to |

Two of everything is where these bounds come from: an address that is fresh and
one that is missing, a goroutine that waits while the slots are taken, an edit
and its reversal while a cache lags, an old and a new incarnation.

`CHECK_DEADLOCK FALSE` stands where the system may stop: after the result of a
computation or a call has been returned, and when there is no policy.

### Fairness

`ResolverTimed` (`TFairSpec`): the Go scheduler runs every goroutine that can run,
time passes, and a lookup returns when its context ends.  DNS owes no answer, and
nothing makes the caller's context be cancelled.
`Ledger`, `LedgerStore` and `Translation` state safety only.
`Reconciler`: the worker runs, watches deliver (change by change or with a list), timers fire and the garbage
collector works; nothing obliges the user, drift or failures, which are bounded.
In `reconciler_live` DNS keeps giving the same answer: an answer that changes
for ever gives the mnp nothing to converge to.

### What the code does not keep

Six runs are expected to be violated.  Each states what a comment or a
document of the repository says (quoted in `PROJECT.json`):

* `ledger_cleared`: with retention on, the addresses are not cleared by a
  permanent failure or an expired tolerance, contrary to the second
  sentence of the comment on `FQDNStatus.Addresses`; retention brings them back, as
  its first sentence says.
* `ledger_short_retention`: a retention period shorter than
  `retryTimeoutSeconds` cuts the tolerance short.
* `translation_range`: port entries that differ in `endPort` only collide.
* `reconciler_count`: `AppliedAddressCount` counts addresses whose application failed.
* `reconciler_stale_cache`: `Ready=True` for the current generation while the
  cluster has other rules, when the cached mnp lags (until the next TTL).
* `reconciler_empty_revoked`: the mnp survives a switch to `egress: []` when its
  deletion fails or the cache does not show it yet.

## Proofs

`LedgerProofs` proves, for every set of addresses, results and retention
periods and retry timeouts, chosen anew in every round, and every length of a
second:

* `TypeCorrect`, `FailureClockExact`, `RetentionClockExact`, `OnlyForAReason`,
  `OnlyWhatWasSeen` (invariants of run `ledger`),
* `RetentionHonoured` (its action property),
* `ToleranceTheorem`: `ToleranceHonoured`, if every retention period in use is
  zero or at least every retry timeout in use.  The code does not enforce that condition;
  run `ledger_short_retention` shows that it is needed.

Assumptions: the sentinels are not numbers (`SentinelAssumption`), `Second` is a
positive natural, results are as `DNSResolverResult` says, retention periods and
retry timeouts are integers (the CRD sets no minimum for
`retryTimeoutSeconds`), `MaxTime` is a natural number of any size.

The argument: `RetainedAddress` and `UnretainedAddress` reduce the nested cases of
`Update` and `Retain` to what is stored for one address; `AddressStep` restates
that in terms of the history.  The inductive invariant is `LedgerInv`:
`RecordedForAReason` and `NoEarlyDrop` speak of the time since an address was
seen, but the code looks only at `MissingSince`, hence `MissingSinceExact`; that
in turn needs `TruncateIdempotent` (a stored time is stored again unchanged)
and the order of the history's instants (`HistoryOrdered`).  `AnswerKept` ties
what is owed to the last reason and is needed for the tolerance.

`LedgerStoreProofs` proves, for any number of processes and any bounds as well:
`StoreTypeCorrect`, `StoreRefinesLedger` (`Spec => StoredIsLedger`) and
`SightingsKept`.  The invariant `StoreInv` is the argument of optimistic locking:
a copy that counts as current is np itself (`CopiesCurrent`), and it was stored
before any round that read it began (`InOrder`), so that a status that is stored was
computed from the one it replaces, at a later instant.  `RoundsResolve` says that a
round has a result if the name is in the spec it read.  `SightingKept` looks at one
address only and is not inductive: a missing address is kept because of its
`MissingSince`, so `SightingInv` adds that no `MissingSince` starts before the
sighting was stored, to the second.  `SameOperators` bridges the instance: the
operators of `FQDNStatus` that `Ledger` brings in are those of `LedgerStore`.

`ResolverProofs` proves, for every finite set of names (`FQDNAssumption`), every
positive limit (`MaxConcurrentAssumption`) and every set of lookup errors
(`ErrorsAssumption`): `ResolverTypeCorrect`, `ResolverBounded`,
`ResolverSendIsSafe`, `ResolverNothingLeftBehind`, `ResolverExactlyOneResult` and
`ResolverAggregateExact`.  The properties
speak of goroutines, the code looks only at counters, so the inductive invariant
`ResolverInv` says what the counters count: `sem` the goroutines that hold a slot,
`wg` those that run, `Len(chan) + Len(final)` those that have sent; and it orders
the phases (closed only after all are done).  `CountMove` is the one fact about
cardinalities behind it.  A buffer of one place per name is enough because each
goroutine that is about to send has not sent yet.  For `ExactlyOneResult` the
results in the channel and in the caller's list are read as one list
(`Arrived`), which `Collect` leaves alone and `Send` extends; `ResultsMatch` says
that its elements correspond one to one to the goroutines that have sent.
`AggregateExact` (status and reason do not depend on the order of arrival; which of
several names with that reason the message mentions does) follows from it: the results returned are the outcomes
(`FinalResults`), and a first failure of the highest priority exists
(`WorstResultIsWorst`), which is where `ExtremeNumbers` comes in: least elements of
sets of numbers stand in for induction, which the provers cannot do.

`ResolverTimedProofs` proves `TimedImplementsResolver` (the clock only restricts
the schedules), so that the theorems about `Resolver` hold of the timed
specification, which is the one run `resolver` checks (`TimedExactlyOneResult` and
`TimedAggregateExact` state two of them), and `TimedDurationBounded`, for every
positive timeout (`TimeoutAssumption`).  The bound is not inductive: it has to be known how
many lookups are behind at each moment.  `BatchesClaimed` says that once the clock
has passed `j - 1` timeouts, `j * MaxConcurrent` names, or all of them, have ended
their lookup or will within `j` timeouts.  Time passes only when every slot is taken
or nobody waits for one; at the moment when batch `j` is due, the lookups in flight
all end later than batch `j - 1` and not later than batch `j` (`DeadlinesNear`), so
a full semaphore adds `MaxConcurrent` names to those already claimed.  When the last
batch is over nothing is in flight, and the clock stops.

`TranslationProofs` proves `TranslationTypeCorrect` for all specs and ledgers, and
`GrantExactness`, `ResultCanonical` and `CountExactness` for specs of any size under the
hypothesis `KeysDistinct`: port entries of one spec that share protocol and port are
equal.  The code does not see to it, and run `translation_range` shows a spec for
which `GrantsExactly` fails without it; the specs of run `translation` satisfy it.
The invariant `TranslationInv` says what each phase leaves to the next: the
translated rules are the rules of the spec that open anything (`RulesExact`), every
address has the ports of all the rules seen so far that name it (`PortsMerged`),
and every address that has been grouped is in exactly one group, with the ports
the spec gives it (`GroupsExact`).  With distinct keys the port map is a union (`PutPortsUnion`)
and a fingerprint determines its ports (`FingerprintInjective`); both fail without.
`CollapsedCovers` says that an Any entry swallows only what it covers.  For
`CountExact`, which needs finitely many addresses (`AddressAssumption`),
`SumOfSizes` shows that the sum over the groups is the size of their union: the
function that gives every set of groups the number of its addresses satisfies the
recursion of the sum, and a smallest set on which the two differ cannot exist.

`ReconcilerProofs` proves, for any specs, finitely many addresses, any answers of DNS
and any bounds on edits, drifts and faults: `ReconcilerTypeCorrect`,
`PolicyNeverForgotten` (`NeverForgotten`), `LedgersSucceed` (`LedgerStep`) and
`StrangersUntouched` (`StrangerUntouched`).  `StrangersUntouched` has the hypothesis
that no spec is `egress: []`, `PolicyNeverForgotten` the hypothesis that no spec is or
that watches are not interrupted; the others have none.  Where every policy has rules,
whatever the cache holds is queued, has a timer or is being worked on
(`CacheIsScheduled`), and what it does not hold is an event.  With `egress: []`,
`NeverForgotten` is about a round that
ends with nothing left to do, which the code decides by a copy that may be old, so
`ReconcilerInv` relates copies to the policy: a copy that counts as fresh is the
current version (`CopiesCurrent`); an older one of the same incarnation has a lower
generation, or the same spec (`VersionsOrdered`); and while a round works on a copy with
`egress: []` although the policy has rules by now, another round is on its way
(`EmptyIsCovered`) — the one path that sets no timer.  `LedgerStep` needs
`RoundConsistent`: the ledger of a round continues that of its copy, which is still
the stored one when the write is accepted.

Every invariant and every action property of the passing runs but one is proved.  Only
model-checked are the liveness properties `Returns` and `Converges`, because liveness
under fairness is beyond the prover, and `ListsCanonical`, because what a sort returns is
defined by recursion, about which the provers cannot reason.  What the proofs leave to TLC besides: that the
hypotheses of a theorem can be met, and the six violations.

## Not modelled

* Of `cmd/main.go`, wiring, the lease, probes, metrics and certificates; its rule
  for the limit on lookups is `MaxConcurrentResolves`, and two processes at work are
  in `LedgerStore`.
* Clocks of replicas that differ: `FailingSince` and `MissingSince` are compared
  with the clock of whichever process does the next round.
* The number of lookups in flight in a process as a whole: `LookupsBounded` is about
  one call, which is all that the code limits.
* Generated deep copies, the manifests, events, messages and
  `LastTransitionTime`: they decide nothing.
* Parsing of CIDRs and FQDNs (`net.ParseCIDR`, a regular expression): strings are
  model values, an invalid name is one of the ways a lookup ends.
* The dialer of `NewDNSResolver`, `MapContains` (not called), tests.

## Plan

1. What a sort returns as an assumption, and `ListsCanonical` proved from it and from
   `ResultCanonical`.
2. An abstract specification of the reconciler ("the mnp is the translation of
   some version of the spec and of its ledger") that `Reconciler` implements, and
   the proof of that; annotations apart from labels.
3. What holds where a run is violated: `AcknowledgedIsApplied` while the cached
   mnp is not older than the controller's last write, `EmptyRevokes` when no deletion
   fails.
4. Clocks that differ from process to process in `LedgerStore`, and what remains of
   tolerance and retention then.
