------------------------------- MODULE Ledger -------------------------------
(***************************************************************************)
(* The life of one FQDN's status as a sequence of completed                *)
(* reconciliations: what the status sub-resource promises, with the        *)
(* concurrency of the controller left out.  Every reconciliation happens   *)
(* at an instant not before the previous one, sees some resolution result  *)
(* and some retry timeout and retention period (the spec and the           *)
(* annotation may change between two rounds), and stores the new status.   *)
(***************************************************************************)
EXTENDS FQDNStatus

CONSTANTS
  Results,        \* the resolution results DNS may give
  Retentions,     \* the retention periods (in ticks) the annotation may ask for
  RetryTimeouts,  \* the values (in ticks) spec.retryTimeoutSeconds may have
  MaxTime         \* bound: no reconciliation is later than this

ASSUME ResultsAssumption == Results \subseteq DNSResolverResult
ASSUME RetentionsAssumption == Retentions \subseteq Int
ASSUME RetryTimeoutsAssumption == RetryTimeouts \subseteq Int
ASSUME MaxTimeAssumption == MaxTime \in Nat

VARIABLES
  at,       \* the instant of the last reconciliation
  status    \* the status it stored

vars == <<at, status>>

Init ==
  /\ at = 0
  /\ status = BlankStatus

Reconcile(now, result, retryTimeout, retention) ==
  /\ now >= at
  /\ at' = now
  /\ status' = Persisted(Reconciled(status, result, retryTimeout, retention, now))

\* Mutant of Forget: the addresses of a name that left the spec stay.
ForgetKeepsAddresses ==
  /\ status # BlankStatus
  /\ status' = [BlankStatus EXCEPT !.addresses = status.addresses]
  /\ UNCHANGED at

\* The FQDN leaves the spec (or the policy is deleted): the next status list
\* has no element for it, and a later return starts from a blank one.
Forget ==
  /\ status # BlankStatus
  /\ status' = BlankStatus
  /\ UNCHANGED at

Next ==
  \/ \E now \in 0..MaxTime, result \in Results,
        retryTimeout \in RetryTimeouts, retention \in Retentions :
       Reconcile(now, result, retryTimeout, retention)
  \/ Forget

Spec == Init /\ [][Next]_vars

=============================================================================
