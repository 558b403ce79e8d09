---------------------------- MODULE LedgerHistory ----------------------------
(***************************************************************************)
(* Ledger with history variables that remember, exactly and independently  *)
(* of the stored status, what DNS answered and when, and the properties    *)
(* the status must have in view of that history.  The history is observed  *)
(* only: Next adds to Ledger's Next nothing but the history's own updates. *)
(***************************************************************************)
EXTENDS Ledger

VARIABLES
  seen,       \* when DNS last returned each address, NoTime if it never did
  missedAt,   \* when a round with retention first missed an address
  failedAt,   \* when the current run of failed resolutions began
  owed,       \* the last successful answer, as long as it must be kept: until
              \* a permanent failure, or a round beyond its retry timeout
  tolerance,  \* the retry timeout of the last reconciliation
  keep        \* its retention period

hvars == <<at, status, seen, missedAt, failedAt, owed, tolerance, keep>>

ForgottenHistory ==
  /\ seen' = [a \in Address |-> NoTime]
  /\ missedAt' = [a \in Address |-> NoTime]
  /\ failedAt' = NoTime
  /\ owed' = {}

HInit ==
  /\ Init
  /\ seen = [a \in Address |-> NoTime]
  /\ missedAt = [a \in Address |-> NoTime]
  /\ failedAt = NoTime
  /\ owed = {}
  /\ tolerance = 0
  /\ keep = 0

\* FailingSince is stored rounded down, which may cost the tolerance a second.
HReconcile(now, result, retryTimeout, retention) ==
  /\ Reconcile(now, result, retryTimeout, retention)
  /\ seen' = [a \in Address |-> IF a \in result.cidrs THEN now ELSE seen[a]]
  /\ missedAt' = [a \in Address |->
       CASE retention <= 0 \/ a \in result.cidrs -> NoTime
         [] retention > 0 /\ a \notin result.cidrs /\ missedAt[a] = NoTime -> now
         [] OTHER -> missedAt[a]]
  /\ failedAt' = IF result.reason = "Success" THEN NoTime
                 ELSE IF failedAt = NoTime THEN now ELSE failedAt
  /\ owed' = IF result.reason = "Success" THEN result.cidrs
             ELSE IF /\ Transient(result.reason)
                     /\ now <= failedAt' + retryTimeout - Second
                  THEN owed ELSE {}
  /\ tolerance' = retryTimeout
  /\ keep' = retention

HForget ==
  /\ Forget
  /\ ForgottenHistory
  /\ UNCHANGED <<tolerance, keep>>

HNext ==
  \/ \E now \in 0..MaxTime, result \in Results,
        retryTimeout \in RetryTimeouts, retention \in Retentions :
       HReconcile(now, result, retryTimeout, retention)
  \/ HForget

HSpec == HInit /\ [][HNext]_hvars

-----------------------------------------------------------------------------
(***************************************************************************)
(* Properties.                                                             *)
(***************************************************************************)

TypeOK ==
  /\ at \in Nat
  /\ status \in Status
  /\ seen \in [Address -> {NoTime} \cup Nat]
  /\ missedAt \in [Address -> {NoTime} \cup Nat]
  /\ failedAt \in {NoTime} \cup Nat
  /\ owed \in SUBSET Address
  /\ tolerance \in Int /\ keep \in Int

\* FailingSince is the (whole-second) instant at which the current run of
\* failures began.  A change of reason within the run, a permanent failure
\* among transient ones, an expired tolerance or a change of either timeout
\* never restarts the clock against which Update measures
\* retryTimeoutSeconds, and only a success clears it.
FailingSinceExact ==
  status.failingSince = TruncateEntry(failedAt)

\* MissingSince is, for every address in the ledger, the (whole-second) instant
\* of the first round with retention on that did not get the address from
\* DNS, and nil while the address is fresh or retention is off: it survives
\* failures of every kind, and neither an answer without the address nor a
\* change of the retention period moves it.
MissingSinceExact ==
  \A a \in Recorded(status) : status.addresses[a] = TruncateEntry(missedAt[a])

\* Nothing is recorded that DNS never returned: whatever the sequence of
\* failures, retention periods and rounds, an address kept in the ledger (and
\* so opened in the network policy) is one that DNS gave for this FQDN since
\* it last entered the spec.
RecordedWasSeen ==
  \A a \in Recorded(status) : seen[a] # NoTime

\* Every address in the ledger is there for a reason that still holds: the
\* last lookup returned it, or retention is off and a transient failure has
\* just begun or is within the tolerance now asked for, or retention is on and
\* the address has been missing no longer than the retention period.
\* MissingSince is rounded down when it is stored, and so never lets an
\* address outstay it.
RecordedForAReason ==
  \A a \in Recorded(status) :
    \/ status.reason = "Success" /\ a \in owed
    \/ /\ keep <= 0
       /\ Transient(status.reason)
       /\ at = failedAt \/ at <= failedAt + tolerance
    \/ /\ keep > 0
       /\ missedAt[a] # NoTime
       /\ at - missedAt[a] <= keep

\* retryTimeoutSeconds is a tolerance: while resolution fails transiently and
\* no round has found the failure older than the timeout then in the spec,
\* every address of the last successful lookup stays in the ledger, however
\* the timeout is edited meanwhile.  (One second less, because FailingSince is
\* stored rounded down.)
ToleranceHonoured ==
  Transient(status.reason) => owed \subseteq Recorded(status)

\* What the comment on FQDNStatus.Addresses says: the list is empty after a
\* non-transient error, and after a transient one that has outlasted
\* retryTimeoutSeconds.
ClearedOnFailure ==
  \/ status.reason \in PermanentReasons
  \/ Transient(status.reason) /\ at > failedAt + tolerance
  => Recorded(status) = {}

\* With retention on, a reconciliation drops an address only if DNS has not
\* returned it for longer than the retention period asked for in that round
\* (less the one second that rounding MissingSince down may cost).
NoEarlyDrop ==
  [][\A a \in Address :
       /\ a \in Recorded(status)
       /\ a \notin Recorded(status')
       /\ keep' > 0
       /\ status' # BlankStatus
       => at' - seen[a] > keep' - Second]_hvars

=============================================================================
