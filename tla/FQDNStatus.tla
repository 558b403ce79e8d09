----------------------------- MODULE FQDNStatus -----------------------------
(***************************************************************************)
(* The resolution status of one FQDN, as NetworkPolicy.Status.FQDNs keeps  *)
(* it between two reconciliations, and the pure functions that carry it    *)
(* from one reconciliation to the next: FQDNStatus.Update, the             *)
(* IP-retention pass of Reconcile, and the encoding of its timestamps.     *)
(*                                                                         *)
(* A status is a record                                                    *)
(*   addresses    : for every address, Absent (no AddressEntry), NoTime    *)
(*                  (an entry whose MissingSince is nil) or a number (an   *)
(*                  entry whose MissingSince is that instant);             *)
(*   failingSince : NoTime (nil) or the instant FailingSince holds;        *)
(*   reason       : the reason of the last resolution, "" in a blank one.  *)
(* The order of the entries is fixed by a sort before every write, so a    *)
(* function on addresses loses nothing.  LastTransitionTime and Message    *)
(* are written and never read, and are left out.                           *)
(*                                                                         *)
(* Time is counted in ticks, Second of them to the second.                 *)
(***************************************************************************)
EXTENDS Integers

CONSTANTS
  Address,    \* the addresses ("a.b.c.d/32") an FQDN can resolve to
  Absent,     \* no AddressEntry for an address
  NoTime,     \* a nil *metav1.Time
  Second      \* ticks in one second

ASSUME SentinelAssumption ==
  /\ Absent \notin Int
  /\ NoTime \notin Int
  /\ Absent # NoTime

ASSUME SecondAssumption == Second \in Nat \ {0}

(***************************************************************************)
(* Outcomes of resolving one FQDN.                                         *)
(***************************************************************************)
TransientReasons == {"Timeout", "TemporaryError", "Error"}
PermanentReasons == {"HostNotFound", "InvalidFormat"}
Reasons == {"Success"} \cup TransientReasons \cup PermanentReasons

Transient(reason) == reason \in TransientReasons

\* What DNSResolver.Resolve may report for one FQDN: a success carries at
\* least one address, a failure carries none.
DNSResolverResult ==
  [reason : {"Success"}, cidrs : (SUBSET Address) \ {{}}]
    \cup [reason : Reasons \ {"Success"}, cidrs : {{}}]

(***************************************************************************)
(* The status record.                                                      *)
(***************************************************************************)
Entry == {Absent, NoTime} \cup Nat
Status == [addresses : [Address -> Entry],
           failingSince : {NoTime} \cup Nat,
           reason : Reasons \cup {""}]

NoAddresses == [a \in Address |-> Absent]

\* The status of an FQDN that is not in the list yet.
BlankStatus ==
  [addresses |-> NoAddresses, failingSince |-> NoTime, reason |-> ""]

Recorded(status) == {a \in Address : status.addresses[a] # Absent}

\* An entry that carries a MissingSince.
HasTime(entry) == entry \notin {Absent, NoTime}

(***************************************************************************)
(* FQDNStatus.Update.  A success replaces the addresses; a transient       *)
(* failure keeps them until the failure has lasted longer than             *)
(* retryTimeout; any other failure drops them at once.                     *)
(***************************************************************************)
\* Mutant of RetryExpired: the timeout is not added to the start of the failure.
RetryExpiredAtOnce(failingSince, retryTimeout, now) ==
  failingSince # NoTime /\ now > failingSince

RetryExpired(failingSince, retryTimeout, now) ==
  failingSince # NoTime /\ now > failingSince + retryTimeout

UpdatedAddresses(f, result, retryTimeout, now) ==
  CASE result.reason = "Success" ->
         [a \in Address |-> IF a \in result.cidrs THEN NoTime ELSE Absent]
    [] Transient(result.reason) /\ ~RetryExpired(f.failingSince, retryTimeout, now) ->
         f.addresses
    [] OTHER -> NoAddresses

\* Mutant of UpdatedFailingSince: every failure restarts the clock.
UpdatedFailingSinceRestarted(f, result, now) ==
  IF result.reason = "Success" THEN NoTime ELSE now

UpdatedFailingSince(f, result, now) ==
  IF result.reason = "Success" THEN NoTime
  ELSE IF f.failingSince = NoTime THEN now ELSE f.failingSince

Update(f, result, retryTimeout, now) ==
  [addresses |-> UpdatedAddresses(f, result, retryTimeout, now),
   failingSince |-> UpdatedFailingSince(f, result, now),
   reason |-> result.reason]

(***************************************************************************)
(* The retention pass of Reconcile.  fresh is what this round's successful *)
(* lookup returned.  Its two loops (over the entries Update left, then     *)
(* over the entries of the previous status not yet handled) apply the same *)
(* test to an address that is not fresh, so they are one clause here.      *)
(***************************************************************************)
FreshlyResolved(result) ==
  IF result.reason = "Success" THEN result.cidrs ELSE {}

\* Mutant of MissingTime: the recorded instant is not taken over.
MissingTimeRestarted(old, now) == now

MissingTime(old, now) == IF HasTime(old) THEN old ELSE now

\* Mutant of Retain: the start of the retention window is stored.
RetainBackdated(previous, current, fresh, retention, now) ==
  [a \in Address |->
     LET missing == MissingTime(previous[a], now) IN
     CASE current[a] # Absent /\ a \in fresh -> NoTime
       [] /\ current[a] # Absent \/ previous[a] # Absent
          /\ a \notin fresh
          /\ now - missing <= retention -> now - retention
       [] OTHER -> Absent]

\* Mutant of Retain: the retention period is not looked at.
RetainForever(previous, current, fresh, retention, now) ==
  [a \in Address |->
     CASE a \in fresh -> NoTime
       [] a \notin fresh /\ (current[a] # Absent \/ previous[a] # Absent) ->
            MissingTime(previous[a], now)
       [] OTHER -> Absent]

\* Mutant of Retain: the second loop, over the previous entries, is missing.
RetainCurrentOnly(previous, current, fresh, retention, now) ==
  [a \in Address |->
     LET missing == MissingTime(previous[a], now) IN
     CASE current[a] # Absent /\ a \in fresh -> NoTime
       [] current[a] # Absent /\ a \notin fresh /\ now - missing <= retention -> missing
       [] OTHER -> Absent]

Retain(previous, current, fresh, retention, now) ==
  [a \in Address |->
     LET missing == MissingTime(previous[a], now) IN
     CASE current[a] # Absent /\ a \in fresh -> NoTime
       [] /\ current[a] # Absent \/ previous[a] # Absent
          /\ a \notin fresh
          /\ now - missing <= retention -> missing
       [] OTHER -> Absent]

\* Without retention every MissingSince is set to nil.
WipeMissingSince(current) ==
  [a \in Address |-> IF current[a] = Absent THEN Absent ELSE NoTime]

\* What one reconciliation makes of the previous status.
Reconciled(previous, result, retryTimeout, retention, now) ==
  LET updated == Update(previous, result, retryTimeout, now) IN
  [updated EXCEPT !.addresses =
     IF retention > 0
     THEN Retain(previous.addresses, updated.addresses,
                 FreshlyResolved(result), retention, now)
     ELSE WipeMissingSince(updated.addresses)]

(***************************************************************************)
(* The API server keeps a metav1.Time as RFC 3339 with whole seconds, so   *)
(* what the next reconciliation reads back is rounded down.                *)
(***************************************************************************)
Truncate(t) == t - (t % Second)

TruncateEntry(entry) == IF HasTime(entry) THEN Truncate(entry) ELSE entry

Persisted(status) ==
  [addresses |-> [a \in Address |-> TruncateEntry(status.addresses[a])],
   failingSince |-> TruncateEntry(status.failingSince),
   reason |-> status.reason]

=============================================================================
