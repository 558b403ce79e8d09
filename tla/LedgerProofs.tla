---------------------------- MODULE LedgerProofs ----------------------------
(***************************************************************************)
(* Proofs about LedgerHistory, for every set of addresses, of results and  *)
(* of retention periods, every retry timeout and every length of a second. *)
(*                                                                         *)
(* The invariant is LedgerInv.  None of the properties is inductive alone: *)
(* that an address does not outstay its retention needs the meaning of its *)
(* MissingSince in terms of the history (MissingSinceExact), which in turn *)
(* needs to know that MissingSince is nil exactly when no round with       *)
(* retention has missed the address yet.                                   *)
(***************************************************************************)
EXTENDS LedgerHistory, FQDNStatusProofs

\* The instants of the history are in order: an address is missed after it
\* was seen, and an address that is owed is missed only once the failures
\* after the last answer have begun.
HistoryOrdered ==
  /\ failedAt # NoTime => failedAt <= at
  /\ \A a \in Address :
       /\ seen[a] # NoTime => seen[a] <= at
       /\ missedAt[a] # NoTime => missedAt[a] <= at
       /\ seen[a] # NoTime /\ missedAt[a] # NoTime => seen[a] <= missedAt[a]
  /\ \A a \in owed :
       missedAt[a] # NoTime => failedAt # NoTime /\ failedAt <= missedAt[a]

\* What the last reason says of what is owed.
AnswerKept ==
  /\ status.reason = "Success" => owed \subseteq Recorded(status)
  /\ status.reason \notin TransientReasons \cup {"Success"} => owed = {}
  /\ status.reason = "" => failedAt = NoTime
  /\ status.reason # "" => (failedAt = NoTime <=> status.reason = "Success")

LedgerInv ==
  /\ TypeOK
  /\ FailingSinceExact
  /\ MissingSinceExact
  /\ RecordedWasSeen
  /\ RecordedForAReason
  /\ HistoryOrdered
  /\ AnswerKept

-----------------------------------------------------------------------------
(***************************************************************************)
(* The invariant.                                                          *)
(***************************************************************************)

\* A policy without any status satisfies the invariant.
LEMMA InitInv == HInit => LedgerInv
<1> SUFFICES ASSUME HInit PROVE LedgerInv
  OBVIOUS
<1> USE DEF HInit, Init
<1>1. TypeOK
  BY BlankIsStatus DEF TypeOK
<1>2. FailingSinceExact
  BY DEF FailingSinceExact, BlankStatus, TruncateEntry, HasTime
<1>3. MissingSinceExact /\ RecordedWasSeen /\ RecordedForAReason
  BY BlankIsStatus DEF MissingSinceExact, RecordedWasSeen, RecordedForAReason
<1>4. HistoryOrdered
  BY DEF HistoryOrdered
<1>5. AnswerKept
  BY DEF AnswerKept, BlankStatus
<1> QED
  BY <1>1, <1>2, <1>3, <1>4, <1>5 DEF LedgerInv

\* A name that leaves the spec loses its status together with its history.
LEMMA ForgetInv == LedgerInv /\ HForget => LedgerInv'
<1> SUFFICES ASSUME LedgerInv, HForget PROVE LedgerInv'
  OBVIOUS
<1> USE DEF HForget, Forget, ForgottenHistory
<1>1. TypeOK'
  BY BlankIsStatus DEF LedgerInv, TypeOK
<1>2. FailingSinceExact'
  BY DEF FailingSinceExact, BlankStatus, TruncateEntry, HasTime
<1>3. (MissingSinceExact /\ RecordedWasSeen /\ RecordedForAReason)'
  <2>1. Recorded(status') = {}
    BY BlankIsStatus
  <2> QED
    BY <2>1 DEF MissingSinceExact, RecordedWasSeen, RecordedForAReason
<1>4. HistoryOrdered'
  BY DEF HistoryOrdered
<1>5. AnswerKept'
  BY DEF AnswerKept, BlankStatus
<1> QED
  BY <1>1, <1>2, <1>3, <1>4, <1>5 DEF LedgerInv

\* What a reconciliation does to one address, in terms of the history.
LEMMA AddressStep ==
  ASSUME LedgerInv,
         NEW now \in Nat, NEW res \in DNSResolverResult, NEW rt \in Int, NEW r \in Int,
         HReconcile(now, res, rt, r),
         NEW a \in Address
  PROVE  /\ a \in res.cidrs => status'.addresses[a] = NoTime
         /\ r > 0 /\ a \notin res.cidrs /\ a \in Recorded(status) =>
              /\ missedAt'[a] \in Nat
              /\ missedAt'[a] = (IF missedAt[a] = NoTime THEN now ELSE missedAt[a])
              /\ a \in Recorded(status') =>
                   /\ status'.addresses[a] = Truncate(missedAt'[a])
                   /\ now - missedAt'[a] <= r
              /\ a \notin Recorded(status') => now - Truncate(missedAt'[a]) > r
         /\ r <= 0 /\ a \notin res.cidrs /\ a \in Recorded(status) =>
              /\ a \in Recorded(status') <=>
                   /\ Transient(res.reason)
                   /\ ~RetryExpired(status.failingSince, rt, now)
              /\ a \in Recorded(status') => status'.addresses[a] = NoTime
         /\ a \in Recorded(status') => a \in res.cidrs \/ a \in Recorded(status)
<1>0. /\ status \in Status
      /\ status.addresses[a] \in Entry
      /\ missedAt[a] \in {NoTime} \cup Nat
      /\ res.cidrs \in SUBSET Address
      /\ status' = Persisted(Reconciled(status, res, rt, r, now))
  BY ResultShape DEF LedgerInv, TypeOK, Status, HReconcile, Reconcile
<1>1. a \in Recorded(status) <=> status.addresses[a] # Absent
  BY DEF Recorded
<1>2. a \in Recorded(status') <=> status'.addresses[a] # Absent
  BY DEF Recorded
<1>3. a \in Recorded(status) => status.addresses[a] = TruncateEntry(missedAt[a])
  BY DEF LedgerInv, MissingSinceExact
<1>4. CASE r > 0
  <2> DEFINE missing == MissingTime(status.addresses[a], now)
  <2>1. status'.addresses[a] =
          IF a \in res.cidrs THEN NoTime
          ELSE IF status.addresses[a] # Absent /\ now - missing <= r
               THEN Truncate(missing) ELSE Absent
    <3>1. Persisted(Reconciled(status, res, rt, r, now)).addresses[a] =
            IF a \in res.cidrs THEN NoTime
            ELSE IF status.addresses[a] # Absent /\ now - missing <= r
                 THEN Truncate(missing) ELSE Absent
      BY <1>0, <1>4, RetainedAddress
    <3> QED
      BY <1>0, <3>1
  <2>2. ASSUME a \in Recorded(status), a \notin res.cidrs
        PROVE  /\ missedAt'[a] \in Nat
               /\ missedAt'[a] = (IF missedAt[a] = NoTime THEN now ELSE missedAt[a])
               /\ missing \in Nat
               /\ Truncate(missing) = Truncate(missedAt'[a])
               /\ missing <= missedAt'[a]
               /\ Truncate(missedAt'[a]) <= missing
    <3>1. CASE missedAt[a] = NoTime
      <4>1. missedAt'[a] = now
        BY <1>0, <1>4, <2>2, <3>1 DEF HReconcile
      <4>2. missing = now
        BY <1>3, <2>2, <3>1 DEF TruncateEntry, HasTime, MissingTime
      <4> QED
        BY <3>1, <4>1, <4>2, TruncateBounds
    <3>2. CASE missedAt[a] # NoTime
      <4>1. missedAt[a] \in Nat /\ missedAt[a] # Absent
        BY <1>0, <3>2, SentinelAssumption
      <4>2. missedAt'[a] = missedAt[a]
        BY <1>0, <1>4, <2>2, <3>2 DEF HReconcile
      <4>3. status.addresses[a] = Truncate(missedAt[a])
        BY <1>3, <2>2, <3>2, <4>1 DEF TruncateEntry, HasTime
      <4>4. missing = Truncate(missedAt[a])
        BY <4>1, <4>3, TruncateBounds, SentinelAssumption DEF MissingTime, HasTime
      <4> QED
        BY <3>2, <4>1, <4>2, <4>4, TruncateBounds, TruncateIdempotent
    <3> QED
      BY <3>1, <3>2
  <2>3. Truncate(missing) # Absent \/ a \notin Recorded(status) \/ a \in res.cidrs
    BY <2>2, TruncateBounds, SentinelAssumption
  <2> HIDE DEF missing
  <2> QED
    <3>1. CASE a \in res.cidrs
      BY <1>4, <2>1, <3>1
    <3>2. CASE a \notin res.cidrs /\ a \notin Recorded(status)
      BY <1>1, <1>2, <1>4, <2>1, <3>2
    <3>3. CASE a \notin res.cidrs /\ a \in Recorded(status)
      <4>1. a \in Recorded(status') <=> now - missing <= r
        BY <1>1, <1>2, <2>1, <2>3, <3>3
      <4>2. now - missing <= r => status'.addresses[a] = Truncate(missedAt'[a])
        BY <1>1, <2>1, <2>2, <3>3
      <4> QED
        BY <1>4, <2>2, <3>3, <4>1, <4>2, TruncateBounds
    <3> QED
      BY <3>1, <3>2, <3>3
<1>5. CASE r <= 0
  BY <1>0, <1>1, <1>2, <1>5, UnretainedAddress,
     SentinelAssumption
<1> QED
  BY <1>4, <1>5

\* A reconciliation preserves the invariant, conjunct by conjunct.
LEMMA ReconcileInv ==
  ASSUME LedgerInv,
         NEW now \in Nat, NEW res \in DNSResolverResult, NEW rt \in Int, NEW r \in Int,
         HReconcile(now, res, rt, r)
  PROVE  LedgerInv'
<1>0. /\ status \in Status /\ at \in Nat /\ owed \in SUBSET Address
      /\ seen \in [Address -> {NoTime} \cup Nat]
      /\ missedAt \in [Address -> {NoTime} \cup Nat]
      /\ failedAt \in {NoTime} \cup Nat
      /\ now >= at /\ at' = now /\ keep' = r /\ tolerance' = rt
      /\ status' = Persisted(Reconciled(status, res, rt, r, now))
  BY DEF LedgerInv, TypeOK, HReconcile, Reconcile
<1>a. /\ status'.reason = res.reason
      /\ status'.failingSince = TruncateEntry(UpdatedFailingSince(status, res, now))
  BY <1>0, StoredFields
<1>b. failedAt' = IF res.reason = "Success" THEN NoTime
                  ELSE IF failedAt = NoTime THEN now ELSE failedAt
  BY DEF HReconcile
<1>c. /\ seen' = [a \in Address |-> IF a \in res.cidrs THEN now ELSE seen[a]]
      /\ missedAt' = [a \in Address |->
           CASE r <= 0 \/ a \in res.cidrs -> NoTime
             [] r > 0 /\ a \notin res.cidrs /\ missedAt[a] = NoTime -> now
             [] OTHER -> missedAt[a]]
      /\ owed' = IF res.reason = "Success" THEN res.cidrs
                 ELSE IF Transient(res.reason) /\ now <= failedAt' + rt - Second
                      THEN owed ELSE {}
  BY DEF HReconcile
<1>d. /\ res.reason \in Reasons
      /\ res.cidrs \in SUBSET Address
      /\ res.reason # "Success" => res.cidrs = {}
  BY ResultShape
<1>1. TypeOK'
  <2>1. status' \in Status
    BY <1>0, StoredType
  <2>2. missedAt' \in [Address -> {NoTime} \cup Nat]
    BY <1>0, <1>c
  <2>3. seen' \in [Address -> {NoTime} \cup Nat]
    BY <1>0, <1>c
  <2>4. owed' \in SUBSET Address
    BY <1>0, <1>c, <1>d
  <2> QED
    BY <1>0, <1>b, <2>1, <2>2, <2>3, <2>4 DEF TypeOK
<1>2. FailingSinceExact'
  <2>1. status.failingSince = TruncateEntry(failedAt)
    BY DEF LedgerInv, FailingSinceExact
  <2>2. failedAt \in Entry
    BY <1>0 DEF Entry
  <2>3. status.failingSince = NoTime <=> failedAt = NoTime
    BY <2>1, <2>2, TruncateEntryType
  <2>4. TruncateEntry(TruncateEntry(failedAt)) = TruncateEntry(failedAt)
    BY <1>0, TruncateBounds, TruncateIdempotent, SentinelAssumption
    DEF TruncateEntry, HasTime
  <2> QED
    BY <1>a, <1>b, <2>1, <2>3, <2>4 DEF FailingSinceExact, UpdatedFailingSince
<1>3. MissingSinceExact'
  <2> SUFFICES ASSUME NEW a \in Recorded(status')
               PROVE  status'.addresses[a] = TruncateEntry(missedAt'[a])
    BY DEF MissingSinceExact
  <2>0. a \in Address
    BY DEF Recorded
  <2>1. CASE a \in res.cidrs \/ r <= 0
    <3>1. missedAt'[a] = NoTime
      BY <1>c, <2>0, <2>1
    <3>2. status'.addresses[a] = NoTime
      BY <2>0, <2>1, AddressStep
    <3> QED
      BY <3>1, <3>2 DEF TruncateEntry, HasTime
  <2>2. CASE a \notin res.cidrs /\ r > 0
    BY <2>0, <2>2, AddressStep, SentinelAssumption DEF TruncateEntry, HasTime
  <2> QED
    BY <2>1, <2>2
<1>4. RecordedWasSeen'
  <2> SUFFICES ASSUME NEW a \in Recorded(status')
               PROVE  seen'[a] # NoTime
    BY DEF RecordedWasSeen
  <2>0. a \in Address
    BY DEF Recorded
  <2>1. a \in res.cidrs \/ a \in Recorded(status)
    BY <2>0, AddressStep
  <2> QED
    BY <1>c, <2>0, <2>1, SentinelAssumption DEF LedgerInv, RecordedWasSeen
<1>5. RecordedForAReason'
  <2> SUFFICES ASSUME NEW a \in Recorded(status')
               PROVE  \/ status'.reason = "Success" /\ a \in owed'
                      \/ /\ keep' <= 0
                         /\ Transient(status'.reason)
                         /\ at' = failedAt' \/ at' <= failedAt' + tolerance'
                      \/ /\ keep' > 0
                         /\ missedAt'[a] # NoTime
                         /\ at' - missedAt'[a] <= keep'
    BY DEF RecordedForAReason
  <2>0. a \in Address
    BY DEF Recorded
  <2>1. CASE a \in res.cidrs
    BY <1>a, <1>c, <1>d, <2>1
  <2>2. CASE a \notin res.cidrs /\ r > 0
    BY <1>0, <2>0, <2>2, AddressStep, SentinelAssumption
  <2>3. CASE a \notin res.cidrs /\ r <= 0
    <3>1. /\ Transient(res.reason)
          /\ ~RetryExpired(status.failingSince, rt, now)
      BY <2>0, <2>3, AddressStep
    <3>2. res.reason # "Success"
      BY <3>1 DEF Transient, TransientReasons
    <3>3. status.failingSince = TruncateEntry(failedAt)
      BY DEF LedgerInv, FailingSinceExact
    <3>4. CASE failedAt = NoTime
      BY <1>0, <1>a, <1>b, <2>3, <3>1, <3>2, <3>4
    <3>5. CASE failedAt # NoTime
      <4>1. failedAt \in Nat /\ failedAt # Absent
        BY <1>0, <3>5, SentinelAssumption
      <4>2. status.failingSince = Truncate(failedAt)
        BY <3>3, <3>5, <4>1 DEF TruncateEntry, HasTime
      <4>3. now <= Truncate(failedAt) + rt
        BY <3>1, <4>1, <4>2, TruncateBounds, SentinelAssumption
        DEF RetryExpired
      <4> QED
        BY <1>0, <1>a, <1>b, <2>3, <3>1, <3>2, <3>5, <4>1, <4>3, TruncateBounds
    <3> QED
      BY <3>4, <3>5
  <2> QED
    BY <2>1, <2>2, <2>3
<1>6. HistoryOrdered'
  <2>1. failedAt' # NoTime => failedAt' <= at'
    BY <1>0, <1>b DEF LedgerInv, HistoryOrdered
  <2>2. ASSUME NEW a \in Address
        PROVE  /\ seen'[a] # NoTime => seen'[a] <= at'
               /\ missedAt'[a] # NoTime => missedAt'[a] <= at'
               /\ seen'[a] # NoTime /\ missedAt'[a] # NoTime
                    => seen'[a] <= missedAt'[a]
    <3>1. /\ seen[a] # NoTime => seen[a] \in Nat /\ seen[a] <= at
          /\ missedAt[a] # NoTime => missedAt[a] \in Nat /\ missedAt[a] <= at
          /\ seen[a] # NoTime /\ missedAt[a] # NoTime => seen[a] <= missedAt[a]
      BY <1>0 DEF LedgerInv, HistoryOrdered
    <3> QED
      BY <1>0, <1>c, <3>1
  <2>3. ASSUME NEW a \in owed', missedAt'[a] # NoTime
        PROVE  failedAt' # NoTime /\ failedAt' <= missedAt'[a]
    <3>1. a \in Address /\ a \notin res.cidrs /\ a \in owed
      BY <1>0, <1>c, <1>d, <2>3
    <3>2. res.reason # "Success"
      BY <1>c, <3>1
    <3>3. /\ missedAt[a] # NoTime => failedAt # NoTime /\ failedAt <= missedAt[a]
          /\ failedAt # NoTime => failedAt \in Nat /\ failedAt <= at
      BY <1>0, <3>1 DEF LedgerInv, HistoryOrdered
    <3>4. missedAt'[a] = (IF missedAt[a] = NoTime THEN now ELSE missedAt[a])
      BY <1>c, <2>3, <3>1
    <3> QED
      BY <1>0, <1>b, <3>2, <3>3, <3>4, SentinelAssumption
  <2> QED
    BY <2>1, <2>2, <2>3 DEF HistoryOrdered
<1>7. AnswerKept'
  <2>1. status'.reason = "Success" => owed' \subseteq Recorded(status')
    <3> SUFFICES ASSUME status'.reason = "Success", NEW a \in owed'
                 PROVE  a \in Recorded(status')
      OBVIOUS
    <3>1. a \in res.cidrs /\ a \in Address
      BY <1>a, <1>c, <1>d
    <3> QED
      BY <3>1, AddressStep, SentinelAssumption DEF Recorded
  <2>2. status'.reason \notin TransientReasons \cup {"Success"} => owed' = {}
    BY <1>a, <1>c DEF Transient
  <2>3. status'.reason # ""
    BY <1>a, <1>d DEF Reasons, TransientReasons, PermanentReasons
  <2>4. failedAt' = NoTime <=> status'.reason = "Success"
    BY <1>a, <1>b, SentinelAssumption
  <2> QED
    BY <2>1, <2>2, <2>3, <2>4 DEF AnswerKept
<1> QED
  BY <1>1, <1>2, <1>3, <1>4, <1>5, <1>6, <1>7 DEF LedgerInv

\* LedgerInv holds of every behaviour.
THEOREM Invariance == HSpec => []LedgerInv
<1>1. LedgerInv /\ [HNext]_hvars => LedgerInv'
  <2> SUFFICES ASSUME LedgerInv, [HNext]_hvars PROVE LedgerInv'
    OBVIOUS
  <2>1. ASSUME NEW now \in 0..MaxTime, NEW res \in Results,
               NEW rt \in RetryTimeouts, NEW r \in Retentions, HReconcile(now, res, rt, r)
        PROVE  LedgerInv'
    BY <2>1, ReconcileInv, ResultsAssumption, RetryTimeoutsAssumption,
       RetentionsAssumption, MaxTimeAssumption
  <2>2. CASE HForget
    BY <2>2, ForgetInv
  <2>3. CASE UNCHANGED hvars
    BY <2>3 DEF hvars, LedgerInv, TypeOK, FailingSinceExact, MissingSinceExact,
      RecordedWasSeen, RecordedForAReason, HistoryOrdered, AnswerKept
  <2> QED
    BY <2>1, <2>2, <2>3 DEF HNext
<1> QED
  BY <1>1, InitInv, PTL DEF HSpec

\* The types of the status and of its history.
THEOREM TypeCorrect == HSpec => []TypeOK
  BY Invariance, PTL DEF LedgerInv

\* FailingSince is the start of the current run of failures, to the second,
\* in every reachable status.
THEOREM FailureClockExact == HSpec => []FailingSinceExact
  BY Invariance, PTL DEF LedgerInv

\* MissingSince is the first round with retention that missed the address, to
\* the second, in every reachable status.
THEOREM RetentionClockExact == HSpec => []MissingSinceExact
  BY Invariance, PTL DEF LedgerInv

\* No address is opened without a reason: it is fresh, tolerated or retained.
THEOREM OnlyForAReason == HSpec => []RecordedForAReason
  BY Invariance, PTL DEF LedgerInv

\* No address is opened that DNS did not return for the name.
THEOREM OnlyWhatWasSeen == HSpec => []RecordedWasSeen
  BY Invariance, PTL DEF LedgerInv

\* Retention never drops an address early, whatever failures, answers and
\* changes of the retention period come before.
THEOREM RetentionHonoured == HSpec => NoEarlyDrop
<1> DEFINE Step ==
      \A a \in Address :
        /\ a \in Recorded(status)
        /\ a \notin Recorded(status')
        /\ keep' > 0
        /\ status' # BlankStatus
        => at' - seen[a] > keep' - Second
<1>1. LedgerInv /\ [HNext]_hvars => [Step]_hvars
  <2> SUFFICES ASSUME LedgerInv, HNext, NEW a \in Address,
                      a \in Recorded(status), a \notin Recorded(status'),
                      keep' > 0, status' # BlankStatus
               PROVE  at' - seen[a] > keep' - Second
    BY DEF Recorded
  <2>1. PICK now \in 0..MaxTime, res \in Results, rt \in RetryTimeouts, r \in Retentions :
          HReconcile(now, res, rt, r)
    BY DEF HNext, HForget, Forget
  <2>2. now \in Nat /\ res \in DNSResolverResult /\ rt \in Int /\ r \in Int
    BY ResultsAssumption, RetryTimeoutsAssumption, RetentionsAssumption, MaxTimeAssumption
  <2>3. /\ at \in Nat /\ now >= at /\ at' = now /\ keep' = r
        /\ seen[a] \in Nat /\ seen[a] <= at
        /\ missedAt[a] # NoTime => missedAt[a] \in Nat /\ seen[a] <= missedAt[a]
    BY <2>1 DEF LedgerInv, TypeOK, HistoryOrdered, RecordedWasSeen, HReconcile, Reconcile
  <2>4. a \notin res.cidrs
    BY <2>1, <2>2, AddressStep, SentinelAssumption DEF Recorded
  <2>5. /\ missedAt'[a] \in Nat
        /\ missedAt'[a] = (IF missedAt[a] = NoTime THEN now ELSE missedAt[a])
        /\ now - Truncate(missedAt'[a]) > r
    BY <2>1, <2>2, <2>3, <2>4, AddressStep
  <2> QED
    BY <2>2, <2>3, <2>5, TruncateBounds, SecondAssumption
<1> QED
  BY <1>1, Invariance, PTL DEF HSpec, NoEarlyDrop

-----------------------------------------------------------------------------
(***************************************************************************)
(* The retry tolerance.  It holds under a condition the code does not      *)
(* enforce: that every retention period in use is either zero or at least  *)
(* any retry timeout.                                                      *)
(***************************************************************************)

RetentionCoversRetry ==
  \A r \in Retentions, rt \in RetryTimeouts : r <= 0 \/ r >= rt

\* A reconciliation does not withdraw an address within the tolerance.
LEMMA ToleranceStep ==
  ASSUME RetentionCoversRetry, LedgerInv, ToleranceHonoured,
         NEW now \in Nat, NEW res \in DNSResolverResult,
         NEW rt \in RetryTimeouts, NEW r \in Retentions, HReconcile(now, res, rt, r)
  PROVE  ToleranceHonoured'
<1> SUFFICES ASSUME Transient(status'.reason), NEW a \in owed'
             PROVE  a \in Recorded(status')
  BY DEF ToleranceHonoured
<1>0. /\ status \in Status /\ at \in Nat /\ failedAt \in {NoTime} \cup Nat
      /\ missedAt \in [Address -> {NoTime} \cup Nat]
      /\ owed \in SUBSET Address
      /\ now >= at /\ at' = now /\ rt \in Int /\ r \in Int
      /\ status' = Persisted(Reconciled(status, res, rt, r, now))
  BY RetryTimeoutsAssumption, RetentionsAssumption DEF LedgerInv, TypeOK, HReconcile, Reconcile
<1>1. status'.reason = res.reason
  BY <1>0, StoredFields
<1>2. res.reason # "Success" /\ Transient(res.reason)
  BY <1>1 DEF Transient, TransientReasons
<1>3. /\ a \in owed /\ a \in Address /\ a \notin res.cidrs
      /\ now <= failedAt' + rt - Second
      /\ failedAt' = IF failedAt = NoTime THEN now ELSE failedAt
  BY <1>0, <1>2, ResultShape DEF HReconcile
<1>4. status.reason \in TransientReasons \cup {"Success"}
  BY <1>3 DEF LedgerInv, AnswerKept
<1>5. a \in Recorded(status)
  <2>1. CASE status.reason = "Success"
    BY <1>3, <2>1 DEF LedgerInv, AnswerKept
  <2>2. CASE status.reason \in TransientReasons
    BY <1>3, <2>2 DEF ToleranceHonoured, Transient
  <2> QED
    BY <1>4, <2>1, <2>2
<1>6. CASE r <= 0
  <2>1. status.failingSince = TruncateEntry(failedAt)
    BY DEF LedgerInv, FailingSinceExact
  <2>2. ~RetryExpired(status.failingSince, rt, now)
    <3>1. CASE failedAt = NoTime
      BY <2>1, <3>1 DEF RetryExpired, TruncateEntry, HasTime
    <3>2. CASE failedAt # NoTime
      <4>1. failedAt \in Nat /\ failedAt # Absent
        BY <1>0, <3>2, SentinelAssumption
      <4>2. status.failingSince = Truncate(failedAt)
        BY <2>1, <3>2, <4>1 DEF TruncateEntry, HasTime
      <4>3. now <= failedAt + rt - Second
        BY <1>0, <1>3, <3>2
      <4> QED
        BY <1>0, <4>1, <4>2, <4>3, TruncateBounds, SecondAssumption
        DEF RetryExpired
    <3> QED
      BY <3>1, <3>2
  <2> QED
    BY <1>0, <1>2, <1>3, <1>5, <1>6, <2>2, AddressStep
<1>7. CASE r > 0
  <2>1. r >= rt
    BY <1>0, <1>7 DEF RetentionCoversRetry
  <2>2. SUFFICES ASSUME a \notin Recorded(status') PROVE FALSE
    OBVIOUS
  <2>3. /\ missedAt'[a] \in Nat
        /\ missedAt'[a] = (IF missedAt[a] = NoTime THEN now ELSE missedAt[a])
        /\ now - Truncate(missedAt'[a]) > r
    BY <1>0, <1>3, <1>5, <1>7, <2>2, AddressStep
  <2>4. /\ missedAt[a] # NoTime => failedAt # NoTime /\ failedAt <= missedAt[a]
        /\ failedAt # NoTime => failedAt \in Nat /\ failedAt <= at
    BY <1>0, <1>3 DEF LedgerInv, HistoryOrdered
  <2>5. failedAt' \in Nat /\ failedAt' <= missedAt'[a]
    BY <1>0, <1>3, <2>3, <2>4
  <2>6. now <= failedAt' + rt - Second
    BY <1>3
  <2>7. /\ Truncate(missedAt'[a]) \in Nat
        /\ missedAt'[a] - Second < Truncate(missedAt'[a])
    BY <2>3, TruncateBounds
  <2>8. PICK f \in Nat, m \in Nat, t \in Nat :
          /\ f = failedAt' /\ m = missedAt'[a] /\ t = Truncate(missedAt'[a])
    BY <2>3, <2>5, <2>7
  <2>9. now <= f + rt - Second /\ f <= m /\ m - Second < t /\ now - t > r
    BY <2>3, <2>5, <2>6, <2>7, <2>8
  <2> QED
    BY <1>0, <2>1, <2>9, SecondAssumption
<1> QED
  BY <1>0, <1>6, <1>7

\* If no retention period in use is shorter than a retry timeout in use, no
\* address of the last answer is withdrawn within the tolerance, however both
\* are edited between two rounds.
THEOREM ToleranceTheorem ==
  ASSUME RetentionCoversRetry
  PROVE  HSpec => []ToleranceHonoured
<1>1. HInit => ToleranceHonoured
  BY DEF HInit, Init, ToleranceHonoured, BlankStatus, Transient, TransientReasons
<1>2. LedgerInv /\ ToleranceHonoured /\ [HNext]_hvars => ToleranceHonoured'
  <2> SUFFICES ASSUME LedgerInv, ToleranceHonoured, [HNext]_hvars
               PROVE  ToleranceHonoured'
    OBVIOUS
  <2>1. ASSUME NEW now \in 0..MaxTime, NEW res \in Results,
               NEW rt \in RetryTimeouts, NEW r \in Retentions, HReconcile(now, res, rt, r)
        PROVE  ToleranceHonoured'
    BY <2>1, ToleranceStep, ResultsAssumption, MaxTimeAssumption
  <2>2. CASE HForget
    BY <2>2 DEF HForget, Forget, ForgottenHistory, ToleranceHonoured, BlankStatus,
      Transient, TransientReasons
  <2>3. CASE UNCHANGED hvars
    BY <2>3 DEF hvars, ToleranceHonoured
  <2> QED
    BY <2>1, <2>2, <2>3 DEF HNext
<1> QED
  BY <1>1, <1>2, Invariance, PTL DEF HSpec

=============================================================================
