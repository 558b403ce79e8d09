------------------------------ MODULE Resolver ------------------------------
(***************************************************************************)
(* One call of DNSResolver.Resolve: a goroutine per FQDN, a semaphore that *)
(* bounds the lookups in flight, a buffered result channel, a wait group,  *)
(* a goroutine that closes the channel, and the caller that collects.      *)
(*                                                                         *)
(* The goroutine of an FQDN goes through                                   *)
(*   "new"      not started yet by the caller's loop;                      *)
(*   "select"   waiting for a semaphore slot or for the context;           *)
(*   "lookup"   lookupIP under a context with the per-FQDN timeout;        *)
(*   "send"     about to send the lookup's result;                         *)
(*   "abort"    about to send "Context canceled before resolution ...";    *)
(*   "release"  sent, about to run the deferred <-sem;                     *)
(*   "finish"   about to run the deferred wg.Done();                       *)
(*   "done".                                                               *)
(* The deferred calls run last first: cancel (of the child context, which  *)
(* no one else uses, so it is part of the send), <-sem, wg.Done.           *)
(***************************************************************************)
EXTENDS Integers, Sequences, FiniteSets

CONSTANTS
  FQDN,           \* the names to resolve
  MaxConcurrent,  \* capacity of the semaphore
  Errors          \* how a lookup may end

ASSUME FQDNAssumption == IsFiniteSet(FQDN)
\* main replaces a limit that is not positive (see MaxConcurrentResolves).
ASSUME MaxConcurrentAssumption == MaxConcurrent \in Nat \ {0}

\* The limit that main passes on: the flag if it is positive, otherwise the
\* number of processors, but at least 1 and at most 20.
MaxConcurrentResolves(flag, procs) ==
  IF flag > 0 THEN flag
  ELSE IF procs < 1 THEN 1 ELSE IF procs > 20 THEN 20 ELSE procs

(***************************************************************************)
(* resolutionReason.  A lookup ends without error, with the error of       *)
(* lookupIP for a name that is not valid, with an error of its context, or *)
(* with a DNS error that carries flags.  The cases are tried in order.     *)
(***************************************************************************)
Flags == {"timeout", "notFound", "temporary"}
LookupError ==
  [kind : {"none", "invalid", "deadline", "canceled", "other"}, flags : {{}}]
    \cup [kind : {"dns"}, flags : SUBSET Flags]

ASSUME ErrorsAssumption == Errors \subseteq LookupError

resolutionReason(err) ==
  CASE err.kind = "none" -> "Success"
    [] err.kind = "invalid" -> "InvalidFormat"
    [] err.kind = "deadline" -> "Timeout"
    [] err.kind \in {"canceled", "other"} -> "Error"
    [] err.kind = "dns" -> IF "timeout" \in err.flags THEN "Timeout"
                           ELSE IF "notFound" \in err.flags THEN "HostNotFound"
                           ELSE IF "temporary" \in err.flags THEN "TemporaryError"
                           ELSE "Error"

\* The error of a cancelled context, and the one a goroutine reports when its
\* context ends before it gets a slot: both have reason Error.
Canceled == [kind |-> "canceled", flags |-> {}]

Reasons == {"Success", "Error", "HostNotFound", "InvalidFormat", "Timeout",
            "TemporaryError"}

NewDNSResolverResult(f, err) == [fqdn |-> f, reason |-> resolutionReason(err)]

VARIABLES
  pc,       \* where each goroutine is
  outcome,  \* the result each goroutine is about to send
  ctxDone,  \* the context of the reconciliation has been cancelled
  sem,      \* slots taken
  wg,       \* counter of the wait group
  chan,     \* buffered results
  closed,   \* the channel has been closed
  caller,   \* "spawn", "collect" or "returned"
  final     \* the results collected so far

vars == <<pc, outcome, ctxDone, sem, wg, chan, closed, caller, final>>

Init ==
  /\ pc = [f \in FQDN |-> "new"]
  /\ outcome = [f \in FQDN |-> NewDNSResolverResult(f, Canceled)]
  /\ ctxDone = FALSE
  /\ sem = 0
  /\ wg = 0
  /\ chan = <<>>
  /\ closed = FALSE
  /\ caller = "spawn"
  /\ final = <<>>

Goto(f, label) == pc' = [pc EXCEPT ![f] = label]

-----------------------------------------------------------------------------
(***************************************************************************)
(* The caller.                                                             *)
(***************************************************************************)
\* Mutant of Spawn: wg.Add is missing.
SpawnWithoutAdd(f) ==
  /\ caller = "spawn"
  /\ pc[f] = "new"
  /\ Goto(f, "select")
  /\ UNCHANGED <<outcome, ctxDone, sem, wg, chan, closed, caller, final>>

Spawn(f) ==
  /\ caller = "spawn"
  /\ pc[f] = "new"
  /\ wg' = wg + 1
  /\ Goto(f, "select")
  /\ UNCHANGED <<outcome, ctxDone, sem, chan, closed, caller, final>>

\* All goroutines are started, the closing one too.  Without names Resolve
\* has returned before it creates anything.
Spawned ==
  /\ caller = "spawn"
  /\ \A f \in FQDN : pc[f] # "new"
  /\ caller' = IF FQDN = {} THEN "returned" ELSE "collect"
  /\ UNCHANGED <<pc, outcome, ctxDone, sem, wg, chan, closed, final>>

Collect ==
  /\ caller = "collect"
  /\ chan # <<>>
  /\ final' = Append(final, Head(chan))
  /\ chan' = Tail(chan)
  /\ UNCHANGED <<pc, outcome, ctxDone, sem, wg, closed, caller>>

\* Mutant of Return: the loop ends as soon as the channel is empty.
ReturnWhenDrained ==
  /\ caller = "collect"
  /\ chan = <<>>
  /\ final # <<>>
  /\ caller' = "returned"
  /\ UNCHANGED <<pc, outcome, ctxDone, sem, wg, chan, closed, final>>

Return ==
  /\ caller = "collect"
  /\ chan = <<>>
  /\ closed
  /\ caller' = "returned"
  /\ UNCHANGED <<pc, outcome, ctxDone, sem, wg, chan, closed, final>>

\* Mutant of Close: the channel is closed without waiting.
CloseWithoutWait ==
  /\ caller # "spawn"
  /\ FQDN # {}
  /\ ~closed
  /\ closed' = TRUE
  /\ UNCHANGED <<pc, outcome, ctxDone, sem, wg, chan, caller, final>>

\* The closing goroutine: wg.Wait(), then close(resultsChan).
Close ==
  /\ caller # "spawn"
  /\ FQDN # {}
  /\ wg = 0
  /\ ~closed
  /\ closed' = TRUE
  /\ UNCHANGED <<pc, outcome, ctxDone, sem, wg, chan, caller, final>>

(***************************************************************************)
(* The goroutine of one FQDN.                                              *)
(***************************************************************************)
\* Mutants of SlotFree: one slot too many, and a last slot that is never taken.
SlotFreeOneMore == sem <= MaxConcurrent
SlotFreeOneFewer == sem + 1 < MaxConcurrent

\* The buffer of the channel sem has room.
SlotFree == sem < MaxConcurrent

\* When both a slot and the context are ready, select takes either.
Acquire(f) ==
  /\ pc[f] = "select"
  /\ SlotFree
  /\ sem' = sem + 1
  /\ Goto(f, "lookup")
  /\ UNCHANGED <<outcome, ctxDone, wg, chan, closed, caller, final>>

Abort(f) ==
  /\ pc[f] = "select"
  /\ ctxDone
  /\ outcome' = [outcome EXCEPT ![f] = NewDNSResolverResult(f, Canceled)]
  /\ Goto(f, "abort")
  /\ UNCHANGED <<ctxDone, sem, wg, chan, closed, caller, final>>

\* lookupIP returns, at the latest when its context ends.
Lookup(f, err) ==
  /\ pc[f] = "lookup"
  /\ err.kind = "canceled" => ctxDone
  /\ outcome' = [outcome EXCEPT ![f] = NewDNSResolverResult(f, err)]
  /\ Goto(f, "send")
  /\ UNCHANGED <<ctxDone, sem, wg, chan, closed, caller, final>>

Send(f) ==
  /\ pc[f] \in {"send", "abort"}
  /\ Len(chan) < Cardinality(FQDN)
  /\ chan' = Append(chan, outcome[f])
  /\ Goto(f, IF pc[f] = "send" THEN "release" ELSE "finish")
  /\ UNCHANGED <<outcome, ctxDone, sem, wg, closed, caller, final>>

\* Mutant of Release: the deferred <-sem is missing.
ReleaseKeepsSlot(f) ==
  /\ pc[f] = "release"
  /\ Goto(f, "finish")
  /\ UNCHANGED <<outcome, ctxDone, sem, wg, chan, closed, caller, final>>

Release(f) ==
  /\ pc[f] = "release"
  /\ sem' = sem - 1
  /\ Goto(f, "finish")
  /\ UNCHANGED <<outcome, ctxDone, wg, chan, closed, caller, final>>

\* Mutant of Finish: the deferred wg.Done() is missing.
FinishWithoutDone(f) ==
  /\ pc[f] = "finish"
  /\ Goto(f, "done")
  /\ UNCHANGED <<outcome, ctxDone, sem, wg, chan, closed, caller, final>>

Finish(f) ==
  /\ pc[f] = "finish"
  /\ wg' = wg - 1
  /\ Goto(f, "done")
  /\ UNCHANGED <<outcome, ctxDone, sem, chan, closed, caller, final>>

\* The manager shuts down.
Cancel ==
  /\ ~ctxDone
  /\ caller # "returned"
  /\ ctxDone' = TRUE
  /\ UNCHANGED <<pc, outcome, sem, wg, chan, closed, caller, final>>

Goroutine(f) ==
  \/ Acquire(f)
  \/ Abort(f)
  \/ \E err \in Errors : Lookup(f, err)
  \/ Send(f)
  \/ Release(f)
  \/ Finish(f)

Caller ==
  \/ \E f \in FQDN : Spawn(f)
  \/ Spawned
  \/ Collect
  \/ Return

Next == Caller \/ Close \/ Cancel \/ \E f \in FQDN : Goroutine(f)

Spec == Init /\ [][Next]_vars

\* The Go scheduler runs every goroutine that can run; a lookup ends because
\* its context has a deadline.
FairSpec ==
  /\ Spec
  /\ WF_vars(Caller)
  /\ WF_vars(Close)
  /\ \A f \in FQDN : WF_vars(Goroutine(f))

-----------------------------------------------------------------------------
(***************************************************************************)
(* What the caller makes of the results.                                   *)
(***************************************************************************)
Succeeded(results) == {k \in DOMAIN results : results[k].reason = "Success"}
Failed(results) == DOMAIN results \ Succeeded(results)

AggregatedResolutionStatus(results) ==
  CASE Succeeded(results) = DOMAIN results -> "Success"
    [] DOMAIN results # {} /\ Succeeded(results) = {} -> "Failure"
    [] OTHER -> "PartialSuccess"

Priority(reason) ==
  CASE reason = "Failure" -> 100
    [] reason = "PartialSuccess" -> 90
    [] reason = "Error" -> 10
    [] reason = "HostNotFound" -> 8
    [] reason = "InvalidFormat" -> 6
    [] reason = "Timeout" -> 4
    [] reason = "TemporaryError" -> 2
    [] OTHER -> 0

\* Mutant of WorstResult: the last failure to arrive is reported.
WorstResultLast(results) ==
  CHOOSE k \in Failed(results) : \A l \in Failed(results) : l <= k

\* The failure AggregatedResolutionMessage reports: the first of those with
\* the highest priority, in the order in which the results arrived.
WorstResult(results) ==
  CHOOSE k \in Failed(results) :
    \A l \in Failed(results) :
      \/ Priority(results[l].reason) < Priority(results[k].reason)
      \/ Priority(results[l].reason) = Priority(results[k].reason) /\ k <= l

-----------------------------------------------------------------------------
(***************************************************************************)
(* Properties.                                                             *)
(***************************************************************************)
Labels == {"new", "select", "lookup", "send", "abort", "release", "finish", "done"}
Result == [fqdn : FQDN, reason : Reasons]

TypeOK ==
  /\ pc \in [FQDN -> Labels]
  /\ outcome \in [FQDN -> Result]
  /\ ctxDone \in BOOLEAN
  /\ sem \in Nat
  /\ wg \in Nat
  /\ chan \in Seq(Result)
  /\ closed \in BOOLEAN
  /\ caller \in {"spawn", "collect", "returned"}
  /\ final \in Seq(Result)

\* Never more lookups in flight than the limit, however goroutines start,
\* end, fail or are cancelled.
LookupsBounded ==
  Cardinality({f \in FQDN : pc[f] = "lookup"}) <= MaxConcurrent

\* A goroutine that is about to send finds the channel open (a send on a
\* closed channel panics) and with room in its buffer (it never blocks, so a
\* slow collector cannot keep semaphore slots taken).
SendIsSafe ==
  \A f \in FQDN :
    pc[f] \in {"send", "abort"} => ~closed /\ Len(chan) < Cardinality(FQDN)

\* When Resolve returns, every FQDN has exactly one result in the list: the
\* one its goroutine produced.  A missing one would make updateFQDNStatuses
\* drop the FQDN's ledger.
ExactlyOneResult ==
  caller = "returned" =>
    \A f \in FQDN :
      \E k \in DOMAIN final :
        /\ final[k] = outcome[f]
        /\ \A l \in DOMAIN final : final[l].fqdn = f => l = k

\* When Resolve returns, all its goroutines have ended and every semaphore
\* slot has been given back.
NothingLeftBehind ==
  caller = "returned" => sem = 0 /\ \A f \in FQDN : pc[f] = "done"

\* The aggregate status is what the outcomes of the lookups make it, and the
\* failure singled out for the message is the outcome of one of the names, of
\* the highest priority among them: status and reason do not depend on the
\* order in which the results arrived.  (The name does: among failures of the
\* same priority the first to arrive is reported.)
AggregateExact ==
  caller = "returned" =>
    LET ok == {f \in FQDN : outcome[f].reason = "Success"}
        status == AggregatedResolutionStatus(final)
        worst == final[WorstResult(final)]
    IN  /\ status = "Success" <=> ok = FQDN
        /\ status = "Failure" <=> ok = {} /\ FQDN # {}
        /\ \A f \in FQDN \ ok :
             /\ worst \in {outcome[g] : g \in FQDN \ ok}
             /\ Priority(outcome[f].reason) <= Priority(worst.reason)

\* Resolve returns, cancelled or not.
Returns == <>(caller = "returned")

=============================================================================
