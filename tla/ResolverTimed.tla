---------------------------- MODULE ResolverTimed ----------------------------
(***************************************************************************)
(* Resolver with a clock: how long one call of Resolve may take.  Every    *)
(* lookup runs under a context with a timeout of its own, which starts     *)
(* when the goroutine has got a slot; waiting for the slot has no timeout, *)
(* and neither has the call as a whole.                                    *)
(*                                                                         *)
(* Only lookups take time.  A goroutine that can run does so before the    *)
(* clock moves on, and a lookup ends when its context does.                *)
(***************************************************************************)
EXTENDS Resolver

CONSTANT Timeout    \* spec.resolutionTimeoutSeconds, in ticks

ASSUME TimeoutAssumption == Timeout \in Nat \ {0}

VARIABLES
  clock,     \* time since the call of Resolve
  deadline   \* when the context of each lookup in flight ends

timers == <<clock, deadline>>
tvars == <<pc, outcome, ctxDone, sem, wg, chan, closed, caller, final, clock, deadline>>

TInit ==
  /\ Init
  /\ clock = 0
  /\ deadline = [f \in FQDN |-> 0]

Expired(f) == pc[f] = "lookup" /\ clock >= deadline[f]

\* The timeout starts with the slot.
TAcquire(f) ==
  /\ Acquire(f)
  /\ deadline' = [deadline EXCEPT ![f] = clock + Timeout]
  /\ UNCHANGED clock

TLookup(f, err) ==
  /\ Lookup(f, err)
  /\ err.kind = "deadline" => Expired(f)
  /\ deadline' = [deadline EXCEPT ![f] = 0]
  /\ UNCHANGED clock

\* A lookup whose context has ended returns.
TLookupEnds(f) ==
  /\ Expired(f) \/ ctxDone
  /\ \E err \in Errors : TLookup(f, err)

\* What happens without waiting for DNS.
Urgent(f) ==
  \/ TAcquire(f)
  \/ (Abort(f) \/ Send(f) \/ Release(f) \/ Finish(f)) /\ UNCHANGED timers

TCaller == Caller /\ UNCHANGED timers
TClose == Close /\ UNCHANGED timers
TCancel == Cancel /\ UNCHANGED timers

\* Neither the caller, nor the closing goroutine, nor any goroutine that is
\* not looking up can take a step.  (A send never has to wait: SendIsSafe.)
Quiet ==
  /\ caller # "spawn"
  /\ caller = "collect" => chan = <<>> /\ ~closed
  /\ wg # 0 \/ closed
  /\ \A f \in FQDN :
       \/ pc[f] \in {"lookup", "done"}
       \/ pc[f] = "select" /\ ~SlotFree /\ ~ctxDone

Tick ==
  /\ \E f \in FQDN : pc[f] = "lookup"
  /\ ~ctxDone
  /\ \A f \in FQDN : ~Expired(f)
  /\ Quiet
  /\ clock' = clock + 1
  /\ UNCHANGED <<vars, deadline>>

TNext ==
  \/ TCaller
  \/ TClose
  \/ TCancel
  \/ \E f \in FQDN : Urgent(f) \/ \E err \in Errors : TLookup(f, err)
  \/ Tick

TSpec == TInit /\ [][TNext]_tvars

\* The Go scheduler runs every goroutine that can run, and time passes.  DNS
\* owes no answer: a lookup is only obliged to return when its context ends.
TFairSpec ==
  /\ TSpec
  /\ WF_tvars(TCaller)
  /\ WF_tvars(TClose)
  /\ \A f \in FQDN : WF_tvars(Urgent(f)) /\ WF_tvars(TLookupEnds(f))
  /\ WF_tvars(Tick)

-----------------------------------------------------------------------------
(***************************************************************************)
(* Properties.                                                             *)
(***************************************************************************)
\* Names are looked up MaxConcurrent at a time, so that one call may take as
\* many timeouts as there are such batches, however the lookups end and
\* overlap, and never more: slots are handed on without loss.
Batches == (Cardinality(FQDN) + MaxConcurrent - 1) \div MaxConcurrent

DurationBounded == clock <= Batches * Timeout

=============================================================================
