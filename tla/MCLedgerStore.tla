---------------------------- MODULE MCLedgerStore ----------------------------
(***************************************************************************)
(* LedgerStore with two controllers and one address, half a second to the  *)
(* tick, and one result of every kind that Update tells apart.             *)
(***************************************************************************)
EXTENDS LedgerStore, TLC

MCResults ==
  {r \in DNSResolverResult : r.reason \in {"Success", "Timeout", "HostNotFound"}}

\* The processes are interchangeable.
Replicas == Permutations(Worker)

=============================================================================
