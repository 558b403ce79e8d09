------------------------------- MODULE MCLedger -------------------------------
(***************************************************************************)
(* Small instances of LedgerHistory for TLC: two addresses, one tick to    *)
(* half a second (so that rounding to whole seconds loses something), and  *)
(* one result of every kind that Update tells apart.                       *)
(***************************************************************************)
EXTENDS LedgerHistory

MCResults ==
  {r \in DNSResolverResult : r.reason \in {"Success", "Timeout", "HostNotFound"}}

=============================================================================
