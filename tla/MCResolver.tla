----------------------------- MODULE MCResolver -----------------------------
(***************************************************************************)
(* Resolver on a few names, with an ending of every class resolutionReason *)
(* tells apart.                                                            *)
(***************************************************************************)
EXTENDS ResolverTimed

Ends(kind) == [kind |-> kind, flags |-> {}]
DNS(flags) == [kind |-> "dns", flags |-> flags]

\* Every class once, and a DNS error with several flags.
MCErrors ==
  {Ends("none"), Ends("invalid"), Ends("deadline"), Ends("canceled"), Ends("other"),
   DNS({}), DNS({"notFound"}), DNS({"notFound", "timeout"}), DNS({"temporary"})}

\* The flag is left at its default on a machine with two processors.
MCMaxConcurrent == MaxConcurrentResolves(0, 2)

=============================================================================
