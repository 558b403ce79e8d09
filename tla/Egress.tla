------------------------------- MODULE Egress -------------------------------
(***************************************************************************)
(* From a NetworkPolicy spec and the addresses its ledger holds to the     *)
(* egress rules of the MultiNetworkPolicy, and what such rules permit.     *)
(*                                                                         *)
(* An egress rule of the spec is a record                                  *)
(*   toFQDNs         : a set of FQDNs,                                     *)
(*   ports           : a sequence of ports, empty for "all ports",         *)
(*   blockPrivateIPs : Inherit (nil), TRUE or FALSE.                       *)
(* A rule of the MultiNetworkPolicy is a record of the same ports and of   *)
(* the set of addresses its peers name (getPeers sorts them).              *)
(* A port is a record of a protocol, a port (Any for nil) and an endPort   *)
(* (NoEnd for nil).                                                        *)
(***************************************************************************)
EXTENDS Integers, Sequences

CONSTANTS
  FQDN,       \* the names a spec can list
  Address,    \* the addresses a ledger can hold
  Private,    \* the addresses in private ranges
  Protocol,   \* transport protocols
  PortNumber, \* port numbers
  Any,        \* a port entry without a port number
  NoEnd,      \* a port entry without an endPort
  Inherit     \* a rule without its own blockPrivateIPs

ASSUME PrivateAssumption == Private \subseteq Address
ASSUME PortNumberAssumption == PortNumber \subseteq Nat
ASSUME PortSentinelAssumption == Any \notin Int /\ NoEnd \notin Int
ASSUME InheritAssumption == Inherit \notin BOOLEAN

\* The port entries the CRD admits: an endPort needs a port and is not below it.
Port ==
  {p \in [protocol : Protocol, port : PortNumber \cup {Any},
          endPort : PortNumber \cup {NoEnd}] :
     p.endPort # NoEnd => p.port # Any /\ p.endPort >= p.port}

EgressRule == [toFQDNs : (SUBSET FQDN) \ {{}},
               ports : Seq(Port),
               blockPrivateIPs : BOOLEAN \cup {Inherit}]

\* A rule without peers would permit every destination.
MNPRule == [ports : Seq(Port), to : (SUBSET Address) \ {{}}]

\* NetworkPolicy.FQDNs: the names that are resolved and have a status, each
\* once, however many rules list it.
FQDNs(egress) == UNION {egress[n].toFQDNs : n \in DOMAIN egress}

(***************************************************************************)
(* isAllowed, getPeers and toMultiNetworkPolicyEgressRule.                 *)
(***************************************************************************)
\* Mutant of isAllowed: a rule can only add to the policy-wide blocking.
isAllowedStrictest(address, globalBlock, ruleBlock) ==
  address \in Private => ~(globalBlock \/ ruleBlock = TRUE)

\* An address is refused if it is private and private addresses are blocked,
\* by the rule's own setting if it has one and by the policy's otherwise.
isAllowed(address, globalBlock, ruleBlock) ==
  LET block == IF ruleBlock = Inherit THEN globalBlock ELSE ruleBlock
  IN  ~(address \in Private /\ block)

\* The peers of one rule.  ledger[f] is the set of addresses recorded for f,
\* empty for a name without a status.
getPeers(rule, ledger, globalBlock) ==
  {a \in UNION {ledger[f] : f \in rule.toFQDNs} :
     isAllowed(a, globalBlock, rule.blockPrivateIPs)}

toMultiNetworkPolicyEgressRule(rule, ledger, globalBlock) ==
  [ports |-> rule.ports, to |-> getPeers(rule, ledger, globalBlock)]

(***************************************************************************)
(* What rules permit.  A flow is an address, a protocol and a port number. *)
(* A port entry without a port covers its protocol, one with an endPort a  *)
(* range; a rule without port entries permits everything to its peers.     *)
(* (The enforcing agent is not part of this repository; this is the        *)
(* meaning the API gives a MultiNetworkPolicy.)                            *)
(***************************************************************************)
PortCovers(p, protocol, number) ==
  /\ p.protocol = protocol
  /\ \/ p.port = Any
     \/ p.endPort = NoEnd /\ p.port = number
     \/ p.endPort # NoEnd /\ p.port <= number /\ number <= p.endPort

\* ports is a set of port entries.
PortsCover(ports, protocol, number) ==
  \/ ports = {}
  \/ \E p \in ports : PortCovers(p, protocol, number)

PortSet(ports) == {ports[k] : k \in DOMAIN ports}

\* What the user asked for, told without the code's operators.  A rule opens
\* an address if one of its names has it and the address is public, or private
\* and not blocked: by the rule, or by the policy for a rule that says nothing.
Opens(rule, globalBlock, ledger, address) ==
  /\ \E f \in rule.toFQDNs : address \in ledger[f]
  /\ \/ address \notin Private
     \/ rule.blockPrivateIPs = FALSE
     \/ rule.blockPrivateIPs = Inherit /\ ~globalBlock

\* Some rule opens the address and lists the port.
Intended(egress, globalBlock, ledger, address, protocol, number) ==
  \E i \in DOMAIN egress :
    /\ Opens(egress[i], globalBlock, ledger, address)
    /\ PortsCover(PortSet(egress[i].ports), protocol, number)

=============================================================================
