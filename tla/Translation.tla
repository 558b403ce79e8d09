---------------------------- MODULE Translation ----------------------------
(***************************************************************************)
(* ToMultiNetworkPolicy followed by                                        *)
(* RemoveDuplicateCIDRsInMultiNetworkPolicy, as one sequential             *)
(* computation, loop iteration by loop iteration.                          *)
(*   "translate" : one step per rule of the spec;                          *)
(*   "shatter"   : phase 1, one step per translated rule: every address    *)
(*                 gets the ports of all the rules that name it;           *)
(*   "collapse"  : phase 1.5, an entry without a port swallows the other   *)
(*                 entries of its protocol;                                *)
(*   "group"     : phases 2 to 4, one step per address, in the order in    *)
(*                 which the Go runtime happens to walk the map: addresses *)
(*                 with the same fingerprint share a rule.                 *)
(* Ports and addresses are sets here; the lists, their order and the sorts *)
(* of the code are in TranslationLists.                                    *)
(***************************************************************************)
EXTENDS Egress, FiniteSets, FiniteSetsExt

CONSTANTS
  Egresses,   \* the egress rule lists a spec may have
  Ledgers     \* what the status may record: [FQDN -> SUBSET Address]

ASSUME EgressesAssumption == Egresses \subseteq Seq(EgressRule)
ASSUME LedgersAssumption == Ledgers \subseteq [FQDN -> SUBSET Address]
ASSUME AddressAssumption == IsFiniteSet(Address)

VARIABLES
  egress,       \* np.Spec.Egress
  globalBlock,  \* np.Spec.BlockPrivateIPs
  ledger,       \* the addresses of np.Status.FQDNs
  pc,
  i,            \* the next rule to translate or to shatter
  rules,        \* mnp.Spec.Egress before deduplication
  allowAll,     \* cidrToPortsMap[cidr].allowAll
  ports,        \* cidrToPortsMap[cidr].ports, at most one entry per key
  todo,         \* addresses of cidrToPortsMap not yet grouped
  groups        \* fingerprint, port list and addresses of every group

input == <<egress, globalBlock, ledger>>
vars == <<egress, globalBlock, ledger, pc, i, rules, allowAll, ports, todo, groups>>

(***************************************************************************)
(* Keys and fingerprints.                                                  *)
(***************************************************************************)
\* An address maps to at most one port entry for each protocol and port.
getSinglePortKey(p) == <<p.protocol, p.port>>

\* The empty fingerprint stands for "All ports".
getPortsFingerprint(portEntries) == {getSinglePortKey(p) : p \in portEntries}

\* The entries of a port list that survive being put into the map in order.
LastOfKey(list) ==
  {list[k] : k \in {k \in DOMAIN list :
     \A l \in DOMAIN list :
       l > k => getSinglePortKey(list[l]) # getSinglePortKey(list[k])}}

\* The map after all of list has been put into it.
PutPorts(map, list) ==
  {p \in map : \A k \in DOMAIN list :
     getSinglePortKey(list[k]) # getSinglePortKey(p)} \cup LastOfKey(list)

\* Mutant of Collapsed: entries that an Any entry covers stay.
CollapsedNothing(map) == map

Collapsed(map) ==
  {p \in map : \/ p.port = Any
               \/ ~ \E q \in map : q.protocol = p.protocol /\ q.port = Any}

-----------------------------------------------------------------------------
\* Only names of the spec have a status.
Init ==
  /\ egress \in Egresses
  /\ globalBlock \in BOOLEAN
  /\ ledger \in {l \in Ledgers : \A f \in FQDN \ FQDNs(egress) : l[f] = {}}
  /\ pc = "translate"
  /\ i = 1
  /\ rules = <<>>
  /\ allowAll = {}
  /\ ports = [a \in Address |-> {}]
  /\ todo = {}
  /\ groups = {}

\* Mutant of Translate: a rule without peers is not left out.
TranslateEveryRule ==
  /\ pc = "translate"
  /\ i <= Len(egress)
  /\ i' = i + 1
  /\ rules' = Append(rules, toMultiNetworkPolicyEgressRule(egress[i], ledger, globalBlock))
  /\ UNCHANGED <<input, pc, allowAll, ports, todo, groups>>

\* One iteration of the loop of ToMultiNetworkPolicy: a rule without peers
\* is left out.
Translate ==
  LET rule == toMultiNetworkPolicyEgressRule(egress[i], ledger, globalBlock) IN
  /\ pc = "translate"
  /\ i <= Len(egress)
  /\ i' = i + 1
  /\ rules' = IF rule.to = {} THEN rules ELSE Append(rules, rule)
  /\ UNCHANGED <<input, pc, allowAll, ports, todo, groups>>

\* An empty rule list is returned as it is; otherwise the loop over the
\* translated rules begins.
Translated ==
  /\ pc = "translate"
  /\ i > Len(egress)
  /\ pc' = IF rules = <<>> THEN "done" ELSE "shatter"
  /\ i' = 1
  /\ UNCHANGED <<input, rules, allowAll, ports, todo, groups>>

Shatter ==
  LET rule == rules[i] IN
  /\ pc = "shatter"
  /\ i <= Len(rules)
  /\ i' = i + 1
  /\ todo' = todo \cup rule.to
  /\ allowAll' = IF rule.ports = <<>> THEN allowAll \cup rule.to ELSE allowAll
  /\ ports' = [a \in Address |->
       IF a \in rule.to
       THEN IF a \in allowAll' THEN {} ELSE PutPorts(ports[a], rule.ports)
       ELSE ports[a]]
  /\ UNCHANGED <<input, pc, rules, groups>>

Collapse ==
  /\ pc = "shatter"
  /\ i > Len(rules)
  /\ pc' = "group"
  /\ ports' = [a \in Address |-> Collapsed(ports[a])]
  /\ UNCHANGED <<input, i, rules, allowAll, todo, groups>>

Group(a) ==
  LET f == getPortsFingerprint(ports[a])
      mine == {g \in groups : g.fingerprint = f}
  IN
  /\ pc = "group"
  /\ a \in todo
  /\ todo' = todo \ {a}
  /\ groups' =
       IF mine = {}
       THEN groups \cup {[fingerprint |-> f, ports |-> ports[a], to |-> {a}]}
       ELSE (groups \ mine) \cup {[g EXCEPT !.to = @ \cup {a}] : g \in mine}
  /\ UNCHANGED <<input, pc, i, rules, allowAll, ports>>

Grouped ==
  /\ pc = "group"
  /\ todo = {}
  /\ pc' = "done"
  /\ UNCHANGED <<input, i, rules, allowAll, ports, todo, groups>>

Next ==
  \/ Translate
  \/ Translated
  \/ Shatter
  \/ Collapse
  \/ \E a \in Address : Group(a)
  \/ Grouped

Spec == Init /\ [][Next]_vars

-----------------------------------------------------------------------------
(***************************************************************************)
(* The result and what it must be.                                         *)
(***************************************************************************)
\* Mutant of CountUniqueAddresses: rules are counted instead of addresses.
CountRules == Cardinality(groups)

\* The status field AppliedAddressCount: the peers of all the rules, added up.
CountUniqueAddresses == MapThenSumSet(LAMBDA g : Cardinality(g.to), groups)

IsEmpty == groups = {}

Granted(address, protocol, number) ==
  \E g \in groups : address \in g.to /\ PortsCover(g.ports, protocol, number)

\* The addresses some rule of the spec opens.
Opened ==
  {a \in Address : \E n \in DOMAIN egress : Opens(egress[n], globalBlock, ledger, a)}

\* The ports of an address, straight from the spec: none (all ports) if one of
\* its rules lists none, else those of its rules that no Any entry covers.
ReferencePorts(a) ==
  LET mine == {n \in DOMAIN egress : Opens(egress[n], globalBlock, ledger, a)}
  IN  IF \E n \in mine : egress[n].ports = <<>> THEN {}
      ELSE LET all == UNION {PortSet(egress[n].ports) : n \in mine} IN
           {p \in all : \A q \in all : q.port = Any /\ q.protocol = p.protocol => q = p}

TypeOK ==
  /\ egress \in Seq(EgressRule) /\ globalBlock \in BOOLEAN
  /\ ledger \in [FQDN -> SUBSET Address]
  /\ pc \in {"translate", "shatter", "group", "done"}
  /\ i \in Nat \ {0}
  /\ pc = "translate" => i <= Len(egress) + 1
  /\ pc = "shatter" => i <= Len(rules) + 1
  /\ rules \in Seq(MNPRule)
  /\ allowAll \subseteq Address
  /\ ports \in [Address -> SUBSET Port]
  /\ todo \subseteq Address
  /\ groups \subseteq [fingerprint : SUBSET (Protocol \X (PortNumber \cup {Any})),
                       ports : SUBSET Port, to : (SUBSET Address) \ {{}}]

\* The rules handed to the cluster permit exactly the traffic the spec asks
\* for: skipping rules without peers, merging the ports of an address over
\* all the rules that name it, dropping entries an Any entry covers and
\* regrouping the addresses by fingerprint neither opens nor closes anything.
GrantsExactly ==
  pc = "done" =>
    \A a \in Address, pr \in Protocol, n \in PortNumber :
      Granted(a, pr, n) <=> Intended(egress, globalBlock, ledger, a, pr, n)

\* The rules do not depend on the order in which the maps were walked, and are
\* in normal form: one rule for every distinct set of ports, holding all the
\* addresses that have it.  (The order of the lists is ListsCanonical, in
\* TranslationLists.)
Canonical ==
  pc = "done" =>
    {[ports |-> g.ports, to |-> g.to] : g \in groups} =
      {[ports |-> ReferencePorts(a),
        to |-> {b \in Opened : ReferencePorts(b) = ReferencePorts(a)}] : a \in Opened}

\* AppliedAddressCount, the peers of all the rules added up, is the number of
\* different addresses the policy opens, and the policy counts as empty (the
\* EmptyRules status) exactly when it opens none.
CountExact ==
  pc = "done" => /\ CountUniqueAddresses = Cardinality(Opened)
                 /\ IsEmpty <=> Opened = {}

=============================================================================
