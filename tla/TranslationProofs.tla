-------------------------- MODULE TranslationProofs --------------------------
(***************************************************************************)
(* Proofs about Translation, for any specs, ledgers and ports.             *)
(***************************************************************************)
EXTENDS Translation, ExtremeNumbers, FiniteSetTheorems

-----------------------------------------------------------------------------
(***************************************************************************)
(* Types.                                                                  *)
(***************************************************************************)

\* Putting a port list into the map adds nothing but ports of the list.
LEMMA PutPortsType ==
  ASSUME NEW map \in SUBSET Port, NEW list \in Seq(Port)
  PROVE  PutPorts(map, list) \in SUBSET Port
<1>1. \A k \in DOMAIN list : list[k] \in Port
  OBVIOUS
<1> QED
  BY <1>1 DEF PutPorts, LastOfKey

\* A rule of the spec becomes a rule of the MultiNetworkPolicy, if it has peers.
LEMMA RuleType ==
  ASSUME NEW rule \in EgressRule, NEW l \in [FQDN -> SUBSET Address], NEW block,
         toMultiNetworkPolicyEgressRule(rule, l, block).to # {}
  PROVE  toMultiNetworkPolicyEgressRule(rule, l, block) \in MNPRule
<1>1. rule.ports \in Seq(Port) /\ rule.toFQDNs \subseteq FQDN
  BY DEF EgressRule
<1>2. getPeers(rule, l, block) \subseteq Address
  BY <1>1 DEF getPeers
<1> QED
  BY <1>1, <1>2 DEF toMultiNetworkPolicyEgressRule, MNPRule

\* A fingerprint is a set of keys.
LEMMA FingerprintType ==
  ASSUME NEW S \in SUBSET Port
  PROVE  getPortsFingerprint(S) \in SUBSET (Protocol \X (PortNumber \cup {Any}))
<1>1. \A p \in S : p.protocol \in Protocol /\ p.port \in PortNumber \cup {Any}
  BY DEF Port
<1> QED
  BY <1>1 DEF getPortsFingerprint, getSinglePortKey

LEMMA TypeInit == Init => TypeOK
<1> SUFFICES ASSUME Init PROVE TypeOK
  OBVIOUS
<1>1. globalBlock \in BOOLEAN
  BY Zenon DEF Init
<1> QED
  BY <1>1, EgressesAssumption, LedgersAssumption DEF Init, TypeOK

LEMMA TypeNext == TypeOK /\ [Next]_vars => TypeOK'
<1> SUFFICES ASSUME TypeOK, [Next]_vars PROVE TypeOK'
  OBVIOUS
<1>a. UNCHANGED input => /\ egress' \in Seq(EgressRule) /\ globalBlock' \in BOOLEAN
                         /\ ledger' \in [FQDN -> SUBSET Address]
  BY Zenon DEF input, TypeOK
<1>1. CASE Translate
  <2>1. egress[i] \in EgressRule
    BY <1>1 DEF Translate, TypeOK
  <2> DEFINE rule == toMultiNetworkPolicyEgressRule(egress[i], ledger, globalBlock)
  <2>2. rule.to # {} => rule \in MNPRule
    BY <2>1, RuleType DEF TypeOK
  <2>3. rules' \in Seq(MNPRule)
    BY <1>1, <2>2 DEF Translate, TypeOK
  <2>4. i' \in Nat \ {0} /\ i' <= Len(egress') + 1
    BY <1>1 DEF Translate, TypeOK, input
  <2> QED
    BY <1>1, <1>a, <2>3, <2>4 DEF Translate, TypeOK
<1>2. CASE Translated
  <2>1. i' <= Len(rules') + 1
    BY <1>2 DEF Translated, TypeOK
  <2> QED
    BY <1>2, <1>a, <2>1 DEF Translated, TypeOK
<1>3. CASE Shatter
  <2>1. rules[i] \in MNPRule
    BY <1>3 DEF Shatter, TypeOK
  <2>2. rules[i].to \subseteq Address /\ rules[i].ports \in Seq(Port)
    BY <2>1 DEF MNPRule
  <2>3. ports' \in [Address -> SUBSET Port]
    <3>1. \A a \in Address : PutPorts(ports[a], rules[i].ports) \in SUBSET Port
      BY <2>2, PutPortsType DEF TypeOK
    <3> QED
      BY <1>3, <3>1 DEF Shatter, TypeOK
  <2>4. allowAll' \subseteq Address /\ todo' \subseteq Address
    BY <1>3, <2>2 DEF Shatter, TypeOK
  <2>5. i' \in Nat \ {0} /\ i' <= Len(rules') + 1
    BY <1>3 DEF Shatter, TypeOK
  <2> QED
    BY <1>3, <1>a, <2>3, <2>4, <2>5 DEF Shatter, TypeOK
<1>4. CASE Collapse
  <2>1. ports' \in [Address -> SUBSET Port]
    BY <1>4 DEF Collapse, Collapsed, TypeOK
  <2> QED
    BY <1>4, <1>a, <2>1 DEF Collapse, TypeOK
<1>5. ASSUME NEW a \in Address, Group(a) PROVE TypeOK'
  <2>1. ports[a] \in SUBSET Port
    BY DEF TypeOK
  <2>2. getPortsFingerprint(ports[a]) \in SUBSET (Protocol \X (PortNumber \cup {Any}))
    BY <2>1, FingerprintType
  <2> DEFINE GroupType == [fingerprint : SUBSET (Protocol \X (PortNumber \cup {Any})),
                           ports : SUBSET Port, to : (SUBSET Address) \ {{}}]
             f == getPortsFingerprint(ports[a])
             mine == {g \in groups : g.fingerprint = f}
  <2>3. [fingerprint |-> f, ports |-> ports[a], to |-> {a}] \in GroupType
    BY <2>1, <2>2
  <2>4. \A g \in groups : [g EXCEPT !.to = g.to \cup {a}] \in GroupType
    BY DEF TypeOK
  <2>5. groups' = IF mine = {}
                  THEN groups \cup {[fingerprint |-> f, ports |-> ports[a], to |-> {a}]}
                  ELSE (groups \ mine) \cup {[g EXCEPT !.to = g.to \cup {a}] : g \in mine}
    BY <1>5 DEF Group
  <2>6. groups \subseteq GroupType
    BY DEF TypeOK
  <2> HIDE DEF GroupType, f
  <2>7. groups' \subseteq GroupType
    BY <2>3, <2>4, <2>5, <2>6
  <2> USE DEF GroupType
  <2> QED
    BY <1>5, <1>a, <2>7 DEF Group, TypeOK
<1>6. CASE Grouped
  BY <1>6, <1>a DEF Grouped, TypeOK
<1>7. CASE UNCHANGED vars
  BY <1>7, <1>a DEF vars, input, TypeOK
<1> QED
  BY <1>1, <1>2, <1>3, <1>4, <1>5, <1>6, <1>7 DEF Next

\* The computation keeps its types: no index leaves its list, and no rule or
\* port comes up that is not one.
THEOREM TranslationTypeCorrect == Spec => []TypeOK
  BY TypeInit, TypeNext, PTL DEF Spec

-----------------------------------------------------------------------------
(***************************************************************************)
(* The operators.                                                          *)
(***************************************************************************)

\* All port entries of a rule list.
PortsOf(e) == UNION {PortSet(e[n].ports) : n \in DOMAIN e}

\* Different entries of S have different keys.
DistinctKeys(S) ==
  \A p, q \in S : getSinglePortKey(p) = getSinglePortKey(q) => p = q

\* isAllowed and getPeers come to what Opens says.
LEMMA PeersAreOpened ==
  ASSUME NEW rule \in EgressRule, NEW l \in [FQDN -> SUBSET Address], NEW block \in BOOLEAN
  PROVE  getPeers(rule, l, block) = {a \in Address : Opens(rule, block, l, a)}
<1>1. rule.toFQDNs \subseteq FQDN /\ rule.blockPrivateIPs \in BOOLEAN \cup {Inherit}
  BY DEF EgressRule
<1>2. ASSUME NEW a
      PROVE  isAllowed(a, block, rule.blockPrivateIPs) <=>
               \/ a \notin Private
               \/ rule.blockPrivateIPs = FALSE
               \/ rule.blockPrivateIPs = Inherit /\ ~block
  <2>1. CASE rule.blockPrivateIPs = Inherit
    BY <2>1, InheritAssumption, Zenon DEF isAllowed
  <2>2. CASE rule.blockPrivateIPs # Inherit
    BY <1>1, <2>2, InheritAssumption, Zenon DEF isAllowed
  <2> QED
    BY <2>1, <2>2
<1>3. ASSUME NEW a PROVE a \in UNION {l[f] : f \in rule.toFQDNs}
                          <=> a \in Address /\ \E f \in rule.toFQDNs : a \in l[f]
  BY <1>1
<1> QED
  BY <1>2, <1>3 DEF getPeers, Opens

\* If the keys of a port list differ, all its entries survive in the map.
LEMMA LastOfKeyAll ==
  ASSUME NEW list \in Seq(Port), DistinctKeys(PortSet(list))
  PROVE  LastOfKey(list) = PortSet(list)
<1>1. LastOfKey(list) \subseteq PortSet(list)
  BY DEF LastOfKey, PortSet
<1>2. ASSUME NEW p \in PortSet(list) PROVE p \in LastOfKey(list)
  <2> DEFINE S == {k \in DOMAIN list : list[k] = p}
  <2>1. S \in SUBSET Int /\ S # {} /\ \A s \in S : s <= Len(list)
    BY DEF PortSet
  <2>2. Len(list) \in Int
    OBVIOUS
  <2> HIDE DEF S
  <2>3. PICK k \in S : \A l \in S : l <= k
    BY <2>1, <2>2, GreatestInteger
  <2> USE DEF S
  <2>4. k \in DOMAIN list /\ list[k] = p
    OBVIOUS
  <2>5. ASSUME NEW l \in DOMAIN list, l > k
        PROVE  getSinglePortKey(list[l]) # getSinglePortKey(list[k])
    <3>1. list[l] \in PortSet(list) /\ list[k] \in PortSet(list)
      BY <2>4 DEF PortSet
    <3>2. list[l] # p
      BY <2>3, <2>4, <2>5
    <3> QED
      BY <2>4, <3>1, <3>2 DEF DistinctKeys
  <2> QED
    BY <2>4, <2>5 DEF LastOfKey
<1> QED
  BY <1>1, <1>2

\* Then nothing is overwritten: the map is a union.
LEMMA PutPortsUnion ==
  ASSUME NEW map, NEW list \in Seq(Port), DistinctKeys(map \cup PortSet(list))
  PROVE  PutPorts(map, list) = map \cup PortSet(list)
<1>1. LastOfKey(list) = PortSet(list)
  BY LastOfKeyAll DEF DistinctKeys
<1>2. \A k \in DOMAIN list : list[k] \in PortSet(list)
  BY DEF PortSet
<1>3. ASSUME NEW p \in map, NEW k \in DOMAIN list,
             getSinglePortKey(list[k]) = getSinglePortKey(p)
      PROVE  p \in PortSet(list)
  BY <1>2, <1>3 DEF DistinctKeys
<1> QED
  BY <1>1, <1>3 DEF PutPorts

\* Sets of entries with different keys are told apart by their fingerprints.
LEMMA FingerprintInjective ==
  ASSUME NEW All, DistinctKeys(All), NEW S \in SUBSET All, NEW T \in SUBSET All,
         getPortsFingerprint(S) = getPortsFingerprint(T)
  PROVE  S = T
<1>1. ASSUME NEW X \in SUBSET All, NEW Y \in SUBSET All,
             getPortsFingerprint(X) = getPortsFingerprint(Y), NEW p \in X
      PROVE  p \in Y
  <2>1. getSinglePortKey(p) \in getPortsFingerprint(Y)
    BY <1>1 DEF getPortsFingerprint
  <2>2. PICK q \in Y : getSinglePortKey(q) = getSinglePortKey(p)
    BY <2>1 DEF getPortsFingerprint
  <2> QED
    BY <2>2 DEF DistinctKeys
<1> QED
  BY <1>1

\* An entry without a port swallows the other entries of its protocol.
LEMMA CollapsedMeaning ==
  ASSUME NEW S, DistinctKeys(S)
  PROVE  Collapsed(S) =
           {p \in S : \A q \in S : q.port = Any /\ q.protocol = p.protocol => q = p}
<1>1. ASSUME NEW p \in S, NEW q \in S, p.port = Any, q.port = Any, q.protocol = p.protocol
      PROVE  q = p
  BY <1>1 DEF DistinctKeys, getSinglePortKey
<1> QED
  BY <1>1 DEF Collapsed

\* It swallows nothing that it does not cover itself, and something is left.
LEMMA CollapsedCovers ==
  ASSUME NEW S \in SUBSET Port, NEW pr, NEW n
  PROVE  /\ (\E p \in Collapsed(S) : PortCovers(p, pr, n)) <=> (\E p \in S : PortCovers(p, pr, n))
         /\ Collapsed(S) = {} <=> S = {}
<1>1. ASSUME NEW p \in S, p \notin Collapsed(S)
      PROVE  \E q \in Collapsed(S) : q.protocol = p.protocol /\ q.port = Any
  BY <1>1 DEF Collapsed
<1>2. Collapsed(S) \subseteq S
  BY DEF Collapsed
<1>3. ASSUME NEW p \in S, PortCovers(p, pr, n)
      PROVE  \E q \in Collapsed(S) : PortCovers(q, pr, n)
  BY <1>1, <1>3 DEF PortCovers
<1> QED
  BY <1>1, <1>2, <1>3

-----------------------------------------------------------------------------
(***************************************************************************)
(* The invariant: what each phase leaves to the next.                      *)
(***************************************************************************)

\* No two port entries of a spec have the same protocol and port but differ
\* (in their endPort).  The code does not see to it; without it an entry may
\* be lost.
KeysDistinct == \A e \in Egresses : DistinctKeys(PortsOf(e))

\* The addresses rule n of the spec opens.
OpenedBy(n) == {a \in Address : Opens(egress[n], globalBlock, ledger, a)}

\* The rules of the spec that have been translated.
TranslatedRules ==
  IF pc = "translate" THEN {n \in DOMAIN egress : n < i} ELSE DOMAIN egress

Represents(k, n) == rules[k].ports = egress[n].ports /\ rules[k].to = OpenedBy(n)

\* The translated rules are the rules of the spec that open anything.
RulesExact ==
  /\ \A k \in DOMAIN rules : \E n \in DOMAIN egress : Represents(k, n)
  /\ \A n \in TranslatedRules :
       OpenedBy(n) # {} => \E k \in DOMAIN rules : Represents(k, n)
  /\ pc = "translate" =>
       /\ allowAll = {} /\ todo = {} /\ groups = {}
       /\ ports = [a \in Address |-> {}]

\* The rules before rule j that name the address.
Naming(a, j) == {k \in DOMAIN rules : k < j /\ a \in rules[k].to}

\* Every address has the ports of all the rules seen so far that name it.
PortsMerged ==
  pc = "shatter" =>
    /\ groups = {}
    /\ todo = {a \in Address : Naming(a, i) # {}}
    /\ allowAll = {a \in Address : \E k \in Naming(a, i) : rules[k].ports = <<>>}
    /\ \A a \in Address :
         ports[a] = IF a \in allowAll THEN {}
                    ELSE UNION {PortSet(rules[k].ports) : k \in Naming(a, i)}

\* The addresses that have been grouped are in one group each, with their
\* ports, and a group is known by its fingerprint.
GroupsExact ==
  pc \in {"group", "done"} =>
    /\ todo \subseteq Opened
    /\ pc = "done" => todo = {}
    /\ \A a \in Opened : ports[a] = ReferencePorts(a)
    /\ \A g \in groups :
         /\ g.to # {} /\ g.to \subseteq Opened \ todo
         /\ g.fingerprint = getPortsFingerprint(g.ports)
         /\ \A a \in g.to : g.ports = ports[a]
    /\ \A a \in Opened \ todo : \E g \in groups : a \in g.to
    /\ \A g, h \in groups : g.fingerprint = h.fingerprint => g = h

TranslationInv ==
  /\ TypeOK
  /\ egress \in Egresses
  /\ RulesExact
  /\ PortsMerged
  /\ GroupsExact

\* What the spec asks for does not change.
LEMMA InputUnchanged ==
  ASSUME UNCHANGED input
  PROVE  /\ egress' = egress /\ globalBlock' = globalBlock /\ ledger' = ledger
         /\ Opened' = Opened
         /\ \A n : OpenedBy(n)' = OpenedBy(n)
         /\ \A a : ReferencePorts(a)' = ReferencePorts(a)
<1>1. egress' = egress /\ globalBlock' = globalBlock /\ ledger' = ledger
  BY DEF input
<1> QED
  BY <1>1 DEF Opened, OpenedBy, ReferencePorts

LEMMA InvInit == Init => TranslationInv
<1> SUFFICES ASSUME Init PROVE TranslationInv
  OBVIOUS
<1>1. egress \in Egresses
  BY DEF Init
<1>2. DOMAIN rules = {}
  BY DEF Init
<1>3. ~ \E n \in TranslatedRules : TRUE
  <2>1. egress \in Seq(EgressRule)
    BY <1>1, EgressesAssumption
  <2> QED
    BY <2>1 DEF Init, TranslatedRules
<1>4. RulesExact
  BY <1>2, <1>3 DEF RulesExact, Init
<1> QED
  BY <1>1, <1>4, TypeInit DEF TranslationInv, Init, PortsMerged, GroupsExact

\* A rule is appended exactly if it opens an address.
LEMMA TranslateInv ==
  ASSUME TranslationInv, Translate, TypeOK'
  PROVE  TranslationInv'
<1>1. /\ egress \in Seq(EgressRule) /\ i \in DOMAIN egress /\ egress[i] \in EgressRule
      /\ rules \in Seq(MNPRule) /\ i \in Nat
  BY DEF Translate, TranslationInv, TypeOK
<1>2. toMultiNetworkPolicyEgressRule(egress[i], ledger, globalBlock)
        = [ports |-> egress[i].ports, to |-> OpenedBy(i)]
  <2>1. getPeers(egress[i], ledger, globalBlock) = OpenedBy(i)
    <3>1. globalBlock \in BOOLEAN /\ ledger \in [FQDN -> SUBSET Address]
      BY Zenon DEF TranslationInv, TypeOK
    <3> QED
      BY <1>1, <3>1, PeersAreOpened DEF OpenedBy
  <2> QED
    BY <2>1 DEF toMultiNetworkPolicyEgressRule
<1> DEFINE rule == [ports |-> egress[i].ports, to |-> OpenedBy(i)]
<1>3. /\ rules' = IF OpenedBy(i) = {} THEN rules ELSE Append(rules, rule)
      /\ i' = i + 1 /\ pc' = "translate" /\ pc = "translate"
      /\ UNCHANGED <<allowAll, ports, todo, groups>>
  BY <1>2 DEF Translate
<1>4. UNCHANGED input
  BY DEF Translate
<1>5. /\ egress' = egress
      /\ \A n : OpenedBy(n)' = OpenedBy(n)
  BY <1>4, InputUnchanged
<1>6. \A k \in DOMAIN rules : k \in DOMAIN rules' /\ rules'[k] = rules[k]
  BY <1>1, <1>3
<1>7. ASSUME NEW k \in DOMAIN rules' PROVE \E n \in DOMAIN egress' : Represents(k, n)'
  <2>1. CASE k \in DOMAIN rules
    <3>1. PICK n \in DOMAIN egress : Represents(k, n)
      BY <2>1 DEF TranslationInv, RulesExact
    <3> QED
      BY <2>1, <3>1, <1>5, <1>6 DEF Represents
  <2>2. CASE k \notin DOMAIN rules
    <3>1. rules'[k] = rule
      BY <1>1, <1>3, <2>2
    <3> QED
      BY <1>1, <1>5, <3>1 DEF Represents
  <2> QED
    BY <2>1, <2>2
<1>8. ASSUME NEW n \in TranslatedRules', OpenedBy(n)' # {}
      PROVE  \E k \in DOMAIN rules' : Represents(k, n)'
  <2>1. n \in DOMAIN egress /\ n < i + 1
    BY <1>3, <1>5 DEF TranslatedRules
  <2>2. CASE n < i
    <3>1. n \in TranslatedRules /\ OpenedBy(n) # {}
      BY <1>3, <1>5, <1>8, <2>1, <2>2 DEF TranslatedRules
    <3>2. PICK k \in DOMAIN rules : Represents(k, n)
      BY <3>1 DEF TranslationInv, RulesExact
    <3> QED
      BY <1>5, <1>6, <3>2 DEF Represents
  <2>3. CASE n = i
    <3>1. Len(rules) + 1 \in DOMAIN rules' /\ rules'[Len(rules) + 1] = rule
      BY <1>1, <1>3, <1>5, <1>8, <2>3
    <3> QED
      BY <1>5, <2>3, <3>1 DEF Represents
  <2> QED
    BY <1>1, <2>1, <2>2, <2>3
<1>9. RulesExact'
  BY <1>3, <1>7, <1>8 DEF RulesExact, TranslationInv
<1> QED
  BY <1>3, <1>5, <1>9 DEF TranslationInv, PortsMerged, GroupsExact

\* At the end of the loop all rules of the spec are translated, and if none of
\* them opens anything, there is nothing to group.
LEMMA TranslatedInv ==
  ASSUME TranslationInv, Translated, TypeOK'
  PROVE  TranslationInv'
<1>1. /\ egress' = egress /\ Opened' = Opened
      /\ \A n : OpenedBy(n)' = OpenedBy(n)
  BY InputUnchanged DEF Translated
<1>2. /\ rules' = rules /\ i' = 1 /\ pc = "translate"
      /\ pc' = IF rules = <<>> THEN "done" ELSE "shatter"
      /\ UNCHANGED <<allowAll, ports, todo, groups>>
  BY DEF Translated
<1>3. egress \in Seq(EgressRule) /\ rules \in Seq(MNPRule) /\ i \in Nat /\ i > Len(egress)
  BY DEF TranslationInv, TypeOK, Translated
<1>4. TranslatedRules = DOMAIN egress /\ TranslatedRules' = DOMAIN egress
  <2>1. \A n \in DOMAIN egress : n < i
    BY <1>3
  <2>2. {n \in DOMAIN egress : n < i} = DOMAIN egress
    BY <2>1
  <2>3. pc' # "translate"
    BY <1>2
  <2> QED
    BY <1>1, <1>2, <2>2, <2>3 DEF TranslatedRules
<1>5. \A k, n : Represents(k, n)' <=> Represents(k, n)
  BY <1>1, <1>2 DEF Represents
<1>6. RulesExact'
  BY <1>1, <1>2, <1>4, <1>5 DEF RulesExact, TranslationInv
<1>7. /\ allowAll' = {} /\ todo' = {} /\ groups' = {} /\ ports' = [a \in Address |-> {}]
  BY <1>2 DEF TranslationInv, RulesExact
<1>8. PortsMerged'
  <2>1. \A a : Naming(a, i)' = {}
    BY <1>2, <1>3 DEF Naming
  <2> QED
    BY <1>7, <2>1 DEF PortsMerged
<1>9. GroupsExact'
  <2>1. CASE rules = <<>>
    <3>1. Opened = {}
      BY <1>4, <2>1 DEF TranslationInv, RulesExact, Opened, OpenedBy
    <3> QED
      BY <1>1, <1>7, <3>1 DEF GroupsExact
  <2>2. CASE rules # <<>>
    BY <1>2, <2>2 DEF GroupsExact
  <2> QED
    BY <2>1, <2>2
<1> QED
  BY <1>1, <1>6, <1>8, <1>9 DEF TranslationInv

\* The ports of translated rules are ports of the spec.
LEMMA RulePorts ==
  ASSUME TranslationInv, NEW k \in DOMAIN rules
  PROVE  PortSet(rules[k].ports) \subseteq PortsOf(egress)
<1>1. PICK n \in DOMAIN egress : Represents(k, n)
  BY DEF TranslationInv, RulesExact
<1> QED
  BY <1>1 DEF Represents, PortsOf

\* One more rule is merged into the map.
LEMMA ShatterInv ==
  ASSUME KeysDistinct, TranslationInv, Shatter, TypeOK'
  PROVE  TranslationInv'
<1>1. egress' = egress /\ \A n : OpenedBy(n)' = OpenedBy(n)
  BY InputUnchanged DEF Shatter
<1>2. /\ pc = "shatter" /\ pc' = "shatter" /\ i' = i + 1
      /\ rules' = rules /\ groups' = groups
      /\ todo' = todo \cup rules[i].to
      /\ allowAll' = IF rules[i].ports = <<>> THEN allowAll \cup rules[i].to ELSE allowAll
      /\ \A a \in Address :
           ports'[a] = IF a \in rules[i].to
                       THEN IF a \in allowAll' THEN {} ELSE PutPorts(ports[a], rules[i].ports)
                       ELSE ports[a]
  BY DEF Shatter
<1>3. /\ rules \in Seq(MNPRule) /\ i \in Nat /\ i \in DOMAIN rules
      /\ allowAll \subseteq Address /\ todo \subseteq Address
  BY DEF TranslationInv, TypeOK, Shatter
<1>4. rules[i].to \subseteq Address /\ rules[i].ports \in Seq(Port)
  <2>1. rules[i] \in MNPRule
    BY <1>3
  <2> QED
    BY <2>1 DEF MNPRule
<1>5. RulesExact'
  <2>1. \A k, n : Represents(k, n)' <=> Represents(k, n)
    BY <1>1, <1>2 DEF Represents
  <2>2. TranslatedRules' = TranslatedRules
    BY <1>1, <1>2 DEF TranslatedRules
  <2> QED
    BY <1>1, <1>2, <2>1, <2>2 DEF RulesExact, TranslationInv
<1>6. ASSUME NEW a
      PROVE  Naming(a, i)' = IF a \in rules[i].to THEN Naming(a, i) \cup {i} ELSE Naming(a, i)
  BY <1>2, <1>3 DEF Naming
<1>7. /\ groups = {}
      /\ todo = {a \in Address : Naming(a, i) # {}}
      /\ allowAll = {a \in Address : \E k \in Naming(a, i) : rules[k].ports = <<>>}
      /\ \A a \in Address :
           ports[a] = IF a \in allowAll THEN {}
                      ELSE UNION {PortSet(rules[k].ports) : k \in Naming(a, i)}
  BY <1>2 DEF TranslationInv, PortsMerged
<1>8. todo' = {a \in Address : Naming(a, i)' # {}}
  BY <1>2, <1>4, <1>6, <1>7
<1>9. allowAll' = {a \in Address : \E k \in Naming(a, i)' : rules'[k].ports = <<>>}
  <2>1. ASSUME NEW a \in Address
        PROVE  a \in allowAll' <=> \E k \in Naming(a, i)' : rules[k].ports = <<>>
    <3>1. a \in allowAll <=> \E k \in Naming(a, i) : rules[k].ports = <<>>
      BY <1>7
    <3> QED
      BY <1>2, <1>6, <3>1
  <2>2. allowAll' \subseteq Address
    BY <1>2, <1>3, <1>4
  <2> QED
    BY <1>2, <2>1, <2>2
<1>10. ASSUME NEW a \in Address
       PROVE  ports'[a] = IF a \in allowAll' THEN {}
                          ELSE UNION {PortSet(rules'[k].ports) : k \in Naming(a, i)'}
  <2>1. CASE a \notin rules[i].to
    <3>1. a \in allowAll' <=> a \in allowAll
      BY <1>2, <2>1
    <3>2. ports'[a] = ports[a] /\ Naming(a, i)' = Naming(a, i)
      BY <1>2, <1>6, <2>1
    <3>3. ports[a] = IF a \in allowAll THEN {}
                     ELSE UNION {PortSet(rules[k].ports) : k \in Naming(a, i)}
      BY <1>7
    <3>4. rules' = rules
      BY <1>2
    <3> QED
      BY <3>1, <3>2, <3>3, <3>4, Zenon
  <2>2. CASE a \in rules[i].to /\ a \in allowAll'
    BY <1>2, <2>2
  <2>3. CASE a \in rules[i].to /\ a \notin allowAll'
    <3>1. a \notin allowAll
      BY <1>2, <2>3
    <3>2. ports[a] = UNION {PortSet(rules[k].ports) : k \in Naming(a, i)}
      BY <1>7, <3>1
    <3>3. ports[a] \subseteq PortsOf(egress) /\ PortSet(rules[i].ports) \subseteq PortsOf(egress)
      BY <1>3, <3>2, RulePorts DEF Naming
    <3>4. DistinctKeys(PortsOf(egress))
      BY DEF KeysDistinct, TranslationInv
    <3>5. DistinctKeys(ports[a] \cup PortSet(rules[i].ports))
      BY <3>3, <3>4 DEF DistinctKeys
    <3>6. ports'[a] = ports[a] \cup PortSet(rules[i].ports)
      BY <1>2, <1>4, <2>3, <3>5, PutPortsUnion
    <3>7. Naming(a, i)' = Naming(a, i) \cup {i}
      BY <1>6, <2>3
    <3> QED
      BY <1>2, <2>3, <3>2, <3>6, <3>7
  <2> QED
    BY <2>1, <2>2, <2>3
<1>11. PortsMerged'
  BY <1>2, <1>7, <1>8, <1>9, <1>10 DEF PortsMerged
<1> QED
  BY <1>1, <1>2, <1>5, <1>11 DEF TranslationInv, GroupsExact

\* After the last rule the map holds what the spec asks for, and the collapse
\* brings it into the form that ReferencePorts describes.
LEMMA CollapseInv ==
  ASSUME KeysDistinct, TranslationInv, Collapse, TypeOK'
  PROVE  TranslationInv'
<1>1. /\ egress' = egress /\ Opened' = Opened /\ \A n : OpenedBy(n)' = OpenedBy(n)
      /\ \A a : ReferencePorts(a)' = ReferencePorts(a)
  BY InputUnchanged DEF Collapse
<1>2. /\ pc = "shatter" /\ pc' = "group"
      /\ rules' = rules /\ groups' = groups /\ todo' = todo
      /\ \A a \in Address : ports'[a] = Collapsed(ports[a])
  BY DEF Collapse
<1>3. RulesExact'
  <2>1. \A k, n : Represents(k, n)' <=> Represents(k, n)
    BY <1>1, <1>2 DEF Represents
  <2>2. TranslatedRules' = TranslatedRules
    BY <1>1, <1>2 DEF TranslatedRules
  <2> QED
    BY <1>1, <1>2, <2>1, <2>2 DEF RulesExact, TranslationInv
<1>4. \A a : Naming(a, i) = {k \in DOMAIN rules : a \in rules[k].to}
  <2>1. rules \in Seq(MNPRule) /\ i \in Nat /\ i > Len(rules)
    BY DEF TranslationInv, TypeOK, Collapse
  <2>2. \A k \in DOMAIN rules : k < i
    BY <2>1
  <2> QED
    BY <2>2 DEF Naming
<1> DEFINE Mine(a) == {n \in DOMAIN egress : Opens(egress[n], globalBlock, ledger, a)}
<1>5. ASSUME NEW a \in Address
      PROVE  /\ \A k \in Naming(a, i) : \E n \in Mine(a) : rules[k].ports = egress[n].ports
             /\ \A n \in Mine(a) : \E k \in Naming(a, i) : rules[k].ports = egress[n].ports
  <2>1. ASSUME NEW k \in Naming(a, i)
        PROVE  \E n \in Mine(a) : rules[k].ports = egress[n].ports
    <3>1. PICK n \in DOMAIN egress : Represents(k, n)
      BY <1>4 DEF TranslationInv, RulesExact
    <3> QED
      BY <1>4, <3>1 DEF Represents, OpenedBy
  <2>2. ASSUME NEW n \in Mine(a)
        PROVE  \E k \in Naming(a, i) : rules[k].ports = egress[n].ports
    <3>1. a \in OpenedBy(n) /\ n \in TranslatedRules
      BY <1>2 DEF OpenedBy, TranslatedRules
    <3>2. PICK k \in DOMAIN rules : Represents(k, n)
      BY <3>1 DEF TranslationInv, RulesExact
    <3> QED
      BY <1>4, <3>1, <3>2 DEF Represents
  <2> QED
    BY <2>1, <2>2
<1>6. todo = Opened
  <2>1. todo = {a \in Address : Naming(a, i) # {}}
    BY <1>2 DEF TranslationInv, PortsMerged
  <2>2. \A a \in Address : Naming(a, i) # {} <=> Mine(a) # {}
    BY <1>5
  <2> QED
    BY <2>1, <2>2 DEF Opened
<1>7. ASSUME NEW a \in Opened PROVE ports'[a] = ReferencePorts(a)
  <2>1. a \in Address
    BY DEF Opened
  <2>2. /\ a \in allowAll <=> \E k \in Naming(a, i) : rules[k].ports = <<>>
        /\ ports[a] = IF a \in allowAll THEN {}
                      ELSE UNION {PortSet(rules[k].ports) : k \in Naming(a, i)}
    BY <1>2, <2>1 DEF TranslationInv, PortsMerged
  <2>3. a \in allowAll <=> \E n \in Mine(a) : egress[n].ports = <<>>
    BY <1>5, <2>1, <2>2
  <2> DEFINE all == UNION {PortSet(egress[n].ports) : n \in Mine(a)}
  <2>4. UNION {PortSet(rules[k].ports) : k \in Naming(a, i)} = all
    BY <1>5, <2>1
  <2>5. ReferencePorts(a) =
          IF a \in allowAll THEN {}
          ELSE {p \in all : \A q \in all : q.port = Any /\ q.protocol = p.protocol => q = p}
    BY <2>3 DEF ReferencePorts
  <2>6. DistinctKeys(all)
    BY DEF KeysDistinct, TranslationInv, DistinctKeys, PortsOf
  <2>7. CASE a \in allowAll
    <3>1. Collapsed({}) = {}
      BY DEF Collapsed
    <3> QED
      BY <1>2, <2>1, <2>2, <2>5, <2>7, <3>1
  <2>8. CASE a \notin allowAll
    <3>1. ports'[a] = Collapsed(all)
      BY <1>2, <2>1, <2>2, <2>4, <2>8
    <3> QED
      BY <2>5, <2>6, <2>8, <3>1, CollapsedMeaning
  <2> QED
    BY <2>7, <2>8
<1>8. groups = {}
  BY <1>2 DEF TranslationInv, PortsMerged
<1>9. GroupsExact'
  BY <1>1, <1>2, <1>6, <1>7, <1>8 DEF GroupsExact
<1> QED
  BY <1>1, <1>2, <1>3, <1>9 DEF TranslationInv, PortsMerged

\* An address joins the group that has its ports, or starts one.
LEMMA GroupInv ==
  ASSUME KeysDistinct, TranslationInv, NEW a \in Address, Group(a), TypeOK'
  PROVE  TranslationInv'
<1>1. /\ egress' = egress /\ Opened' = Opened /\ \A n : OpenedBy(n)' = OpenedBy(n)
      /\ \A b : ReferencePorts(b)' = ReferencePorts(b)
  BY InputUnchanged DEF Group
<1> DEFINE f == getPortsFingerprint(ports[a])
           mine == {g \in groups : g.fingerprint = f}
           new == [fingerprint |-> f, ports |-> ports[a], to |-> {a}]
<1>2. /\ pc = "group" /\ pc' = "group" /\ rules' = rules /\ ports' = ports
      /\ a \in todo /\ todo' = todo \ {a}
      /\ groups' = IF mine = {} THEN groups \cup {new}
                   ELSE (groups \ mine) \cup {[g EXCEPT !.to = g.to \cup {a}] : g \in mine}
  BY DEF Group
<1>3. RulesExact'
  <2>1. \A k, n : Represents(k, n)' <=> Represents(k, n)
    BY <1>1, <1>2 DEF Represents
  <2>2. TranslatedRules' = TranslatedRules
    BY <1>1, <1>2 DEF TranslatedRules
  <2> QED
    BY <1>1, <1>2, <2>1, <2>2 DEF RulesExact, TranslationInv
<1>4. /\ todo \subseteq Opened
      /\ \A b \in Opened : ports[b] = ReferencePorts(b)
      /\ \A g \in groups :
           /\ g.to # {} /\ g.to \subseteq Opened \ todo
           /\ g.fingerprint = getPortsFingerprint(g.ports)
           /\ \A b \in g.to : g.ports = ports[b]
      /\ \A b \in Opened \ todo : \E g \in groups : b \in g.to
      /\ \A g, h \in groups : g.fingerprint = h.fingerprint => g = h
  BY <1>2 DEF TranslationInv, GroupsExact
<1>5. DistinctKeys(PortsOf(egress)) /\ \A b \in Opened : ports[b] \subseteq PortsOf(egress)
  <2>1. ASSUME NEW b \in Opened PROVE ports[b] \subseteq PortsOf(egress)
    <3>1. \A p \in ReferencePorts(b) : \E n \in DOMAIN egress : p \in PortSet(egress[n].ports)
      BY DEF ReferencePorts
    <3>2. ReferencePorts(b) \subseteq PortsOf(egress)
      BY <3>1 DEF PortsOf
    <3> QED
      BY <1>4, <3>2
  <2> QED
    BY <2>1 DEF KeysDistinct, TranslationInv
<1>6. \A g \in groups : g.fingerprint = f => g.ports = ports[a]
  <2>1. ASSUME NEW g \in groups, g.fingerprint = f PROVE g.ports = ports[a]
    <3>1. PICK b \in g.to : g.ports = ports[b] /\ b \in Opened
      BY <1>4
    <3>2. ports[b] \in SUBSET PortsOf(egress) /\ ports[a] \in SUBSET PortsOf(egress)
      BY <1>2, <1>4, <1>5, <3>1
    <3>3. getPortsFingerprint(ports[b]) = getPortsFingerprint(ports[a])
      BY <1>4, <2>1, <3>1
    <3> QED
      BY <1>5, <3>1, <3>2, <3>3, FingerprintInjective
  <2> QED
    BY <2>1
<1> HIDE DEF f
<1>7. /\ \A g \in groups' :
           /\ g.to # {} /\ g.to \subseteq Opened \ todo'
           /\ g.fingerprint = getPortsFingerprint(g.ports)
           /\ \A b \in g.to : g.ports = ports[b]
      /\ \A b \in Opened \ todo' : \E g \in groups' : b \in g.to
      /\ \A g, h \in groups' : g.fingerprint = h.fingerprint => g = h
  <2>1. CASE mine = {}
    <3>1. groups' = groups \cup {new} /\ \A g \in groups : g.fingerprint # f
      BY <1>2, <2>1
    <3>2. /\ new.to = {a} /\ new.ports = ports[a] /\ new.fingerprint = f
          /\ f = getPortsFingerprint(new.ports)
      BY DEF f
    <3> HIDE DEF new
    <3> QED
      BY <1>2, <1>4, <3>1, <3>2
  <2>2. CASE mine # {}
    <3>1. PICK g0 \in groups : g0.fingerprint = f
      BY <2>2
    <3>2. mine = {g0}
      BY <1>4, <3>1
    <3> DEFINE g1 == [g0 EXCEPT !.to = g0.to \cup {a}]
    <3>3. groups' = (groups \ {g0}) \cup {g1}
      BY <1>2, <3>2
    <3>4. /\ g1.to = g0.to \cup {a} /\ g1.ports = g0.ports
          /\ g1.fingerprint = g0.fingerprint
      BY <3>1 DEF TranslationInv, TypeOK
    <3>5. g0.ports = ports[a]
      BY <1>6, <3>1
    <3> HIDE DEF g1
    <3>6. ASSUME NEW g \in groups'
          PROVE  /\ g.to # {} /\ g.to \subseteq Opened \ todo'
                 /\ g.fingerprint = getPortsFingerprint(g.ports)
                 /\ \A b \in g.to : g.ports = ports[b]
      BY <1>2, <1>4, <3>1, <3>3, <3>4, <3>5
    <3>7. ASSUME NEW b \in Opened \ todo' PROVE \E g \in groups' : b \in g.to
      <4>1. CASE b = a
        BY <3>3, <3>4, <4>1
      <4>2. CASE b # a
        <5>1. PICK g \in groups : b \in g.to
          BY <1>2, <1>4, <4>2
        <5> QED
          BY <3>3, <3>4, <5>1
      <4> QED
        BY <4>1, <4>2
    <3>8. ASSUME NEW g \in groups', NEW h \in groups', g.fingerprint = h.fingerprint
          PROVE  g = h
      BY <1>4, <3>1, <3>3, <3>4, <3>8
    <3> QED
      BY <3>6, <3>7, <3>8
  <2> QED
    BY <2>1, <2>2
<1>8. GroupsExact'
  BY <1>1, <1>2, <1>4, <1>7 DEF GroupsExact
<1> QED
  BY <1>1, <1>2, <1>3, <1>8 DEF TranslationInv, PortsMerged

LEMMA InvNext ==
  ASSUME KeysDistinct
  PROVE  TranslationInv /\ [Next]_vars => TranslationInv'
<1> SUFFICES ASSUME TranslationInv, [Next]_vars PROVE TranslationInv'
  OBVIOUS
<1>a. TypeOK'
  BY TypeNext DEF TranslationInv
<1>1. CASE Translate
  BY <1>1, <1>a, TranslateInv
<1>2. CASE Translated
  BY <1>2, <1>a, TranslatedInv
<1>3. CASE Shatter
  BY <1>3, <1>a, ShatterInv
<1>4. CASE Collapse
  BY <1>4, <1>a, CollapseInv
<1>5. ASSUME NEW a \in Address, Group(a) PROVE TranslationInv'
  BY <1>5, <1>a, GroupInv
<1>6. ASSUME Grouped \/ UNCHANGED vars PROVE TranslationInv'
  <2>1. UNCHANGED <<input, i, rules, allowAll, ports, todo, groups>>
    BY <1>6 DEF Grouped, vars, input
  <2>2. \/ pc = "group" /\ pc' = "done" /\ todo = {}
        \/ pc' = pc
    BY <1>6 DEF Grouped, vars
  <2>3. /\ egress' = egress /\ Opened' = Opened
        /\ \A n : OpenedBy(n)' = OpenedBy(n)
        /\ \A a : ReferencePorts(a)' = ReferencePorts(a)
    BY <2>1, InputUnchanged
  <2>4. \A k, n : Represents(k, n)' <=> Represents(k, n)
    BY <2>1, <2>3 DEF Represents
  <2>5. TranslatedRules' = TranslatedRules
    BY <2>1, <2>2, <2>3 DEF TranslatedRules
  <2>6. RulesExact'
    BY <2>1, <2>2, <2>3, <2>4, <2>5 DEF RulesExact, TranslationInv
  <2>7. PortsMerged'
    <3>1. \A a : Naming(a, i)' = Naming(a, i)
      BY <2>1 DEF Naming
    <3>2. /\ rules' = rules /\ i' = i /\ groups' = groups /\ todo' = todo
          /\ allowAll' = allowAll /\ ports' = ports
      BY <2>1
    <3>3. CASE pc' = pc
      <4> SUFFICES ASSUME pc = "shatter"
                   PROVE  /\ groups' = {}
                          /\ todo' = {a \in Address : Naming(a, i)' # {}}
                          /\ allowAll' = {a \in Address :
                                            \E k \in Naming(a, i)' : rules'[k].ports = <<>>}
                          /\ \A a \in Address :
                               ports'[a] = IF a \in allowAll' THEN {}
                                           ELSE UNION {PortSet(rules'[k].ports) : k \in Naming(a, i)'}
        BY <3>3 DEF PortsMerged
      <4>1. /\ groups = {}
            /\ todo = {a \in Address : Naming(a, i) # {}}
            /\ allowAll = {a \in Address : \E k \in Naming(a, i) : rules[k].ports = <<>>}
            /\ \A a \in Address :
                 ports[a] = IF a \in allowAll THEN {}
                            ELSE UNION {PortSet(rules[k].ports) : k \in Naming(a, i)}
        BY DEF PortsMerged, TranslationInv
      <4>2. ASSUME NEW a \in Address
            PROVE  ports'[a] = IF a \in allowAll' THEN {}
                               ELSE UNION {PortSet(rules'[k].ports) : k \in Naming(a, i)'}
        <5>1. /\ Naming(a, i)' = Naming(a, i) /\ rules' = rules
              /\ ports' = ports /\ allowAll' = allowAll
          BY <3>1, <3>2
        <5>2. ports[a] = IF a \in allowAll THEN {}
                         ELSE UNION {PortSet(rules[k].ports) : k \in Naming(a, i)}
          BY <4>1
        <5> QED
          BY <5>1, <5>2, Zenon
      <4> QED
        BY <3>1, <3>2, <4>1, <4>2
    <3>4. CASE pc' = "done"
      BY <3>4 DEF PortsMerged
    <3> QED
      BY <2>2, <3>3, <3>4
  <2>8. GroupsExact'
    BY <2>1, <2>2, <2>3 DEF GroupsExact, TranslationInv
  <2> QED
    BY <1>a, <2>3, <2>6, <2>7, <2>8 DEF TranslationInv
<1> QED
  BY <1>1, <1>2, <1>3, <1>4, <1>5, <1>6 DEF Next

\* Every phase leaves to the next what the spec asks for.
THEOREM TranslationInvariance ==
  ASSUME KeysDistinct
  PROVE  Spec => []TranslationInv
  BY InvInit, InvNext, PTL DEF Spec

-----------------------------------------------------------------------------
(***************************************************************************)
(* The result.                                                             *)
(***************************************************************************)

\* A group holds all the addresses that the spec gives its ports.
LEMMA GroupMeaning ==
  ASSUME TranslationInv, pc = "done", NEW g \in groups, NEW a \in g.to
  PROVE  /\ a \in Opened /\ g.ports = ReferencePorts(a)
         /\ g.to = {b \in Opened : ReferencePorts(b) = ReferencePorts(a)}
<1>1. /\ todo = {}
      /\ \A b \in Opened : ports[b] = ReferencePorts(b)
      /\ \A h \in groups :
           /\ h.to # {} /\ h.to \subseteq Opened \ todo
           /\ h.fingerprint = getPortsFingerprint(h.ports)
           /\ \A b \in h.to : h.ports = ports[b]
      /\ \A b \in Opened \ todo : \E h \in groups : b \in h.to
      /\ \A h, k \in groups : h.fingerprint = k.fingerprint => h = k
  BY DEF TranslationInv, GroupsExact
<1>2. a \in Opened /\ g.ports = ReferencePorts(a)
  BY <1>1
<1>3. ASSUME NEW b \in Opened, ReferencePorts(b) = ReferencePorts(a) PROVE b \in g.to
  <2>1. PICK h \in groups : b \in h.to
    BY <1>1
  <2>2. h.ports = g.ports
    BY <1>1, <1>2, <1>3, <2>1
  <2>3. h = g
    BY <1>1, <2>2
  <2> QED
    BY <2>1, <2>3
<1>4. \A b \in g.to : b \in Opened /\ ReferencePorts(b) = ReferencePorts(a)
  BY <1>1, <1>2
<1> QED
  BY <1>2, <1>3, <1>4

\* Every address the spec opens is in a group.
LEMMA OpenedGrouped ==
  ASSUME TranslationInv, pc = "done", NEW a \in Opened
  PROVE  \E g \in groups : a \in g.to
  BY DEF TranslationInv, GroupsExact

LEMMA InvCanonical == TranslationInv => Canonical
<1> DEFINE Out(g) == [ports |-> g.ports, to |-> g.to]
           Ref(a) == [ports |-> ReferencePorts(a),
                      to |-> {b \in Opened : ReferencePorts(b) = ReferencePorts(a)}]
<1> SUFFICES ASSUME TranslationInv, pc = "done"
             PROVE  {Out(g) : g \in groups} = {Ref(a) : a \in Opened}
  BY DEF Canonical
<1>1. ASSUME NEW g \in groups PROVE \E a \in Opened : Out(g) = Ref(a)
  <2>1. PICK a \in g.to : TRUE
    BY DEF TranslationInv, GroupsExact
  <2> QED
    BY GroupMeaning
<1>2. ASSUME NEW a \in Opened PROVE \E g \in groups : Out(g) = Ref(a)
  <2>1. PICK g \in groups : a \in g.to
    BY OpenedGrouped
  <2> QED
    BY <2>1, GroupMeaning
<1> HIDE DEF Out, Ref
<1> QED
  BY <1>1, <1>2

\* The ports the spec gives an address cover what the rules that open the
\* address cover together.
LEMMA ReferenceCovers ==
  ASSUME KeysDistinct, TranslationInv, NEW a \in Opened, NEW pr, NEW n
  PROVE  PortsCover(ReferencePorts(a), pr, n) <=>
           Intended(egress, globalBlock, ledger, a, pr, n)
<1> DEFINE mine == {m \in DOMAIN egress : Opens(egress[m], globalBlock, ledger, a)}
           all == UNION {PortSet(egress[m].ports) : m \in mine}
<1>1. Intended(egress, globalBlock, ledger, a, pr, n) <=>
        \E m \in mine : PortsCover(PortSet(egress[m].ports), pr, n)
  BY DEF Intended
<1>2. \A m \in mine : egress[m].ports \in Seq(Port)
  <2>1. \A m \in mine : egress[m] \in EgressRule
    BY DEF TranslationInv, TypeOK
  <2> QED
    BY <2>1 DEF EgressRule
<1>3. \A m \in mine : PortSet(egress[m].ports) = {} <=> egress[m].ports = <<>>
  <2>1. ASSUME NEW list \in Seq(Port) PROVE PortSet(list) = {} <=> list = <<>>
    <3>1. PortSet(list) = {} <=> Len(list) = 0
      BY DEF PortSet
    <3>2. Len(list) = 0 <=> list = <<>>
      OBVIOUS
    <3> QED
      BY <3>1, <3>2
  <2> QED
    BY <1>2, <2>1
<1>4. CASE \E m \in mine : egress[m].ports = <<>>
  <2>1. ReferencePorts(a) = {}
    BY <1>4 DEF ReferencePorts
  <2> QED
    BY <1>1, <1>3, <1>4, <2>1 DEF PortsCover
<1>5. CASE \A m \in mine : egress[m].ports # <<>>
  <2>1. DistinctKeys(all)
    BY DEF KeysDistinct, TranslationInv, DistinctKeys, PortsOf
  <2>2. ReferencePorts(a) = Collapsed(all)
    <3>1. ReferencePorts(a) =
            {p \in all : \A q \in all : q.port = Any /\ q.protocol = p.protocol => q = p}
      BY <1>5 DEF ReferencePorts
    <3> QED
      BY <2>1, <3>1, CollapsedMeaning
  <2>3. all \in SUBSET Port
    BY <1>2 DEF PortSet
  <2>4. mine # {} /\ \A m \in mine : PortSet(egress[m].ports) # {}
    BY <1>3, <1>5 DEF Opened
  <2>5. all # {}
    BY <2>4
  <2>6. (\E p \in all : PortCovers(p, pr, n)) <=>
          \E m \in mine : \E p \in PortSet(egress[m].ports) : PortCovers(p, pr, n)
    OBVIOUS
  <2> HIDE DEF all
  <2>7. PortsCover(ReferencePorts(a), pr, n) <=> \E p \in all : PortCovers(p, pr, n)
    BY <2>2, <2>3, <2>5, CollapsedCovers DEF PortsCover
  <2> QED
    BY <1>1, <2>4, <2>6, <2>7 DEF PortsCover
<1> QED
  BY <1>4, <1>5

LEMMA InvGrants == ASSUME KeysDistinct PROVE TranslationInv => GrantsExactly
<1> SUFFICES ASSUME TranslationInv, pc = "done",
                    NEW a \in Address, NEW pr \in Protocol, NEW n \in PortNumber
             PROVE  Granted(a, pr, n) <=> Intended(egress, globalBlock, ledger, a, pr, n)
  BY DEF GrantsExactly
<1>1. ASSUME Granted(a, pr, n) PROVE Intended(egress, globalBlock, ledger, a, pr, n)
  <2>1. PICK g \in groups : a \in g.to /\ PortsCover(g.ports, pr, n)
    BY <1>1 DEF Granted
  <2>2. a \in Opened /\ PortsCover(ReferencePorts(a), pr, n)
    BY <2>1, GroupMeaning
  <2> QED
    BY <2>2, ReferenceCovers
<1>2. ASSUME Intended(egress, globalBlock, ledger, a, pr, n) PROVE Granted(a, pr, n)
  <2>1. a \in Opened
    BY <1>2 DEF Intended, Opened
  <2>2. PICK g \in groups : a \in g.to
    BY <2>1, OpenedGrouped
  <2>3. g.ports = ReferencePorts(a)
    BY <2>2, GroupMeaning
  <2> QED
    BY <1>2, <2>1, <2>2, <2>3, ReferenceCovers DEF Granted
<1> QED
  BY <1>1, <1>2

\* For every spec whose port entries have keys of their own, the rules handed
\* to the cluster permit exactly the traffic the spec asks for.
THEOREM GrantExactness ==
  ASSUME KeysDistinct
  PROVE  Spec => []GrantsExactly
  BY TranslationInvariance, InvGrants, PTL

\* And they are the same whatever the order in which the maps were walked.
THEOREM ResultCanonical ==
  ASSUME KeysDistinct
  PROVE  Spec => []Canonical
  BY TranslationInvariance, InvCanonical, PTL

-----------------------------------------------------------------------------
(***************************************************************************)
(* The count.                                                              *)
(***************************************************************************)

\* The addresses of a set of groups.
Addresses(S) == UNION {g.to : g \in S}

\* A sum over a finite set is the one function that satisfies its recursion:
\* adding up sizes of disjoint sets gives the size of their union.
LEMMA SumOfSizes ==
  ASSUME NEW G, IsFiniteSet(G),
         \A g \in G : IsFiniteSet(g.to),
         \A g, h \in G : g # h => g.to \cap h.to = {}
  PROVE  MapThenSumSet(LAMBDA g : Cardinality(g.to), G) = Cardinality(Addresses(G))
<1> DEFINE Pick(s) == CHOOSE x \in s : TRUE
           Step(f) == [s \in SUBSET G |->
                         IF s = {} THEN 0
                         ELSE Cardinality(Pick(s).to) + f[s \ {Pick(s)}]]
           Size == [s \in SUBSET G |-> Cardinality(Addresses(s))]
           Iter == CHOOSE f : f = Step(f)
<1>1. \A s \in SUBSET G : s # {} => Pick(s) \in s
  OBVIOUS
<1>2. ASSUME NEW s \in SUBSET G
      PROVE  IsFiniteSet(s) /\ IsFiniteSet(Addresses(s)) /\ Cardinality(Addresses(s)) \in Nat
  <2>1. IsFiniteSet(s)
    BY FS_Subset
  <2> DEFINE Tos == {g.to : g \in s}
  <2>2. IsFiniteSet(Tos)
    <3> DEFINE to == [g \in s |-> g.to]
    <3>1. to \in Surjection(s, Tos)
      BY DEF Surjection
    <3> QED
      BY <2>1, <3>1, FS_Surjection
  <2>3. \A T \in Tos : IsFiniteSet(T)
    OBVIOUS
  <2> HIDE DEF Tos
  <2>4. IsFiniteSet(UNION Tos)
    BY <2>2, <2>3, FS_UNION
  <2> QED
    BY <2>1, <2>4, FS_CardinalityType DEF Addresses, Tos
<1>3. ASSUME NEW s \in SUBSET G, NEW x \in s
      PROVE  Cardinality(Addresses(s)) = Cardinality(x.to) + Cardinality(Addresses(s \ {x}))
  <2>1. Addresses(s) = x.to \cup Addresses(s \ {x})
    BY DEF Addresses
  <2>2. x.to \cap Addresses(s \ {x}) = {}
    BY DEF Addresses
  <2>3. IsFiniteSet(x.to) /\ IsFiniteSet(Addresses(s \ {x}))
    BY <1>2
  <2>4. Cardinality(x.to) \in Nat /\ Cardinality(Addresses(s \ {x})) \in Nat
    BY <2>3, FS_CardinalityType
  <2>5. Cardinality(x.to \cup Addresses(s \ {x})) =
          Cardinality(x.to) + Cardinality(Addresses(s \ {x})) - Cardinality({})
    <3> DEFINE rest == Addresses(s \ {x})
    <3>1. x.to \cap rest = {} /\ IsFiniteSet(x.to) /\ IsFiniteSet(rest)
      BY <2>2, <2>3
    <3> HIDE DEF rest
    <3>2. Cardinality(x.to \cup rest) =
            Cardinality(x.to) + Cardinality(rest) - Cardinality(x.to \cap rest)
      BY <3>1, FS_Union
    <3> QED
      BY <3>1, <3>2 DEF rest
  <2> QED
    BY <2>1, <2>4, <2>5, FS_EmptySet
<1>4. Size = Step(Size)
  <2>1. ASSUME NEW s \in SUBSET G
        PROVE  Size[s] = IF s = {} THEN 0
                         ELSE Cardinality(Pick(s).to) + Size[s \ {Pick(s)}]
    <3>1. CASE s = {}
      <4>1. Addresses({}) = {}
        BY DEF Addresses
      <4> QED
        BY <3>1, <4>1, FS_EmptySet
    <3>2. CASE s # {}
      <4>1. Pick(s) \in s
        BY <1>1, <3>2
      <4> HIDE DEF Pick
      <4>2. s \ {Pick(s)} \in SUBSET G
        OBVIOUS
      <4>3. Size[s \ {Pick(s)}] = Cardinality(Addresses(s \ {Pick(s)}))
        BY <4>2
      <4> QED
        BY <1>3, <3>2, <4>1, <4>3
    <3> QED
      BY <3>1, <3>2
  <2> QED
    BY <2>1, Zenon
<1>5. Iter = Step(Iter)
  BY <1>4, Zenon
<1>6. ASSUME NEW s \in SUBSET G
      PROVE  Iter[s] = IF s = {} THEN 0 ELSE Cardinality(Pick(s).to) + Iter[s \ {Pick(s)}]
  BY <1>5, Zenon
<1> HIDE DEF Iter, Pick
<1>7. ASSUME NEW s \in SUBSET G PROVE Iter[s] = Cardinality(Addresses(s))
  <2> DEFINE Bad == {t \in SUBSET G : Iter[t] # Cardinality(Addresses(t))}
             Sizes == {Cardinality(t) : t \in Bad}
  <2> SUFFICES ASSUME Bad # {} PROVE FALSE
    OBVIOUS
  <2>1. Sizes \in SUBSET Nat /\ Sizes # {}
    BY <1>2, FS_CardinalityType
  <2> HIDE DEF Sizes
  <2>2. PICK m \in Sizes : \A y \in Sizes : m <= y
    BY <2>1, LeastNatural
  <2> USE DEF Sizes
  <2>3. PICK t \in Bad : Cardinality(t) = m
    OBVIOUS
  <2>4. t # {}
    <3>1. Cardinality(Addresses({})) = 0
      BY FS_EmptySet DEF Addresses
    <3> QED
      BY <1>6, <3>1
  <2> DEFINE x == Pick(t)
             u == t \ {x}
  <2>5. x \in t
    BY <1>1, <2>4
  <2>6. u \in SUBSET G
    OBVIOUS
  <2>7. Cardinality(u) = m - 1 /\ m \in Nat
    BY <1>2, <2>1, <2>3, <2>5, FS_RemoveElement
  <2>8. u \notin Bad
    BY <2>2, <2>7
  <2>9. Iter[u] = Cardinality(Addresses(u))
    BY <2>6, <2>8
  <2>10. Iter[t] = Cardinality(x.to) + Iter[u]
    BY <1>6, <2>4
  <2> QED
    BY <1>3, <2>5, <2>9, <2>10
<1>8. MapThenSumSet(LAMBDA g : Cardinality(g.to), G) = Iter[G]
  BY Zenon DEF MapThenSumSet, MapThenFoldSet, Iter, Pick
<1> QED
  BY <1>7, <1>8

\* The number of peers is the number of addresses, because no address is in
\* two groups.
LEMMA InvCount == TranslationInv => CountExact
<1> SUFFICES ASSUME TranslationInv, pc = "done"
             PROVE  CountUniqueAddresses = Cardinality(Opened) /\ (IsEmpty <=> Opened = {})
  BY DEF CountExact
<1>1. \A g \in groups : g.to # {} /\ g.to \subseteq Opened
  BY DEF TranslationInv, GroupsExact
<1>2. Addresses(groups) = Opened
  BY <1>1, OpenedGrouped DEF Addresses
<1>3. ASSUME NEW g \in groups, NEW h \in groups, NEW a \in g.to, a \in h.to PROVE g = h
  BY <1>3 DEF TranslationInv, GroupsExact
<1>4. IsFiniteSet(Opened) /\ \A g \in groups : IsFiniteSet(g.to)
  BY <1>1, AddressAssumption, FS_Subset DEF Opened
<1>5. IsFiniteSet(groups)
  <2> DEFINE one == [g \in groups |-> CHOOSE a \in g.to : TRUE]
  <2>1. \A g \in groups : one[g] \in g.to
    BY <1>1
  <2> HIDE DEF one
  <2>2. one \in Injection(groups, Opened)
    <3>1. one \in [groups -> Opened]
      BY <1>1, <2>1 DEF one
    <3> QED
      BY <1>3, <2>1, <3>1 DEF Injection, IsInjective
  <2> QED
    BY <1>4, <2>2, FS_Injection
<1>6. CountUniqueAddresses = Cardinality(Opened)
  <2>1. \A g, h \in groups : g # h => g.to \cap h.to = {}
    BY <1>3
  <2> QED
    BY <1>2, <1>4, <1>5, <2>1, SumOfSizes DEF CountUniqueAddresses
<1>7. IsEmpty <=> Opened = {}
  BY <1>1, <1>2 DEF IsEmpty, Addresses
<1> QED
  BY <1>6, <1>7

\* AppliedAddressCount counts every address the policy opens once.
THEOREM CountExactness ==
  ASSUME KeysDistinct
  PROVE  Spec => []CountExact
  BY TranslationInvariance, InvCount, PTL

=============================================================================
