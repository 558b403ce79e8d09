---------------------------- MODULE MCTranslation ----------------------------
(***************************************************************************)
(* Small instances of TranslationLists: up to three egress rules over two  *)
(* names and three addresses of which one is private.                      *)
(***************************************************************************)
EXTENDS TranslationLists

CONSTANTS f1, f2, a1, a2, p1

Entry(protocol, port, endPort) ==
  [protocol |-> protocol, port |-> port, endPort |-> endPort]

TCP1 == Entry("TCP", 1, NoEnd)
TCP2 == Entry("TCP", 2, NoEnd)
TCPAny == Entry("TCP", Any, NoEnd)
UDP1 == Entry("UDP", 1, NoEnd)
TCP1to3 == Entry("TCP", 1, 3)

\* No port list, single entries, two protocols, and an entry an Any covers.
PortLists == {<<>>, <<TCP1>>, <<TCPAny>>, <<TCP2, TCP1>>, <<TCPAny, TCP2, UDP1>>}

RulesWith(lists) ==
  [toFQDNs : (SUBSET FQDN) \ {{}}, ports : lists, blockPrivateIPs : {TRUE, FALSE, Inherit}]

ListsOf(rs) == {<<>>} \cup {<<r>> : r \in rs} \cup {<<r, s>> : r, s \in rs}

\* Three rules, so that a rule without ports can come before, between or after
\* rules with ports for the same address.
Triples(rs) == {<<r, s, t>> : r, s, t \in rs}

MCEgresses ==
  ListsOf(RulesWith(PortLists))
    \cup Triples({r \in RulesWith({<<>>, <<TCP1>>, <<TCPAny, UDP1>>}) :
                    r.blockPrivateIPs = Inherit})

\* The same with a range that starts at a port another entry names.
MCRangeEgresses ==
  ListsOf({r \in RulesWith({<<TCP1>>, <<TCP1to3>>}) : r.blockPrivateIPs = Inherit})

\* "TCP:1" < "TCP:2" < "TCP:3" < "TCP:Any" < "UDP:1" < ...
MCKeyOrder ==
  <<<<"TCP", 1>>, <<"TCP", 2>>, <<"TCP", 3>>, <<"TCP", Any>>,
    <<"UDP", 1>>, <<"UDP", 2>>, <<"UDP", 3>>, <<"UDP", Any>>>>

MCAddressOrder == <<a1, a2, p1>>

MCLedgers == [FQDN -> {{}, {a1}, {a2, p1}}]

=============================================================================
