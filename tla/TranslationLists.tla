-------------------------- MODULE TranslationLists --------------------------
(***************************************************************************)
(* Translation with the lists the code builds: the port list of every      *)
(* fingerprint, the addresses in the order in which the Go runtime happens *)
(* to walk the map, and the egress rules that come out.  The runtime walks *)
(* a map in a different order every time, and CreateOrUpdate compares the  *)
(* lists it gets with those in the cluster, element by element, so the     *)
(* sorts must undo every such order.                                       *)
(*                                                                         *)
(* Next adds to Translation's Next nothing but the lists.  Strings are     *)
(* known by their place in the order of sort.Strings.                      *)
(***************************************************************************)
EXTENDS Translation

Lists == INSTANCE SequencesExt

CONSTANTS
  KeyOrder,      \* the port keys ("TCP:80"), in the order of their strings
  AddressOrder   \* the addresses ("a.b.c.d/32"), in the order of their strings

Enumerates(list, S) == Lists!ToSet(list) = S /\ Len(list) = Cardinality(S)

ASSUME KeyOrderAssumption ==
  Enumerates(KeyOrder, Protocol \X (PortNumber \cup {Any}))
ASSUME AddressOrderAssumption == Enumerates(AddressOrder, Address)

VARIABLES
  groupings,   \* the addresses, in the order of the walk
  portSlices,  \* fingerprintToPortSlice
  newEgress    \* mnp.Spec.Egress, rewritten

listVars == <<groupings, portSlices, newEgress>>
lvars == <<egress, globalBlock, ledger, pc, i, rules, allowAll, ports, todo, groups,
           groupings, portSlices, newEgress>>

(***************************************************************************)
(* The orders of the three sorts.  A fingerprint is the sorted list of its *)
(* keys, joined by commas, which sort before anything a key goes on with;  *)
(* so fingerprints compare like lists of keys, and "All ports" comes       *)
(* first.                                                                  *)
(***************************************************************************)
Place(list, x) == CHOOSE n \in DOMAIN list : list[n] = x

AddressLess(a, b) == Place(AddressOrder, a) < Place(AddressOrder, b)

PortLess(p, q) ==
  Place(KeyOrder, getSinglePortKey(p)) < Place(KeyOrder, getSinglePortKey(q))

FingerprintLess(f, g) ==
  LET Places(h) == Lists!SetToSortSeq({Place(KeyOrder, k) : k \in h}, <)
      s == Places(f)
      t == Places(g)
  IN  \E n \in DOMAIN t :
        /\ n <= Len(s) + 1
        /\ \A m \in 1..(n - 1) : s[m] = t[m]
        /\ n > Len(s) \/ s[n] < t[n]

SortedPorts(list) == Lists!SortSeq(list, PortLess)

\* Mutant of SortedCidrs: the addresses stay in the order of the walk.
SortedCidrsNot(list) == list

SortedCidrs(list) == Lists!SortSeq(list, AddressLess)

SortedFingerprints(list) == Lists!SortSeq(list, FingerprintLess)

-----------------------------------------------------------------------------
LInit ==
  /\ Init
  /\ groupings = <<>>
  /\ portSlices = [f \in {} |-> <<>>]
  /\ newEgress = <<>>

\* Phase 2 for one address: the ports of its map, walked in any order and
\* sorted, are the port list of a fingerprint that has none yet.
LGroup(a) ==
  LET f == getPortsFingerprint(ports[a]) IN
  /\ Group(a)
  /\ groupings' = Append(groupings, a)
  /\ IF f \in DOMAIN portSlices THEN UNCHANGED portSlices
     ELSE \E walk \in Lists!SetToSeqs(ports[a]) :
            portSlices' = [g \in DOMAIN portSlices \cup {f} |->
                             IF g = f THEN SortedPorts(walk) ELSE portSlices[g]]
  /\ UNCHANGED newEgress

\* Phase 3: the addresses of a fingerprint, in the order of the walk.
CidrsOf(f) == SelectSeq(groupings, LAMBDA a : getPortsFingerprint(ports[a]) = f)

\* Phase 4: the fingerprints, walked in any order and sorted, become rules.
LGrouped ==
  /\ Grouped
  /\ \E walk \in Lists!SetToSeqs(DOMAIN portSlices) :
       LET sorted == SortedFingerprints(walk) IN
       newEgress' = [n \in DOMAIN sorted |->
                       [ports |-> portSlices[sorted[n]], to |-> SortedCidrs(CidrsOf(sorted[n]))]]
  /\ UNCHANGED <<groupings, portSlices>>

LNext ==
  \/ (Translate \/ Translated \/ Shatter \/ Collapse) /\ UNCHANGED listVars
  \/ \E a \in Address : LGroup(a)
  \/ LGrouped

LSpec == LInit /\ [][LNext]_lvars

-----------------------------------------------------------------------------
(***************************************************************************)
(* Properties.                                                             *)
(***************************************************************************)
ReferenceRule(a) ==
  [ports |-> Lists!SetToSortSeq(ReferencePorts(a), PortLess),
   to |-> Lists!SetToSortSeq({b \in Opened : ReferencePorts(b) = ReferencePorts(a)}, AddressLess)]

ReferenceEgress ==
  Lists!SetToSortSeq({ReferenceRule(a) : a \in Opened},
               LAMBDA r, s : FingerprintLess(getPortsFingerprint(Lists!ToSet(r.ports)),
                                             getPortsFingerprint(Lists!ToSet(s.ports))))

\* The egress rules are, list by list and element by element, a function of
\* the spec and of the ledger: whatever order the four maps are walked in, the
\* same rules come out in the same order, with their ports and their peers in
\* the same order.  Anything less would make CreateOrUpdate rewrite an
\* unchanged MultiNetworkPolicy in every round.
ListsCanonical == pc = "done" => newEgress = ReferenceEgress

=============================================================================
