SPECIFICATION LSpec
CONSTANTS
  f1 = f1
  f2 = f2
  a1 = a1
  a2 = a2
  p1 = p1
  FQDN = {f1, f2}
  Address = {a1, a2, p1}
  Private = {p1}
  Protocol = {"TCP", "UDP"}
  PortNumber = {1, 2, 3}
  Any = Any
  NoEnd = NoEnd
  Inherit = Inherit
  Egresses <- MCEgresses
  Ledgers <- MCLedgers
  KeyOrder <- MCKeyOrder
  AddressOrder <- MCAddressOrder
INVARIANTS
  TypeOK
  GrantsExactly
  Canonical
  ListsCanonical
  CountExact
CHECK_DEADLOCK FALSE
