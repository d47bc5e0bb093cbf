CONSTANTS
  a1 = a1
  a2 = a2
  a3 = a3
  g1 = g1
  g2 = g2
  g3 = g3
  v = v
  ann = ann
  bob = bob
  NoOwner = NoOwner
  None = None
  Agents = {a1, a2, a3}
  Pollers = {g1, g2, g3}
  Visitors = {v}
  Relays = {1, 2}
  Home = 1
  Owners = {ann, bob}
  RelayOf <- MCRelayOf
  EntryOf <- MCEntryOf
  Owner <- MCOwner
SPECIFICATION Spec
CHECK_DEADLOCK FALSE
CONSTRAINT OneCast
INVARIANTS
  TypeOK
  ServingHoldsClaim
  TransportsAgree
  OnlineSessionKeepsName
  PendingIsWatched
PROPERTIES
  BoundByHolder
  RelaysImplementLease
  GatewayImplementsLease
