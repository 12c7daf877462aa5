SPECIFICATION Spec
CONSTANTS
  d1 = d1
  d2 = d2
  k1 = k1
  u1 = u1
  r1 = r1
  r2 = r2
  Devices <- MCDevices
  AlertKeys <- MCAlertKeys
  UnknownIds <- MCUnknownIds
  Requests <- MCRequests
  Ops <- MCAllOps
  Races = TRUE
SYMMETRY Symmetry
INVARIANTS
  TypeOK
  CheckedStaysMapped
  ListingComplete
PROPERTIES
  TakesEffectAtomically
