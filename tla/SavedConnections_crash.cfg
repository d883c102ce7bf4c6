CONSTANTS
  Conns = {c1, c2}
  Keys = {k1, k2, k3}
  HostKey = HostKey
  NoKey = NoKey
  Missing = Missing
  Damaged = Damaged
  Nobody = Nobody
  MaxSpoiled = 2
SPECIFICATION Spec
INVARIANTS
  NothingLost
  NotLockedOut
  AllIsShown
PROPERTY StoreSpec
CHECK_DEADLOCK FALSE
