CONSTANTS
  n1 = n1
  n2 = n2
  n3 = n3
  k1 = k1
  k2 = k2
  k3 = k3
  Names = {n1, n2}
  Keys = {k1, k2, k3}
  KeysOf <- Rekeyed
  Attrs = {a1}
  Hosts = 2
  Conns = {c1, c2, c3}
  None = None
  DbFaults = TRUE
  MaxBeats = 1
  Aging = {}
SPECIFICATION Spec
SYMMETRY ConnSymmetry
INVARIANT TypeOK
INVARIANT AddressIsIdentity
INVARIANT MutualDiscovery
INVARIANT ListsUsable
