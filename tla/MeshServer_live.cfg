CONSTANTS
  n1 = n1
  n2 = n2
  n3 = n3
  k1 = k1
  k2 = k2
  k3 = k3
  Names = {n1, n2, n3}
  Keys = {k1, k2}
  KeysOf <- Renamed
  Attrs = {a1, a2}
  Hosts = 2
  Conns = {c1, c2}
  None = None
  DbFaults = FALSE
  MaxBeats = 2
  Aging = {n1}
SPECIFICATION LiveSpec
INVARIANT KeyIsIdentity
PROPERTY Convergence
PROPERTY ImplementsRegistry
PROPERTY FreshFollowsAgents
