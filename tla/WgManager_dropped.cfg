CONSTANTS
  k1 = k1
  k2 = k2
  k3 = k3
  m1 = m1
  m2 = m2
  m3 = m3
  s1 = s1
  s2 = s2
  Keys = {k1, k2, k3}
  MeshCidrs = {m1, m2, m3}
  Subnets = {s1, s2}
  Lists <- ChangingRelay
  Lan = {}
  CmdFaults = FALSE
  MaxCrashes = 0
  None = None
SPECIFICATION Spec
INVARIANT NoRouteLeft
