CONSTANTS
  n1 = n1
  i1 = i1
  i2 = i2
  Names = {"t", "u"}
  Nodes = {n1}
  Addrs = {i1, i2}
  MeshIP <- IPs
  Clients = {c1, c2}
  Requests <- SomeRequests
  Rests = {"b"}
  Kinds = {"create", "update", "delete", "edit", "wizard"}
  Pair <- NamePair
  WizardTargets <- SomeWizardTargets
  DbFaults = TRUE
  None = None
SPECIFICATION LiveSpec
INVARIANT TypeOK
INVARIANT ServersReal
PROPERTY ImplementsStore
PROPERTY EditsKeepTargets
PROPERTY Finishes
