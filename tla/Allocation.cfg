CONSTANTS
  Octet = 4
  Blocks = {1, 2, 4}
  Meshes <- SmallMeshes
  UsedIn <- Some
  None = None
  Exhausted = Exhausted
SPECIFICATION LiveSpec
INVARIANT TypeOK
INVARIANT FirstFreeHost
INVARIANT ExhaustedMeansFull
PROPERTY LoopClimbs
PROPERTY Returns
CHECK_DEADLOCK FALSE
