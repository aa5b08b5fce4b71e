SPECIFICATION StartSpec
CONSTANTS
  Engines = {e1, e2, e3}
  Inodes = {i1, i2, i3, i4}
  RegularFile = RegularFile
  None = None
INVARIANTS ServingOwnsThePath OpenSchemaComplete
PROPERTY LoneEngineRecovers
