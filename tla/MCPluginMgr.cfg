SPECIFICATION Spec
CONSTANTS
  cpu = cpu
  cpu2 = cpu2
  disk = disk
  Path <- MCPath
  NameOf <- MCNameOf
  Node = {n1, n2, n3}
  NoPath = NoPath
  MaxId = 4
SYMMETRY Symmetry
INVARIANTS
  RegistryMatchesWatcher
  OneNodePerName
  FlagsAreTrue
  HandlesAreCounted
  UndescribedIsLost
  IdsAreNew
