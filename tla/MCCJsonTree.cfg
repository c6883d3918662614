SPECIFICATION Spec
CONSTANTS
  Item = {i1, i2, i3, i4}
  NoItem = NoItem
  Name = {"k"}
  NoName = NoName
  Fold <- MCFold
  MaxHeld = 2
  MaxReferences = 1
  MaxConstant = 1
SYMMETRY Symmetry
CHECK_DEADLOCK FALSE
INVARIANTS
  ListsAreLinked
  OneOwner
  DuplicateIsEqual
  IndexIsMeant
PROPERTY ImplementsJsonTree
