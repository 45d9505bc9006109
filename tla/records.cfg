SPECIFICATION Spec
CONSTANTS
  Generations = {"old", "new"}
  Null = Null
  Key <- TwoKeys
  Type <- Types
  Collation <- Order
  InitTables <- Tables
  Documents <- Docs
  Queries <- Asked
  Sizes = {"1", "2"}
  Edits <- Entered
  MaxChanges = 2
INVARIANTS TypeOK PagesCover
PROPERTIES ReadsDontWrite EditLands DeleteExact KeysKept
CHECK_DEADLOCK FALSE
