CONSTANTS
  Hashes <- MCHashes
  MaxLen = 3
SPECIFICATION Spec
CHECK_DEADLOCK FALSE
INVARIANTS
  TypeOK
  UnreadIntact
  ResultIsOrderedFilter
