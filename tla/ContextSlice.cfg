SPECIFICATION Spec
CONSTANTS
  MaxBudget = 12
  Reserve = 3
  Least = 2
  MaxTokens = 6
  MaxFiles = 5
INVARIANTS
  TypeOK
  WithinBudget
  OneTruncated
  NothingMoreFits
  GoodFilesFirst
\* The selection ends with the last file.
CHECK_DEADLOCK FALSE
