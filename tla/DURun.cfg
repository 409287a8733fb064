SPECIFICATION Spec
CONSTANTS
  UseNames <- MCUseNames
  Launches <- MCLaunches
  Requests <- MCRequests
  Embeddings <- MCEmbeddings
  MaxUps = 3
INVARIANTS DatabaseOpens UsesApart WholeOrAbsent ReadyBeforeServing
PROPERTY MintedKept
CHECK_DEADLOCK FALSE
