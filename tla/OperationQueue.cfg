\* A field and the name of one block, a setting of a block that may be deleted.
SPECIFICATION FairSpec
CONSTANTS
  Coalesced = {"f"}
  ById = {"g"}
  Others = {"x"}
  Blocks = {"B", "C"}
  BlockOf <- QueueBlockOf
  Removable = {"C"}
  Values = {1, 2}
  MaxRetries <- Retries
  MaxEdits = 3
  MaxFaults = 1
  None = None
INVARIANTS
  IInv
  ReadyMeansSaved
PROPERTY
  QueueDrains
CHECK_DEADLOCK FALSE
