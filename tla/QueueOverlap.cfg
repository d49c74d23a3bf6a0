\* A collaborator deletes another block while a field is being saved; nothing fails.
SPECIFICATION Spec
CONSTANTS
  Coalesced = {"f", "g"}
  ById = {"x"}
  Others = {}
  Blocks = {"B", "C"}
  BlockOf <- QueueBlockOf
  Removable = {"C"}
  Values = {1, 2}
  MaxRetries <- Retries
  MaxEdits = 3
  MaxFaults = 0
  None = None
INVARIANT
  ReadyToDeploy
CHECK_DEADLOCK FALSE
