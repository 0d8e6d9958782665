SPECIFICATION Spec
CONSTANTS
  Bytes = {"v", "L", "T", "n", "r", "b"}
  MaxLength = 5
INVARIANTS TypeOK ChunkingIrrelevant Prompt
CHECK_DEADLOCK FALSE
