SPECIFICATION Spec
CONSTANTS
  Cids = {c1, c2}
  Keys = {"x"}
  PathParts = {"", "x", "y"}
  MaxParts = 3
  MaxLinks = 2
  MaxListings = 2
  MaxThings = 3
  Kilo = 4
INVARIANTS TypeOK EntriesInOrder FindsNode ConversionsKeep
CHECK_DEADLOCK FALSE
