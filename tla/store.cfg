\* Three processes open one database file, in every state a file can be found in.
CONSTANTS
  p1 = p1
  p2 = p2
  p3 = p3
  Processes <- ProcessSet
SPECIFICATION Spec
INVARIANTS
  OpenIsUsable
  StampKeepsPromise
PROPERTY StoreOpensInTheEnd
\* A store of a newer build refuses every process, and then nothing is left to do.
CHECK_DEADLOCK FALSE
