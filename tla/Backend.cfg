SPECIFICATION FairSpec
CONSTANTS
  k1 = k1
  k2 = k2
  h1 = h1
  h2 = h2
  Keys <- MCKeys
  Hashes = {h1, h2}
  NoKey = NoKey
  NoFile = NoFile
  NoQueue = NoQueue
  Gone = Gone
  Operations = {"open", "create", "openOrCreate", "doom", "next", "doomAll", "doomHeld"}
  Modes = {TRUE, FALSE}
  Faults = TRUE
  MaxRequests = 3
INVARIANTS
  TypeOK
  ChecksHold
  DoomedIsNotServed
  UndoomedIsFound
  IdleIsClean
PROPERTIES
  RemovesOnlyOlder
  EveryRequestAnswered
CHECK_DEADLOCK FALSE
