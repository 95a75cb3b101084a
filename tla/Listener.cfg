SPECIFICATION FairSpec
CONSTANTS
  Client = {c1, c2}
  MaxLines <- OneTalks
INVARIANTS
  TypeOK
  ErasedAreServed
  OnlyWholeLines
  OnlyLinesAwaited
PROPERTIES
  SessionsServed
  FinishedAreServed
  InterruptEndsLoop
