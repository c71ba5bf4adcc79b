SPECIFICATION FairSpec
CONSTANTS
  Start = {s1, s2}
  First = s1
  Handler = {h1, h2}
  Stop = {x1}
  KeepSystemCoin = FALSE
  MaxBlock = 2
  None = None
INVARIANTS
  TypeOK
  OnePassPerClosure
  ShutdownEndsWork
PROPERTIES
  ProcessedNeverDecreases
  BusyEnds
