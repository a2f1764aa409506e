SPECIFICATION FairRegistrySpec
CONSTANTS
  Runner = {a, b}
  MaxConns = 4
INVARIANTS GraceHasTimer TimerHitsItsOwn
PROPERTIES OnlyItsOwnEnd GraceEnds
CHECK_DEADLOCK FALSE
