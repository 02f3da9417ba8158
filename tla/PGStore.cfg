SPECIFICATION PGSpec
CONSTANTS
  Client = {c1, c2}
  Fact = {f1, f2}
  Checkpoint = checkpoint
  Key = {k1}
  NoKey = nokey
  Nobody = nobody
  MaxEvents = 3
INVARIANTS
  PGTypeOK ChainIntact CheckpointsHold OneEventPerKey AnswersAreStored NoSpuriousConflict
PROPERTIES
  ImplementsStore EveryCallReturns
