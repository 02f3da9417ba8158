SPECIFICATION Spec
CONSTANTS
  r1 = r1
  d1 = d1
  d2 = d2
  none = none
  Rec <- MCRec
  ApprovalId = {a1, a2}
  Data <- MCData
  State = {"review", "done"}
  InitialState = "review"
  Any = "any"
  Transitions <- MCTransitions
  Triggers <- MCTriggers
  Keyed <- MCKeyed
  None = none
  HopLimit = 2
  MaxLost = 1
  MaxChanges = 6
INVARIANTS
  MovesAreSigned DecisionsAreFinal
PROPERTY
  LockIsReleased
