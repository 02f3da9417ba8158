SPECIFICATION Spec
CONSTANTS
  d1 = d1
  d2 = d2
  none = none
  r1 = r1
  Rec <- MCRec
  ApprovalId = {a1, a2}
  Data <- MCData
  State = {"draft", "review", "done"}
  InitialState = "draft"
  Any = "any"
  Transitions <- MCTransitions
  Triggers <- MCTriggers
  Keyed <- MCKeyed
  None = none
  HopLimit = 2
  MaxLost = 0
  MaxChanges = 5
INVARIANT
  ProjectionIsReplay
