SPECIFICATION Spec
CONSTANTS
  nothing = nothing
  NoName = nothing
  CoreNames = {"core.User", "core.Calendar", "core.Kind"}
  Pack <- MCPack
  Source <- MCSource
  Genesis = "base"
  MaxProposals = 3
  MaxLost = 1
INVARIANTS
  TypeOK ReplayRestores ChangesAreSigned RunningModelIsSound
PROPERTIES
  PlanIsHonest DataStaysLegal
