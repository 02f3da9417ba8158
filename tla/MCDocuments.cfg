SPECIFICATION Spec
CONSTANTS
  Entity = {"Doc", "Conf"}
  NoField = "none"
  Core = {}
  Actor = "ann"
  CondHolds <- MCCondHolds
  WithComputed <- MCWithComputed
  ParseFloat <- MCParseFloat
  Decl <- MCDecl
  StateField <- MCStateField
  LinkDecls <- MCLinkDecls
  Rules <- MCRules
  Given <- MCGiven
  Changes <- MCChanges
  Imports <- MCImports
  Format <- MCFormat
  WellFormed <- MCWellFormed
  Years = {1, 2}
  MaxSerial = 4
  Ids <- MCIds
  Keys <- MCKeys
  NoKey <- MCNoKey
  Most <- MCMost
  MaxEvents = 4
  MaxLost = 1
  MaxDay = 2
INVARIANTS
  ReplayRestores UniqueAmongHeard LinksReadBack EveryPeriodOnce
