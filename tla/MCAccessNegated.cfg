SPECIFICATION MCSpec
CONSTANTS
  TicksPerMinute = 2
  MinutesPerDay = 4
  Week = 3
  WeekDays = {0, 1}
  WorkStart = 1
  WorkEnd = 4
  MaxDays = 5
  DefApprover = "boss"
  CoreEntities = {"core.Calendar"}
  Entities = {"Doc", "core.Calendar"}
  Actors <- MCActors
  Models <- MCModels
  FirstModel <- Scoped
  Ids <- MCIds
  FirstRows <- MCFirstRows
  Legal <- MCLegal
  ParseFloat <- MCParseFloat
  Standard <- MCStandard
  Tokens <- MCTokens
  MaxText = 0
  MaxNow = 0
  Negated = TRUE
INVARIANT CandidatesCoverPermitted
CHECK_DEADLOCK FALSE
