CONSTANTS
  Tasks = {t1, t2}
  Agents = {a1, a2}
  NoTask = NoTask
  NoAgent = NoAgent
  MaxCalls = 3
SPECIFICATION FairSpec
INVARIANTS
  NoStrayAgent
  OneAgent
  NobodyWaitsForTheGone
  EndsSilently
PROPERTIES
  OvertakenIsNotUsed
  CommandsEnd
CHECK_DEADLOCK FALSE
