SPECIFICATION PagesSpec
CONSTANTS
  Invoice = {i1, i2}
  Entry <- MCEntry
  Refused = Refused
  Null = Null
  MaxVersions = 2
  MaxSaves = 2
  MaxOpens = 2
  MaxFaults = 1
  Line = {l1, l2}
  Account = {"a1", "a2"}
  Centre = {"c1"}
  Person = {p1}
  Robot = Robot
  Nothing = Nothing
  PastUses <- MCPastUses
  MaxChoices = 1
  MaxCalls = 2
CHECK_DEADLOCK FALSE
SYMMETRY Symmetry
INVARIANTS ScreenCurrent ValueAsMeant PostedAsCounted
