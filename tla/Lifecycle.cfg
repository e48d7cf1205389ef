SPECIFICATION LifecycleSpec
CONSTANTS
  Node <- MCNode
  User <- MCUser
  Amount <- OneAmount
  Limit <- MCLimit
  Enforced = {TRUE, FALSE}
  NoCondition = NoCondition
  NoNode = NoNode
  NoUser = NoUser
  Workflow = {"timed"}
  Def <- Defs
  Unearned <- MCUnearned
  Worker = {w1}
  Scheduler = {}
  MaxInstances = 4
  MaxSteps = 10
  MaxDelegations = 0
  Figures = {"blank","p","n","d"}
  Blank = "blank"
  Citing <- MCCiting
  NoMatch = NoMatch
  Order <- MCOrder
  NoOrder = "absent"
  Check <- MCCheck
  Field = {"number","total","vendor"}
  Scored = {"number","total","vendor"}
  Feeding = {"number"}
  Total = "total"
  Other = {}
  MaxEdits = 3
CHECK_DEADLOCK FALSE
INVARIANT LiveIsPending
INVARIANT ApprovalStands
INVARIANT ExceptionExplained
INVARIANT StaleIsVisible
PROPERTY GateRespected
PROPERTY PostingTerminal
