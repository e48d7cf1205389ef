SPECIFICATION Spec
CONSTANTS
  Node <- MCNode
  User <- MCUser
  Amount <- MCAmount
  Limit <- MCLimit
  Enforced = {TRUE, FALSE}
  NoCondition = NoCondition
  NoNode = NoNode
  NoUser = NoUser
  Workflow = {"two-any", "two-all", "sla-all", "cond", "no-role"}
  Def <- Defs
  Unearned <- MCUnearned
  Worker = {w1}
  Scheduler = {}
  MaxInstances = 2
  MaxSteps = 6
  MaxDelegations = 1
CHECK_DEADLOCK FALSE
INVARIANTS TypeOK NoStrayQuestion
PROPERTIES HistoryKept ImplementsRound
