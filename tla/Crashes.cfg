SPECIFICATION CrashSpec
CONSTANTS
  Node <- MCNode
  User <- MCUser
  Amount <- OneAmount
  Limit <- MCLimit
  Enforced = {TRUE, FALSE}
  NoCondition = NoCondition
  NoNode = NoNode
  NoUser = NoUser
  Workflow = {"two-all"}
  Def <- Defs
  Unearned <- MCUnearned
  Worker = {w1}
  Scheduler = {}
  MaxInstances = 3
  MaxSteps = 4
  MaxDelegations = 0
CHECK_DEADLOCK FALSE
PROPERTY RestartRepairs
