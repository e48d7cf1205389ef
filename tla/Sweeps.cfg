SPECIFICATION FairSpec
CONSTANTS
  Node <- MCNode
  User <- MCUser
  Amount <- OneAmount
  Limit <- MCLimit
  Enforced = {TRUE, FALSE}
  NoCondition = NoCondition
  NoNode = NoNode
  NoUser = NoUser
  Workflow = {"sla-all"}
  Def <- Defs
  Unearned <- MCUnearned
  Worker = {w1, cron}
  Scheduler = {cron}
  MaxInstances = 1
  MaxSteps = 3
  MaxDelegations = 1
CHECK_DEADLOCK FALSE
PROPERTIES RequestsEnd BreachesSurface
