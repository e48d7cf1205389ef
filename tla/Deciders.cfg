SPECIFICATION Spec
CONSTANTS
  Node <- MCNode
  User <- MCUser
  Amount <- OneAmount
  Limit <- MCLimit
  Enforced = {TRUE, FALSE}
  NoCondition = NoCondition
  NoNode = NoNode
  NoUser = NoUser
  Workflow = {"two-any", "two-all"}
  Def <- Defs
  Unearned <- MCUnearned
  Worker = {w1, w2}
  Scheduler = {}
  MaxInstances = 1
  MaxSteps = 4
  MaxDelegations = 1
CHECK_DEADLOCK FALSE
SYMMETRY Symmetry
INVARIANTS ApprovedOnRecord SomeoneToAsk
