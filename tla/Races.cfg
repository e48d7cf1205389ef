SPECIFICATION LifecycleSpec
CONSTANTS
  Node <- MCNode
  User <- MCUser
  Amount <- OneAmount
  Limit <- MCLimit
  Enforced = {TRUE, FALSE}
  NoCondition = NoCondition
  NoNode = NoNode
  NoUser = NoUser
  Workflow = {"u1"}
  Def <- Defs
  Unearned <- MCUnearned
  Worker = {w1,w2}
  Scheduler = {}
  MaxInstances = 4
  MaxSteps = 10
  MaxDelegations = 0
  Figures = {"blank","p","q"}
  Blank = "blank"
  Citing <- MCCiting
  NoMatch = NoMatch
  Order <- MCOrder
  NoOrder = "absent"
  Check <- MCCheck
  Field = {"number","total"}
  Scored = {"number","total"}
  Feeding = {"number"}
  Total = "total"
  Other = {}
  MaxEdits = 1
CHECK_DEADLOCK FALSE
SYMMETRY Symmetry
INVARIANT PaidOnRecord
INVARIANT OneActivePerInvoice
