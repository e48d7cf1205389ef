SPECIFICATION Spec
CONSTANTS
  Call = {c1, c2}
  Client = {c1, c2, shared}
  Conn = {"erp", "new"}
  FirstConfig <- MCFirstConfig
  NoSession = NoSession
  NoToken = NoToken
  Blank = Blank
  NoCode = NoCode
  Unmappable = Unmappable
  Placeholder = "dots"
  NewConfigs <- MCNewConfigs
  Patches <- MCPatches
  Life = {2, 4}
  Margin = 2
  Timeout = 1
  MaxTime = 4
  MaxSession = 2
SYMMETRY Operations
CHECK_DEADLOCK FALSE
INVARIANT OneDocument
INVARIANT TokenOutlivesRequest
INVARIANT ConnectionUsable
