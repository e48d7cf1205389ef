SPECIFICATION FairSpec
CONSTANTS
  Unset = Unset
  None = None
  NoUser = NoUser
  Worker = {w1, w2}
  UserId = {"ann", "bob", "cy", "far", "new", "more"}
  Tenant = {"home", "away"}
  Email = {"ann", "bob", "cy", "new"}
  Identity = {"sub-ann", "sub-bob", "sub-two", "sub-cy", "sub-new", "sub-odd"}
  Seed <- MCSeed
  Request <- MCRequest
  Grant <- MCGrant
  MaxOps = 3
  Name = {"main", "other"}
  FirstDefs <- MCFirstDefs
CHECK_DEADLOCK FALSE
INVARIANT ActsAsOwner
INVARIANT AdminLeft
INVARIANT CircleOvertaken
PROPERTY NeverUnrouted
PROPERTY RequestsEnd
