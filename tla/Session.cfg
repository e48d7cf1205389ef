SPECIFICATION FairSpec
CONSTANTS
  User = {"alice", "bob"}
  Step = {"s1", "s2", "s3"}
  Owner <- MCOwner
  Poll = {p1, p2}
  NoUser = NoUser
  NoAnswer = NoAnswer
  Unseen = Unseen
  MaxSubmits = 2
  MaxLosses = 1
CHECK_DEADLOCK FALSE
PROPERTIES EveryArrivalAnnounced NameFollowsToken
