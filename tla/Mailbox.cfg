SPECIFICATION FairSpec
CONSTANTS
  Poller = {cron, user}
  Cron = {cron}
  Messages = 2
  MailId = {"a"}
  NoId = "none"
  IdOf <- MCIdOf
  Attached <- MCAttached
  Uploaded = {7}
  Null = Null
  Word <- MCWord
  Letters <- MCLetters
  NoLetters = ""
  Reply <- MCReply
  Text <- MCText
  Replies <- MCReplies
  Limit = 1
  MaxFaults = 1
  MaxRequests = 1
CHECK_DEADLOCK FALSE
INVARIANT NothingLost
INVARIANT AtMostOneRouted
INVARIANT GateAddsUp
PROPERTY ImplementsDelivery
PROPERTY EveryMessageHandled
