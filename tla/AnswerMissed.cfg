SPECIFICATION InboxSpec
CONSTANTS
  r1 = r1
  l1 = l1
  l2 = l2
  NoRequest = NoRequest
  NoLoop = NoLoop
  Message <- MCMessage
  Request <- MCRequest
  ReplyTo <- MCReplyTo
  Loop <- MCLoop
  MaxCrashes = 1
PROPERTY
  TimedOutIsUnanswered
