SPECIFICATION FairSpec
CONSTANTS
  MaxConversations = 2
  MaxEvents = 4
INVARIANTS MessagesMatch StopAborts
PROPERTY StreamingEnds
CHECK_DEADLOCK FALSE
