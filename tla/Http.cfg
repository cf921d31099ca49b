SPECIFICATION Spec
CONSTANTS
  Text <- MCText
  MaxLong = 99
  Conversations <- MCConversations
INVARIANTS WholeRequestAnswered OneAnswer EnqueuedWasPosted
CHECK_DEADLOCK FALSE
