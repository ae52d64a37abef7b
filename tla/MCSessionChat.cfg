SPECIFICATION MCSpec
CONSTANTS
  Chars = {c1, c2}
  SocketIds = {1, 2}
  HelperIds = {1, 2}
  None = None
  Nil = Nil
  MaxRetries = 2
  Budgets <- MCBudgets
  p1 = p1
  p2 = p2
  p3 = p3
  MaxId = 3
  Players = {p1, p2, p3}
  RightModerators = {p3}
  Initials <- MCInitials
  ChannelBudgets <- MCChannelBudgets
CHECK_DEADLOCK FALSE
INVARIANTS SomebodyRestores InviteAfterQueueStatus  OneOwner ConfirmedBanHolds
PROPERTIES  SessionLeavesNothing
