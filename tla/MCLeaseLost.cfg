SPECIFICATION Spec

CONSTANTS
  p1 = p1
  p2 = p2
  Process <- MCProcess
  Runtimes = 6
  Budgets <- Together

CHECK_DEADLOCK FALSE

PROPERTY
  EffectsUnderOwnLease
