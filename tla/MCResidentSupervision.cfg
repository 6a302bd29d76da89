SPECIFICATION FairSpec

CONSTANTS
  p1 = p1
  p2 = p2
  Process <- MCProcess
  Runtimes = 6
  Budgets <- MCBudgets

\* A service may be left with nothing to do.
CHECK_DEADLOCK FALSE
INVARIANTS
    SupervisionIsSound
    OneLiveLease
    QuietIsIdle
PROPERTIES
    CallsReturn
