\* Two workers, so that a signal can wake the wrong one, two posters and three
\* tasks for a list of one: the list grows past it, and posts are refused.
SPECIFICATION FairSpec
CONSTANTS
  Workers = {w1, w2}
  Posters = {p1, p2}
  Main = main
  Tasks = {t1, t2, t3}
  ExitTask = exitTask
  NoTask = NoTask
  NoThread = NoThread
  MaxQueue = 1
  MaxDestroyCalls = 2
INVARIANTS
  PoolInv
  PoolSafety
  QueueBound
  DestroyDrains
PROPERTIES
  ImplementsTaskPool
  AcceptedTaskRuns
  DestroyReturns
