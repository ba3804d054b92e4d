CONSTANTS
  Workers = {w1, w2}
  Posters = {p1, p2}
  Main = main
  Tasks = {t1, t2, t3}
  ExitTask = exitTask
  NoTask = NoTask
  NoThread = NoThread
  MaxQueue = 1
  MaxDestroyCalls = 2
SYMMETRY Symmetry
SPECIFICATION Spec
INVARIANT QueueWithinMax
