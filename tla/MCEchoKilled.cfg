\* One descriptor for two connections: one waits in the backlog, and the
\* descriptor is used again.
SPECIFICATION Spec
CONSTANTS
  Biggest_FD = 3
  ListenFd = 1
  Conns = {c1, c2}
  Listener = listener
  Messages = {"text", "quit"}
  GreetTimeout = 3
  EchoTimeout = 2
  MaxEvents = 3
  MaxSends = 2
INVARIANT ServerLives
CHECK_DEADLOCK FALSE
