\* One descriptor for two connections: one waits in the backlog, and the
\* descriptor is used again.
SPECIFICATION FairSpec
CONSTANTS
  Biggest_FD = 3
  ListenFd = 1
  Conns = {c1, c2}
  Listener = listener
  Messages = {"text", "quit"}
  GreetTimeout = 1
  EchoTimeout = 2
  MaxEvents = 3
  MaxSends = 2
INVARIANTS
  TableSound
  NoStaleEvent
  TimersPunctual
PROPERTIES
  ImplementsEchoSession
  ReplyBeforeNextRead
  EveryConnectionEnds
\* SIGPIPE may end the server.
CHECK_DEADLOCK FALSE
