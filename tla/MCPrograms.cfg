\* Three processes share the semaphore, two of them set it; three lock the file;
\* two clients poll with three bytes; two clients send packets in segments.  The
\* servers have two connections, both open at a time, and two messages for each.
SPECIFICATION Spec
CONSTANTS
  None = None
  c1 = c1
  Conns = {c1, c2}
  MaxSends = 2
  MaxBytes = 3
  Procs = {1, 2, 3}
  WithArgument = {1, 2}
  Rounds = 2
  Sections = 3
  MaxSem = 2
  Listener = listener
  ListenFd = 1
  Biggest_FD = 4
  Stats = {s1, s2}
  MaxEvents = 3
  Senders = {1, 2}
  HeaderSize = 2
  BodySizes = {0, 2}
INVARIANT Sound
PROPERTIES
  StepsAllowed
  ImplementsEchoSession
  ImplementsFormSession
  CustomersServed
\* Programs end; SIGPIPE may end a server, and clients may all fall silent.
CHECK_DEADLOCK FALSE
