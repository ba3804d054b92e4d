\* The smallest pool: 40 bytes in the first block, 64 in the others.  Requests
\* of 20 bytes leave last unaligned, of 40 fill a block, of 41 are large.  Two
\* connections to the echo server; the other parts' bounds are in MCLarge.
SPECIFICATION AnySpec
CONSTANTS
  None = None
  PoolSize = 96
  PageSize = 4096
  SizeofPool = 56
  SizeofData = 32
  SizeofLarge = 16
  Alignment = 8
  AddressSpace = 65536
  FailLimit = 0
  EntryLimit = 0
  Sizes = {20, 40, 41}
  Chunks = {p1, p2}
  MaxBlocks = 3
  Conns = {c1, c2}
  Listener = listener
SYMMETRY Symmetry
INVARIANTS
  PoolSound
  BuffersSound
  BevSound
  LibeventSound
PROPERTIES
  StepsInOrder
  ImplementsArena
  SessionsKept
  ImplementsByteQueues
\* SIGPIPE may end the server, and a bufferevent that is freed is gone.
CHECK_DEADLOCK FALSE
