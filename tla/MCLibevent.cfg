\* 12 ticks until their number wraps, and three members of which a user's thread may
\* lock one; the bounds of the other parts are in MCLibevent.
SPECIFICATION Spec
CONSTANTS
  None = None
  NoConfig = NoConfig
  Starts = {3}
  Cfgs <- TwoConfigs
  Ticks = 12
  Period = 12
  Word = 64
  BucketDebt = 1
  BucketTokens = 3
  MaxCalls = 3
  Bevs = {"r", "w", "held"}
  Holders = {"held"}
  Rate = 2
  Maximum = 3
  ConfiguredShare = 1
  MaxTicks = 2
  GroupDebt = 2
  GroupTokens = 4
  GroupCalls = 1
  Outgoing = {1, 2}
  Incoming = {1, 2, 3}
  Linger = TRUE
INVARIANTS
  RatesSound
  ResolverSound
  HttpSound
PROPERTIES
  RefillFills
  HeldStays
  WaitingGoesOn
  UserIsTold
\* A bufferevent that is freed is gone.
CHECK_DEADLOCK FALSE
