\* The persistent event and the timer are enough.
SPECIFICATION Spec
CONSTANTS
  Events = {"rd", "wr", "tm", "hi", "lo", "sg", "df", "zr"}
  Threads = {t1}
  LoopThread = loop
  Notify = notify
  Evsig = evsig
  None = None
  Fd <- SmallFd
  Interest <- SmallInterest
  Persist = {"rd", "sg", "zr"}
  Deferred = {"df"}
  Pri <- SmallPri
  Manual = {"hi", "lo", "sg"}
  Exits = {"tm"}
  Scenarios <- TwoTimers
  Delays <- SmallDelays
  MaxDeferreds = 0
  MaxRaised = 2
  MaxAge = 1
  MaxLate = 1
INVARIANT AddedIsWatched
