\* Six small programs on one event_base: a persistent event and the timer that
\* ends the loop, events of two priorities, a signal, a deferred callback
\* of which more than one in a round has to wait for the next,
\* and a persistent event that may be given a timeout of zero.
SPECIFICATION Spec
CONSTANTS
  Events = {"rd", "wr", "tm", "hi", "lo", "sg", "df", "zr"}
  Threads = {t1}
  LoopThread = loop
  Notify = notify
  Evsig = evsig
  None = None
  Fd <- SmallFd
  Interest <- SmallInterest
  Persist = {"rd", "sg", "zr"}
  Deferred = {"df"}
  Pri <- SmallPri
  Manual = {"hi", "lo", "sg"}
  Exits = {"tm"}
  Scenarios <- SixPrograms
  Delays <- SmallDelays
  MaxDeferreds = 0
  MaxRaised = 2
  MaxAge = 1
  MaxLate = 1
INVARIANTS
  BaseSound
  NoLostWakeup
PROPERTIES
  HigherFirst
  ImplementsEventLife
  CallersReturn
  ActiveIsCalled
  PollsAgain
