\* One retry, and requests before and after it.
SPECIFICATION Spec
CONSTANTS
  Requests = {1, 2}
  retry_max = 1
  Setups <- PlainSetup
  Odd = {"request after giving up"}
INVARIANT ConnectionStarted
CHECK_DEADLOCK FALSE
