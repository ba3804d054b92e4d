\* One request with its two queries.
SPECIFICATION Spec
PROPERTY CancelIsTold
CHECK_DEADLOCK FALSE
