SPECIFICATION Spec
CONSTANTS
  Jobs = {a, b}
  a = a
  b = b
  AsCreated <- ThenB
  Skipping = {b}
  Workers = {w1, w2}
  Slots = {1, 2}
  Free = Free
  Gone = Gone
  Guest = Guest
  Calls = {"stream", "send", "retry", "park", "archive", "edit", "release", "accept"}
  MaxFaults = 0
  MaxActs = 1
CHECK_DEADLOCK FALSE
INVARIANTS AcceptedIsResolved
