\* The tux protocol: two LED values, a three-command output buffer, two
\* pending packets, three user calls or device events.
CONSTANTS
  LedVals = {1, 2}
  LineCap = 3
  HostCap = 2
  MaxCalls = 3
SPECIFICATION Spec
INVARIANTS TypeOK ShownAccepted
PROPERTIES NoLedLockout
\* The driver and device may rest once the user stops and the line is quiet.
CHECK_DEADLOCK FALSE
