\* Three requests of one device, which may revoke it or carry no token; one and a half
\* touch intervals and a restart.
SPECIFICATION Spec
CONSTANTS
  Requests = {r1, r2, r3}
  Devices = {d1}
  NoDevice = NoDevice
  VersionCodes = {0, 1}
  TouchEvery = 2
  LastMs = 3
  MaxRestarts = 1
SYMMETRY Symmetry
INVARIANTS TypeOK RevokedNotServed TouchesThrottled SeenWithinInterval
PROPERTIES RowsProgress
