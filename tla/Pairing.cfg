\* The life of a code and the limiter: two calls at once, two issues that draw the same
\* digits, lockouts of one address and time for a record to be forgotten.
SPECIFICATION Spec
CONSTANTS
  Requests = {r1, r2}
  ClientIPs = {a1}
  Codes = {c1}
  Rows = {i1, i2}
  Devices = {d1, d2}
  Issuers = {p1}
  MaxAttempts = 3
  CodeTTL = 1
  Lockout = 1
  IssueRetries = 2
  MaxTime = 3
  None = None
SYMMETRY Symmetric
INVARIANTS TypeOK SingleUse ChargedRowsWereDead OvershootBounded
PROPERTIES LiveCodeKept ImplementsLifecycle FailuresRemembered
