\* A lockout against calls in flight (violated, see the README).
SPECIFICATION Spec
CONSTANTS
  Requests = {r1, r2}
  ClientIPs = {a1}
  Codes = {c1}
  Rows = {i1}
  Devices = {d1}
  Issuers = {p1}
  MaxAttempts = 1
  CodeTTL = 1
  Lockout = 1
  IssueRetries = 1
  MaxTime = 2
  None = None
INVARIANT NoPairingWhileLockedOut
