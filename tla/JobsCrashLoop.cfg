\* A handler that kills the process (violated, see the README).
SPECIFICATION Spec
CONSTANTS
  Workers = {w1}
  MaxJobs = 1
  Kinds = {transcode}
  Thumbnail = thumbnail
  PriorityThumbnail = 10
  PriorityTranscode = 100
  MaxAttempts = 3
  MaxCrashes = 3
  MaxTime = 0
CHECK_DEADLOCK FALSE
INVARIANT NeverBeyondMaxAttempts
