\* Two workers, two jobs, two attempts each, two crashes.
SPECIFICATION FairSpec
CONSTANTS
  Workers = {w1, w2}
  MaxJobs = 2
  Kinds = {thumbnail, transcode}
  Thumbnail = thumbnail
  PriorityThumbnail = 10
  PriorityTranscode = 100
  MaxAttempts = 2
  MaxCrashes = 2
  MaxTime = 2
\* The queue may be empty for good.
CHECK_DEADLOCK FALSE
INVARIANTS TypeOK RunningIsHeld AttemptsBounded GivesUpLate
PROPERTIES EveryJobEnds ImplementsJobLifecycle
