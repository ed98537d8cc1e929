\* Two blobs, seven items on offer under four ids, two jobs, two devices, two codes,
\* each group on a fresh store.
SPECIFICATION Spec
CONSTANTS
  Cases = {"blobs", "items", "jobs", "devices", "codes"}
  h1 = h1
  h2 = h2
  Hashes = {h1, h2}
  SizeOf <- MCSizeOf
  VariantKinds = {1, 2}
  OfferedItems <- MCItems
  JobKinds = {thumbnail, transcode}
  Thumbnail = thumbnail
  MaxJobs = 2
  MaxAttempts = 1
  DeviceIds = {1, 2}
  TokenHashes = {t1, t2}
  Versions = {0, 1}
  CodeHashes = {c1, c2}
  MaxGuesses = 2
  MetaKeys = {k1}
  MetaValues = {v1, v2}
  FirstMs = 1
  LastMs = 2
  None = None
  Null = Null
  EmptyText = ""
\* A store whose every answer is an error may stay as it is.
CHECK_DEADLOCK FALSE
INVARIANTS TypeOK IndexesAgree StatsAreDerived SameRows SameLists
PROPERTIES ImplementsTables
