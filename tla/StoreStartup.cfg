\* A daemon and the pair command, three migrations in two releases, two days, one snapshot
\* kept, two crashes.
SPECIFICATION FairSpec
CONSTANTS
  Daemon = daemon
  Pairing = pairing
  Binaries = {1, 3}
  KeepBackups = 1
  LastDay = 2
  MaxCrashes = 2
  MaxPairings = 1
INVARIANTS TypeOK VersionIsSchema BackedUpFirst OneIdentity
PROPERTIES NewestSnapshotKept DaemonServes
