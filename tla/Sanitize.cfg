\* Every name of up to four characters, cut to two.
SPECIFICATION Spec
CONSTANTS
  MaxAlbumGraphemes = 2
  MaxLength = 4
CHECK_DEADLOCK FALSE
INVARIANT Idempotent
