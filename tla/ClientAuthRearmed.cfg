\* Two calls, two pairings: the least in which the latch is re-armed for an older token.
SPECIFICATION Spec
CONSTANTS
  Calls = {c1, c2}
  MaxTokens = 2
INVARIANT ClearedOncePerToken
