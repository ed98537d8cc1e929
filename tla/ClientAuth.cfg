SPECIFICATION FairSpec
CONSTANTS
  Calls = {c1, c2, c3}
  MaxTokens = 3
INVARIANT TypeOK
INVARIANT ClearsAlternate
PROPERTY LoneTokenKept
PROPERTY RejectedTokenDropped
