SPECIFICATION Spec
CONSTANTS
  Identifiers <- MCIdentifiers
  Tokens <- MCTokens
  Beginnings <- MCBeginnings
  Value <- MCValue
INVARIANTS
  PrintedReadsBack
CHECK_DEADLOCK FALSE
