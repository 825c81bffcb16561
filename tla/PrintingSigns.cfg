SPECIFICATION Spec
CONSTANTS
  Identifiers <- MCIdentifiers
  Tokens <- MCTokens
  Beginnings <- MCBeginnings
  Value <- MCValue
INVARIANTS
  SignsReadBack
CHECK_DEADLOCK FALSE
