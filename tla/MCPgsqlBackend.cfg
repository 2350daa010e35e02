CONSTANTS
  NULL = NULL
  MsgChars <- MCMsgChars
  LitChars <- MCLitChars
  EscChars <- MCEscChars
  Ints <- MCInts
  GmtOffsets <- MCGmtOffsets
  MaxLen = 3
  SizeBits = 30
  MaxDim = 2

SPECIFICATION Spec

INVARIANT TypeOK
INVARIANT QueryOutcomeSpec
INVARIANT LimitOffsetSpec
INVARIANT OpenSpec
INVARIANT EscapeSpec
INVARIANT TableAccessSpec
INVARIANT EscapeBinarySpec

\* Each behaviour is one call of a plugin function that keeps no state,
\* so every behaviour stops after it.
CHECK_DEADLOCK FALSE
