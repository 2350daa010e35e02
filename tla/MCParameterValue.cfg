\* Each behaviour is one parameter_value call on one line, which keeps no
\* state, so every behaviour stops after it.
CONSTANTS
  Chars <- MCChars
  Fields <- MCFields
  MaxLen = 7
  NUL = NUL
  NULL = NULL
  FAULT = FAULT
SPECIFICATION Spec
INVARIANT TypeOK
INVARIANT PlainValueSpec
CHECK_DEADLOCK FALSE
