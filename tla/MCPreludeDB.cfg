\* The library's reference counting over every sequence of caller calls.
CONSTANTS
  d1 = d1  d2 = d2  r1 = r1  r2 = r2
  classic = classic  other = other  bogus = bogus
  NULL = NULL
  Dbs <- MCDbs
  Results <- MCResults
  Formats <- MCFormats
  Names <- MCNames
  MaxRef = 2
  MaxRows = 2
SPECIFICATION Spec
SYMMETRY Symmetry
INVARIANT TypeOK
INVARIANT RefcountAccounted
INVARIANT NoUseAfterFree
INVARIANT ResourceReleasedOnce
PROPERTY ResultLifecycleSpec
\* A library stops whenever its caller stops calling it.
CHECK_DEADLOCK FALSE
