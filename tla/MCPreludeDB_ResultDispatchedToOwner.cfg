\* Violation run: ResultDispatchedToOwner.
CONSTANTS
  d1 = d1  d2 = d2  r1 = r1  r2 = r2
  classic = classic  other = other  bogus = bogus
  NULL = NULL
  Dbs <- MCDbs
  Results <- MCResults
  Formats <- MCFormats
  Names <- MCNames
  MaxRef = 2
  MaxRows = 2
SPECIFICATION Spec
SYMMETRY Symmetry
\* A library stops whenever its caller stops calling it.
INVARIANT ResultDispatchedToOwner
CHECK_DEADLOCK FALSE
