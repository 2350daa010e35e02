\* Violation run: FailedLoadReleases.
CONSTANTS
  NULL = NULL
  Objects <- MCObjects
  FieldSets <- MCFieldSets
  MaxLines = 3
SPECIFICATION Spec
\* The load ends: after db_objects_destroy nothing is left to do.
INVARIANT FailedLoadReleases
CHECK_DEADLOCK FALSE
