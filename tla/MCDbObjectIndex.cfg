\* Loading, indexing and searching the mapping, checked against the plain mapping.
CONSTANTS
  NULL = NULL
  Objects <- MCObjects
  FieldSets <- MCFieldSets
  MaxLines = 4
SPECIFICATION Spec
INVARIANT TypeOK
INVARIANT SortedUnique
INVARIANT LookupCorrect
PROPERTY MappingIndexSpec
\* The load ends: after db_objects_destroy nothing is left to do.
CHECK_DEADLOCK FALSE
