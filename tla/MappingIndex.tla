---------------------------- MODULE MappingIndex ----------------------------
(***************************************************************************)
(* What the SchemaMappingIndex promises (spec 4.1), with no data structure: *)
(* the mapping file is read line by line; a skipped line changes nothing, *)
(* a valid record adds its object, a record for an object already loaded  *)
(* or an invalid record ends the load in failure; at the end of the file  *)
(* the load succeeds unless reading failed.  Once loaded, a lookup finds  *)
(* exactly the loaded objects.  DbObjectIndex implements it with a sorted  *)
(* list, an array copy of it and a binary search.                          *)
(***************************************************************************)
EXTENDS Naturals, Sequences

CONSTANTS
  Objects,       \* object paths, totally ordered by idmef_object_compare
  Files,         \* the mapping files the program may be given
  Skipped(_),    \* the line is a comment or blank
  Valid(_),      \* the line parses into a complete record
  ObjectOf(_),   \* the object a valid record maps
  NULL

VARIABLES
  lines,    \* the mapping file
  line,     \* lines consumed so far
  status,   \* "loading", "done", "failed" or "unloaded"
  loaded,   \* objects indexed
  found     \* answer of the last lookup: an object or NULL

avars == <<lines, line, status, loaded, found>>

AInit ==
  /\ lines \in Files
  /\ line = 0
  /\ status = "loading"
  /\ loaded = {}
  /\ found = NULL

ReadLine ==
  /\ status = "loading"
  /\ line < Len(lines)
  /\ line' = line + 1
  /\ LET l == lines[line + 1] IN
       \/ /\ Skipped(l)
          /\ UNCHANGED <<status, loaded>>
       \/ /\ ~Skipped(l) /\ Valid(l) /\ ObjectOf(l) \notin loaded
          /\ loaded' = loaded \cup {ObjectOf(l)}
          /\ UNCHANGED status
       \/ /\ ~Skipped(l)
          /\ ~Valid(l) \/ ObjectOf(l) \in loaded
          /\ status' = "failed"
          /\ UNCHANGED loaded
  /\ UNCHANGED <<lines, found>>

Finish ==
  /\ status = "loading"
  /\ line = Len(lines)
  /\ status' \in {"done", "failed"}
  /\ UNCHANGED <<lines, line, loaded, found>>

Lookup(o) ==
  /\ status = "done"
  /\ found' = IF o \in loaded THEN o ELSE NULL
  /\ UNCHANGED <<lines, line, status, loaded>>

Unload ==
  /\ status \in {"done", "failed"}
  /\ status' = "unloaded"
  /\ loaded' = {}
  /\ UNCHANGED <<lines, line, found>>

ANext == ReadLine \/ Finish \/ Unload \/ \E o \in Objects : Lookup(o)

ASpec == AInit /\ [][ANext]_avars

=============================================================================
