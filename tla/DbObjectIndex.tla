---------------------------- MODULE DbObjectIndex ----------------------------
(***************************************************************************)
(* The schema-mapping index of the classic format, plugins/format/classic/ *)
(* db-object.c: db_objects_init reads the mapping file line by line,       *)
(* db_object_new parses a line and inserts the record into the list        *)
(* db_objects kept sorted by idmef_object_compare, a duplicate or a parse  *)
(* error aborts the load; at the end of the file the list is copied into   *)
(* the array db_object_index, which db_object_find binary-searches;        *)
(* db_objects_destroy frees every record.                                  *)
(*                                                                         *)
(* A line is abstracted to its shape: a comment or blank line, a line with *)
(* no object= key, an object path idmef_object_new rejects, or a record    *)
(* with an object and the set of keys present.  Objects are integers, so   *)
(* the path comparator is their order.  The pointers a record owns are     *)
(* <<line, key>> pairs; `frees` counts how often each one is freed.        *)
(***************************************************************************)
EXTENDS Integers, Sequences, SequencesExt, Bags

CONSTANTS
  Objects,     \* object paths (integers: idmef_object_compare is their order)
  FieldSets,   \* sets of keys a record line carries
  MaxLines,    \* longest mapping file
  NULL

Keys == {"table", "field", "function", "top_table", "top_field", "condition",
         "ident_field", "usec_field", "gmtoff_field"}

ASSUME Objects \subseteq Int /\ FieldSets \subseteq SUBSET Keys

Records == [kind : {"record"}, obj : Objects, fields : FieldSets]
Lines   == [kind : {"skip", "no_object", "bad_object"}] \cup Records
Files   == UNION {[1..n -> Lines] : n \in 0..MaxLines}

\* A record of db_objects: its object, the line it came from, its pointers.
Entry == [obj : Objects, id : 1..MaxLines, fields : SUBSET ({"object"} \cup Keys)]

VARIABLES
  lines,            \* the mapping file
  line,             \* lines read by fgets so far
  db_objects,       \* the sorted list
  db_object_count,  \* static counter of records added
  db_object_index,  \* the array, or NULL before it is built
  status,           \* "loading", "done", "failed" or "destroyed"
  fileOpen,         \* the FILE of db_objects_init is not yet closed
  allocated,        \* every pointer db_object_new allocated
  frees,            \* bag of the pointers freed
  found             \* the entry the last db_object_find returned, or NULL

vars == <<lines, line, db_objects, db_object_count, db_object_index, status,
          fileOpen, allocated, frees, found>>

TypeOK ==
  /\ lines \in Files
  /\ line \in 0..MaxLines
  /\ db_objects \in Seq(Entry) /\ Len(db_objects) <= MaxLines
  /\ db_object_count \in 0..MaxLines
  /\ db_object_index \in Seq(Entry) \cup {NULL}
  /\ status \in {"loading", "done", "failed", "destroyed"}
  /\ fileOpen \in BOOLEAN
  /\ allocated \subseteq (1..MaxLines) \X ({"object"} \cup Keys)
  /\ IsABag(frees)
  /\ found \in Entry \cup {NULL}

-----------------------------------------------------------------------------

\* db_object_new up to its return: the error it returns and the pointers
\* the record holds by then (object, table, field, function are read in
\* that order; the optional keys only once the mandatory ones are there).
Parsed(l) ==
  CASE l.kind = "no_object"  -> [err |-> "PARSE_ERROR", alloc |-> {}]
    [] l.kind = "bad_object" -> [err |-> "OTHER_ERROR", alloc |-> {}]
    [] "table" \notin l.fields ->
          [err |-> "PARSE_ERROR", alloc |-> {"object"}]
    [] {"field", "function"} \cap l.fields = {} ->
          [err |-> "PARSE_ERROR", alloc |-> {"object", "table"}]
    [] OTHER -> [err |-> "OK", alloc |-> {"object"} \cup l.fields]

\* The frees db_object_destroy performs on the record of line i holding the
\* pointers fs: each one once, except that the gmtoff_field test frees
\* ident_field (a no-op when it is NULL) and never gmtoff_field.
db_object_destroy(i, fs) ==
  LET once == {<<i, f>> : f \in fs \ {"gmtoff_field"}}
      again == IF "gmtoff_field" \in fs /\ "ident_field" \in fs
                 THEN {<<i, "ident_field">>} ELSE {}
  IN SetToBag(once) (+) SetToBag(again)

\* Mutant: adds o after the first larger entry instead of before it.
RECURSIVE InsertAfter_past(_, _, _)
InsertAfter_past(list, o, i) ==
  IF i > Len(list) THEN Len(list)
  ELSE IF list[i].obj = o THEN -1
  ELSE IF list[i].obj > o THEN i
  ELSE InsertAfter_past(list, o, i + 1)

\* Mutant: the `ret == 0` duplicate test is missing.
RECURSIVE InsertAfter_nodup(_, _, _)
InsertAfter_nodup(list, o, i) ==
  IF i > Len(list) THEN Len(list)
  ELSE IF list[i].obj > o THEN i - 1
  ELSE InsertAfter_nodup(list, o, i + 1)

\* The insertion walk of db_object_new from position i: the position after
\* which o goes (0 = at the head), or -1 if o is already listed.
RECURSIVE InsertAfter(_, _, _)
InsertAfter(list, o, i) ==
  IF i > Len(list) THEN Len(list)
  ELSE IF list[i].obj = o THEN -1
  ELSE IF list[i].obj > o THEN i - 1
  ELSE InsertAfter(list, o, i + 1)

\* db_object_find: binary search over db_object_index[low..high] (0-based).
RECURSIVE BinarySearch(_, _, _, _)
BinarySearch(index, o, low, high) ==
  IF low > high THEN NULL
  ELSE LET mid == (low + high) \div 2
           cmp == o - index[mid + 1].obj
       IN IF cmp > 0 THEN BinarySearch(index, o, mid + 1, high)
          ELSE IF cmp < 0 THEN BinarySearch(index, o, low, mid - 1)
          ELSE index[mid + 1]

\* Mutant: high starts one short, at db_object_count - 2.
db_object_find_short(o) == BinarySearch(db_object_index, o, 0, db_object_count - 2)

db_object_find(o) == BinarySearch(db_object_index, o, 0, db_object_count - 1)

-----------------------------------------------------------------------------

Init ==
  /\ lines \in Files
  /\ line = 0
  /\ db_objects = <<>>
  /\ db_object_count = 0
  /\ db_object_index = NULL
  /\ status = "loading"
  /\ fileOpen = TRUE
  /\ allocated = {}
  /\ frees = EmptyBag
  /\ found = NULL

\* One iteration of the fgets loop of db_objects_init, with db_object_new.
\* Every error returns -1 after fclose, leaving db_objects as it is.
db_objects_init_line ==
  /\ status = "loading"
  /\ line < Len(lines)
  /\ line' = line + 1
  /\ LET i == line + 1
         l == lines[i]
         p == Parsed(l)
         k == InsertAfter(db_objects, l.obj, 1)
     IN IF l.kind = "skip" THEN UNCHANGED <<db_objects, db_object_count, status,
                                       fileOpen, allocated, frees>>
        ELSE /\ allocated' = allocated \cup {<<i, f>> : f \in p.alloc}
             /\ IF p.err = "OK" /\ k # -1
                  THEN /\ db_objects' = InsertAt(db_objects, k + 1,
                                          [obj |-> l.obj, id |-> i, fields |-> p.alloc])
                       /\ db_object_count' = db_object_count + 1
                       /\ UNCHANGED <<status, fileOpen, frees>>
                  ELSE /\ frees' = frees (+) db_object_destroy(i, p.alloc)
                       /\ status' = "failed"
                       /\ fileOpen' = FALSE
                       /\ UNCHANGED <<db_objects, db_object_count>>
  /\ UNCHANGED <<lines, db_object_index, found>>

\* Mutant: the final, failing fgets is counted as a line too.
db_objects_init_end_count ==
  /\ status = "loading"
  /\ line = Len(lines)
  /\ line' = line + 1
  /\ \E readError \in BOOLEAN :
       IF readError
         THEN /\ status' = "failed"
              /\ UNCHANGED <<fileOpen, db_object_index>>
         ELSE /\ fileOpen' = FALSE
              /\ db_object_index' = [j \in 1..db_object_count |-> db_objects[j]]
              /\ status' = "done"
  /\ UNCHANGED <<lines, db_objects, db_object_count, allocated, frees, found>>

\* After the loop: ferror returns -1 without fclose; otherwise the file is
\* closed and the list copied into a db_object_count-long array.
db_objects_init_end ==
  /\ status = "loading"
  /\ line = Len(lines)
  /\ \E readError \in BOOLEAN :
       IF readError
         THEN /\ status' = "failed"
              /\ UNCHANGED <<fileOpen, db_object_index>>
         ELSE /\ fileOpen' = FALSE
              /\ db_object_index' = [j \in 1..db_object_count |-> db_objects[j]]
              /\ status' = "done"
  /\ UNCHANGED <<lines, line, db_objects, db_object_count, allocated, frees, found>>

db_object_find_call(o) ==
  /\ status = "done"
  /\ found' = db_object_find(o)
  /\ UNCHANGED <<lines, line, db_objects, db_object_count, db_object_index, status,
                 fileOpen, allocated, frees>>

\* Destroys every listed record and frees the array; db_object_count is
\* left as it is.
db_objects_destroy ==
  /\ status \in {"done", "failed"}
  /\ frees' = FoldSeq(LAMBDA e, b : b (+) db_object_destroy(e.id, e.fields),
                      frees, db_objects)
  /\ db_objects' = <<>>
  /\ db_object_index' = NULL
  /\ status' = "destroyed"
  /\ UNCHANGED <<lines, line, db_object_count, fileOpen, allocated, found>>

Next ==
  \/ db_objects_init_line
  \/ db_objects_init_end
  \/ \E o \in Objects : db_object_find_call(o)
  \/ db_objects_destroy

Spec == Init /\ [][Next]_vars

-----------------------------------------------------------------------------
(* Properties.                                                             *)

\* The list db_object_new maintains is strictly increasing in the path
\* order, after any sequence of insertions at the head, middle and tail.
SortedUnique == IsSorted(db_objects, LAMBDA a, b : a.obj < b.obj)

\* The record of db_objects that maps object o, or NULL.
Mapped(o) ==
  IF \E j \in 1..Len(db_objects) : db_objects[j].obj = o
    THEN db_objects[CHOOSE j \in 1..Len(db_objects) : db_objects[j].obj = o]
    ELSE NULL

\* Once loaded, db_object_find over the array answers, for every object,
\* present or absent, first or last, exactly what the list holds (spec 8:
\* binary search over 0-, 1- and N-element indexes).
LookupCorrect ==
  status = "done" =>
    /\ db_object_count = Len(db_objects)
    /\ \A o \in Objects : db_object_find(o) = Mapped(o)

\* The sorted list, the array and the binary search implement the plain
\* mapping of MappingIndex: same records accepted, same duplicates and
\* errors rejected, same lookup answers.
Abs == INSTANCE MappingIndex WITH
         Skipped  <- LAMBDA l : l.kind = "skip",
         Valid    <- LAMBDA l : Parsed(l).err = "OK",
         ObjectOf <- LAMBDA l : l.obj,
         status   <- IF status = "destroyed" THEN "unloaded" ELSE status,
         loaded   <- {db_objects[j].obj : j \in 1..Len(db_objects)},
         found    <- IF found = NULL THEN NULL ELSE found.obj

MappingIndexSpec == Abs!ASpec

\* db_object_destroy frees each pointer of a record once, and after
\* db_objects_destroy every pointer db_object_new allocated has been freed.
FreedExactlyOnce ==
  /\ \A q \in BagToSet(frees) : CopiesIn(q, frees) = 1
  /\ status = "destroyed" => allocated \subseteq BagToSet(frees)

\* Spec 4.1: an error (parse, duplicate or I/O) aborts the load and
\* releases what it acquired: the mapping file and every partially built
\* entry; no partial index is left.
FailedLoadReleases ==
  status = "failed" => ~fileOpen /\ db_objects = <<>> /\ db_object_count = 0

=============================================================================
