--------------------------- MODULE MCDbObjectIndex ---------------------------
(* Instantiates DbObjectIndex: three ordered object paths, files of up to *)
(* MaxLines lines (the cfg's), and key sets covering a complete record,   *)
(* each parse error and the optional ident_field / gmtoff_field keys.     *)
EXTENDS DbObjectIndex

MCObjects == 1..3

MCFieldSets ==
  { {"table", "field"},
    {"table", "function", "ident_field", "gmtoff_field"},
    {"table", "field", "gmtoff_field"},
    {"table"},
    {"field"} }

=============================================================================
