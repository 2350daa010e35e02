----------------------------- MODULE MCPreludeDB -----------------------------
(* Instantiates PreludeDB for TLC: two handles, two result objects, two     *)
(* installed format plugins and one name that matches none.               *)
EXTENDS PreludeDB, TLC

CONSTANTS d1, d2, r1, r2, classic, other, bogus

MCDbs     == {d1, d2}
MCResults == {r1, r2}
MCFormats == {classic, other}
MCNames   == {classic, other, bogus}

\* Handles are interchangeable, and so are result objects.
Symmetry == Permutations(MCDbs) \cup Permutations(MCResults)

=============================================================================
