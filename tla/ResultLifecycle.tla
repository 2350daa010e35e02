--------------------------- MODULE ResultLifecycle ---------------------------
(***************************************************************************)
(* What spec 4.5 promises of a result handle, with no plugin, handle or    *)
(* selection: a result is Open (rows may remain) until get_next reports    *)
(* it Exhausted, ref() adds a holder, and the deref that drops the last    *)
(* holder, and only that one, moves it to Released.  A slot r stands for   *)
(* the successive results the caller keeps in one variable, so a new       *)
(* result may follow a released one.                                       *)
(***************************************************************************)
EXTENDS Naturals

CONSTANTS Results, MaxRef

VARIABLES
  lc,     \* lc[r]: "Unused", "Open", "Exhausted" or "Released"
  refs    \* refs[r]: the holders of the result

lcVars == <<lc, refs>>

Init ==
  /\ lc = [r \in Results |-> "Unused"]
  /\ refs = [r \in Results |-> 0]

Alive(r) == lc[r] \in {"Open", "Exhausted"}

Create(r) ==
  /\ ~Alive(r)
  /\ lc' = [lc EXCEPT ![r] = "Open"]
  /\ refs' = [refs EXCEPT ![r] = 1]

Ref(r) ==
  /\ Alive(r) /\ refs[r] < MaxRef
  /\ refs' = [refs EXCEPT ![r] = @ + 1]
  /\ UNCHANGED lc

Deref(r) ==
  /\ Alive(r)
  /\ refs' = [refs EXCEPT ![r] = @ - 1]
  /\ lc' = [lc EXCEPT ![r] = IF refs[r] = 1 THEN "Released" ELSE @]

\* get_next returns a row, or reports exhaustion; an exhausted result stays so.
GetNext(r) ==
  /\ lc[r] = "Open"
  /\ lc' \in {[lc EXCEPT ![r] = "Open"], [lc EXCEPT ![r] = "Exhausted"]}
  /\ UNCHANGED refs

Next == \E r \in Results : Create(r) \/ Ref(r) \/ Deref(r) \/ GetNext(r)

Spec == Init /\ [][Next]_lcVars

=============================================================================
