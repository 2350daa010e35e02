------------------------------ MODULE PreludeDB ------------------------------
(***************************************************************************)
(* The DatabaseHandle and ResultLifecycle of libpreludedb, src/preludedb.c. *)
(*                                                                         *)
(* State: the library reference count and the two plugin lists filled by   *)
(* preludedb_init; the caller's preludedb_sql_t (a reference-counted       *)
(* session); preludedb_t handles (refcount, bound format plugin); idents   *)
(* and values result objects (refcount, owning handle, backend resource,   *)
(* row cursor); the caller's path selection; the session's transaction     *)
(* flags.  The caller's own references are kept apart from the internal    *)
(* ones (a result holds its handle, a handle holds its session, a values   *)
(* result holds its selection), so that the library's bookkeeping can be   *)
(* compared with who really holds what.                                    *)
(*                                                                         *)
(* Every call that dispatches through db->plugin dereferences it: if the   *)
(* pointer is NULL, or is not the plugin that allocated the result's       *)
(* resource, the behaviour is undefined; the model records it in `fault`   *)
(* and the program stops there.                                            *)
(***************************************************************************)
EXTENDS Integers, FiniteSets

CONSTANTS
  Dbs,        \* preludedb_t objects the caller may create
  Results,    \* result objects (idents or values) the caller may obtain
  Formats,    \* format plugins installed in FORMAT_PLUGIN_DIR
  Names,      \* format names a caller passes, or the _format table holds
  MaxRef,     \* bound on every reference count
  MaxRows,    \* bound on the number of rows of one result
  NULL        \* the NULL pointer

ASSUME Formats \subseteq Names
ASSUME MaxRef \in Nat \ {0} /\ MaxRows \in Nat \ {0}
ASSUME NULL \notin Names \cup Dbs \cup Results

VARIABLES
  libpreludedb_refcount, \* static counter of preludedb_init
  plugin_format_list,    \* format plugins loaded (searched by name)
  sql_plugin_list,       \* TRUE once the SQL plugins are loaded
  callerInits,           \* preludedb_init calls that returned 0, not yet deinit'ed
  sqlRef,                \* refcount of the caller's preludedb_sql_t
  callerSql,             \* 1 while the caller still holds its own sql reference
  db,                    \* db[d]: struct preludedb
  callerDb,              \* references to db[d] the caller holds
  res,                   \* res[r]: struct preludedb_result_idents / _values
  callerRes,             \* references to res[r] the caller holds
  selRef,                \* refcount of the caller's path selection
  callerSel,             \* 1 while the caller still holds its selection
  txOpen,                \* an explicit transaction is open on the session
  internalTx,            \* per-statement internal transactions are enabled
  fault                  \* NULL, or the undefined behaviour the program hit

vars == <<libpreludedb_refcount, plugin_format_list, sql_plugin_list, callerInits,
          sqlRef, callerSql, db, callerDb, res, callerRes, selRef, callerSel,
          txOpen, internalTx, fault>>

libVars == <<libpreludedb_refcount, plugin_format_list, sql_plugin_list, callerInits>>
txVars  == <<txOpen, internalTx>>

Faults == {"null_plugin", "foreign_plugin"}

InitOutcomes == {"ok", "prelude_init_failed", "format_dir_missing",
                 "format_load_failed", "sql_dir_missing", "sql_load_failed"}

DbRec  == [state : {"none", "live", "freed"}, refcount : 0..MaxRef,
           plugin : Formats \cup {NULL}]
ResRec == [state : {"none", "live", "freed"}, kind : {"idents", "values"},
           db : Dbs \cup {NULL}, refcount : 0..MaxRef,
           plugin : Formats \cup {NULL},   \* the plugin that allocated res
           rows : 0..MaxRows,              \* rows left to get_next
           released : 0..2]                \* times the backend resource was released

NoDb  == [state |-> "none", refcount |-> 0, plugin |-> NULL]
NoRes == [state |-> "none", kind |-> "idents", db |-> NULL, refcount |-> 0,
          plugin |-> NULL, rows |-> 0, released |-> 0]

TypeOK ==
  /\ libpreludedb_refcount \in 0..MaxRef
  /\ plugin_format_list \subseteq Formats
  /\ sql_plugin_list \in BOOLEAN
  /\ callerInits \in 0..MaxRef
  /\ sqlRef \in 0..MaxRef /\ callerSql \in 0..1
  /\ db \in [Dbs -> DbRec] /\ callerDb \in [Dbs -> 0..MaxRef]
  /\ res \in [Results -> ResRec] /\ callerRes \in [Results -> 0..MaxRef]
  /\ selRef \in 0..MaxRef /\ callerSel \in 0..1
  /\ txOpen \in BOOLEAN /\ internalTx \in BOOLEAN
  /\ fault \in Faults \cup {NULL}

Init ==
  /\ libpreludedb_refcount = 0
  /\ plugin_format_list = {}
  /\ sql_plugin_list = FALSE
  /\ callerInits = 0
  /\ sqlRef = 1 /\ callerSql = 1          \* preludedb_sql_new by the caller
  /\ db = [d \in Dbs |-> NoDb] /\ callerDb = [d \in Dbs |-> 0]
  /\ res = [r \in Results |-> NoRes] /\ callerRes = [r \in Results |-> 0]
  /\ selRef = 1 /\ callerSel = 1          \* preludedb_path_selection_new
  /\ txOpen = FALSE /\ internalTx = TRUE
  /\ fault = NULL

-----------------------------------------------------------------------------
(* Library initialisation.                                                 *)

\* The first call loads the format plugins, then the SQL plugins; each step
\* may fail and return early, with the counter already incremented.
preludedb_init ==
  /\ libpreludedb_refcount < MaxRef
  /\ libpreludedb_refcount' = libpreludedb_refcount + 1
  /\ IF libpreludedb_refcount > 0
       THEN /\ callerInits' = callerInits + 1
            /\ UNCHANGED <<plugin_format_list, sql_plugin_list>>
       ELSE \E o \in InitOutcomes :
              /\ plugin_format_list' =
                   IF o \in {"ok", "sql_dir_missing", "sql_load_failed"}
                     THEN Formats ELSE plugin_format_list
              /\ sql_plugin_list' = (sql_plugin_list \/ o = "ok")
              /\ callerInits' = IF o = "ok" THEN callerInits + 1 ELSE callerInits
  /\ UNCHANGED <<sqlRef, callerSql, db, callerDb, res, callerRes, selRef, callerSel, txVars, fault>>

\* Unloads both plugin lists when the counter drops to zero.  The caller
\* deinit's only an init that succeeded, and not while it still uses a handle.
preludedb_deinit ==
  /\ callerInits > 0
  /\ callerInits > 1 \/ \A d \in Dbs : callerDb[d] = 0
  /\ callerInits' = callerInits - 1
  /\ libpreludedb_refcount' = libpreludedb_refcount - 1
  /\ IF libpreludedb_refcount - 1 > 0
       THEN UNCHANGED <<plugin_format_list, sql_plugin_list>>
       ELSE /\ plugin_format_list' = {}
            /\ sql_plugin_list' = FALSE
  /\ UNCHANGED <<sqlRef, callerSql, db, callerDb, res, callerRes, selRef, callerSel, txVars, fault>>

-----------------------------------------------------------------------------
(* Handles.                                                                *)

\* prelude_plugin_search_by_name: the plugin named n, or NULL.
preludedb_set_format_plugin(n) == IF n \in plugin_format_list THEN n ELSE NULL

\* The plugin preludedb_autodetect_format binds, NULL on failure: the
\* _format query may fail or return no row, the name read may match no
\* loaded plugin, or check_schema_version may reject the version.
preludedb_autodetect_format ==
  {NULL} \cup {preludedb_set_format_plugin(n) : n \in Names}

\* preludedb_new takes a reference on sql before binding a format; on
\* failure the handle is freed but that reference is never dropped.
preludedb_new(d, format_name) ==
  /\ db[d].state = "none"
  /\ callerSql > 0
  /\ sqlRef < MaxRef
  /\ sqlRef' = sqlRef + 1
  /\ \E p \in IF format_name = NULL THEN preludedb_autodetect_format
                                    ELSE {preludedb_set_format_plugin(format_name)} :
       IF p = NULL
         THEN UNCHANGED <<db, callerDb>>
         ELSE /\ db' = [db EXCEPT ![d] = [state |-> "live", refcount |-> 1, plugin |-> p]]
              /\ callerDb' = [callerDb EXCEPT ![d] = 1]
  /\ UNCHANGED <<libVars, callerSql, res, callerRes, selRef, callerSel, txVars, fault>>

preludedb_ref(d) ==
  /\ callerDb[d] > 0
  /\ db[d].refcount < MaxRef
  /\ db' = [db EXCEPT ![d].refcount = @ + 1]
  /\ callerDb' = [callerDb EXCEPT ![d] = @ + 1]
  /\ UNCHANGED <<libVars, sqlRef, callerSql, res, callerRes, selRef, callerSel, txVars, fault>>

\* Mutant: frees the handle one destroy too early (refcount test off by one).
DbAfterDestroy_early(d) ==
  IF db[d].refcount <= 2
    THEN [db EXCEPT ![d] = [@ EXCEPT !.refcount = @ - 1, !.state = "freed"]]
    ELSE [db EXCEPT ![d].refcount = @ - 1]

\* preludedb_destroy's effect on db and on the session's refcount.
DbAfterDestroy(d) ==
  IF db[d].refcount = 1
    THEN [db EXCEPT ![d] = [@ EXCEPT !.refcount = 0, !.state = "freed"]]
    ELSE [db EXCEPT ![d].refcount = @ - 1]
SqlAfterDestroy(d) == IF db[d].refcount = 1 THEN sqlRef - 1 ELSE sqlRef

preludedb_destroy(d) ==
  /\ callerDb[d] > 0
  /\ callerDb' = [callerDb EXCEPT ![d] = @ - 1]
  /\ db' = DbAfterDestroy(d)
  /\ sqlRef' = SqlAfterDestroy(d)
  /\ UNCHANGED <<libVars, callerSql, res, callerRes, selRef, callerSel, txVars, fault>>

\* The plugin pointer is overwritten before the lookup result is checked.
preludedb_set_format(d, format_name) ==
  /\ callerDb[d] > 0
  /\ db' = [db EXCEPT ![d].plugin = preludedb_set_format_plugin(format_name)]
  /\ UNCHANGED <<libVars, sqlRef, callerSql, callerDb, res, callerRes, selRef, callerSel, txVars, fault>>

-----------------------------------------------------------------------------
(* Results.  Idents and values results share one lifecycle; a values      *)
(* result also holds a reference on the path selection it was built from. *)

\* The plugin a call on result r goes through: result->db->plugin.
Dispatch(r) == db[res[r].db].plugin

\* The undefined behaviour of a call on r, or NULL if there is none.
DispatchFault(r) ==
  IF Dispatch(r) = NULL THEN "null_plugin"
  ELSE IF Dispatch(r) # res[r].plugin THEN "foreign_plugin"
  ELSE NULL

\* A freshly filled result object of kind k on handle d with n rows.
NewResult(k, d, n) ==
  [state |-> "live", kind |-> k, db |-> d, refcount |-> 1,
   plugin |-> db[d].plugin, rows |-> n, released |-> 0]

\* Mutant: `ret < 0` for `ret <= 0`, keeping a result with no row.
preludedb_get_message_idents_zero(d, r) ==
  /\ callerDb[d] > 0
  /\ res[r].state # "live"
  /\ db[d].refcount < MaxRef
  /\ IF db[d].plugin = NULL
       THEN /\ fault' = "null_plugin"
            /\ UNCHANGED <<db, res, callerRes>>
       ELSE \E ret \in -1..MaxRows :
              IF ret < 0
                THEN UNCHANGED <<db, res, callerRes, fault>>
                ELSE /\ res' = [res EXCEPT ![r] = NewResult("idents", d, ret)]
                     /\ callerRes' = [callerRes EXCEPT ![r] = 1]
                     /\ db' = [db EXCEPT ![d].refcount = @ + 1]
                     /\ UNCHANGED fault
  /\ UNCHANGED <<libVars, sqlRef, callerSql, callerDb, selRef, callerSel, txVars>>

\* preludedb_get_alert_idents / _heartbeat_idents: the plugin pointer is
\* read first; get_idents returns the row count, 0 for none, or an error,
\* and only a positive count keeps the result, with a reference on db.
preludedb_get_message_idents(d, r) ==
  /\ callerDb[d] > 0
  /\ res[r].state # "live"
  /\ db[d].refcount < MaxRef
  /\ IF db[d].plugin = NULL
       THEN /\ fault' = "null_plugin"
            /\ UNCHANGED <<db, res, callerRes>>
       ELSE \E ret \in -1..MaxRows :
              IF ret <= 0
                THEN UNCHANGED <<db, res, callerRes, fault>>
                ELSE /\ res' = [res EXCEPT ![r] = NewResult("idents", d, ret)]
                     /\ callerRes' = [callerRes EXCEPT ![r] = 1]
                     /\ db' = [db EXCEPT ![d].refcount = @ + 1]
                     /\ UNCHANGED fault
  /\ UNCHANGED <<libVars, sqlRef, callerSql, callerDb, selRef, callerSel, txVars>>

\* Mutant: the values result does not take its preludedb_path_selection_ref.
preludedb_get_values_noselref(d, r) ==
  /\ callerDb[d] > 0
  /\ callerSel > 0
  /\ res[r].state # "live"
  /\ db[d].refcount < MaxRef /\ selRef < MaxRef
  /\ IF db[d].plugin = NULL
       THEN /\ fault' = "null_plugin"
            /\ UNCHANGED <<db, res, callerRes, selRef>>
       ELSE \E ret \in -1..MaxRows :
              IF ret <= 0
                THEN UNCHANGED <<db, res, callerRes, selRef, fault>>
                ELSE /\ res' = [res EXCEPT ![r] = NewResult("values", d, ret)]
                     /\ callerRes' = [callerRes EXCEPT ![r] = 1]
                     /\ db' = [db EXCEPT ![d].refcount = @ + 1]
                     /\ UNCHANGED <<selRef, fault>>
  /\ UNCHANGED <<libVars, sqlRef, callerSql, callerDb, callerSel, txVars>>

\* preludedb_get_values: as above, and the result references the selection.
preludedb_get_values(d, r) ==
  /\ callerDb[d] > 0
  /\ callerSel > 0
  /\ res[r].state # "live"
  /\ db[d].refcount < MaxRef /\ selRef < MaxRef
  /\ IF db[d].plugin = NULL
       THEN /\ fault' = "null_plugin"
            /\ UNCHANGED <<db, res, callerRes, selRef>>
       ELSE \E ret \in -1..MaxRows :
              IF ret <= 0
                THEN UNCHANGED <<db, res, callerRes, selRef, fault>>
                ELSE /\ res' = [res EXCEPT ![r] = NewResult("values", d, ret)]
                     /\ callerRes' = [callerRes EXCEPT ![r] = 1]
                     /\ db' = [db EXCEPT ![d].refcount = @ + 1]
                     /\ selRef' = selRef + 1
                     /\ UNCHANGED fault
  /\ UNCHANGED <<libVars, sqlRef, callerSql, callerDb, callerSel, txVars>>

\* preludedb_result_idents_ref / preludedb_result_values_ref.
preludedb_result_ref(r) ==
  /\ callerRes[r] > 0
  /\ res[r].refcount < MaxRef
  /\ res' = [res EXCEPT ![r].refcount = @ + 1]
  /\ callerRes' = [callerRes EXCEPT ![r] = @ + 1]
  /\ UNCHANGED <<libVars, sqlRef, callerSql, db, callerDb, selRef, callerSel, txVars, fault>>

\* Mutant: the `--refcount != 0` test is lost; every destroy releases.
preludedb_result_destroy_always(r) ==
  /\ callerRes[r] > 0
  /\ IF DispatchFault(r) # NULL
       THEN /\ fault' = DispatchFault(r)
            /\ UNCHANGED <<db, sqlRef, res, callerRes, selRef>>
       ELSE /\ res' = [res EXCEPT ![r] = [@ EXCEPT !.refcount = @ - 1, !.state = "freed",
                                                    !.released = @ + 1]]
            /\ callerRes' = [callerRes EXCEPT ![r] = @ - 1]
            /\ selRef' = IF res[r].kind = "values" THEN selRef - 1 ELSE selRef
            /\ db' = DbAfterDestroy(res[r].db)
            /\ sqlRef' = SqlAfterDestroy(res[r].db)
            /\ UNCHANGED fault
  /\ UNCHANGED <<libVars, callerSql, callerDb, callerSel, txVars>>

\* Mutant: the selection is dropped for idents results too.
preludedb_result_destroy_selboth(r) ==
  /\ callerRes[r] > 0
  /\ IF res[r].refcount # 1
       THEN /\ res' = [res EXCEPT ![r].refcount = @ - 1]
            /\ callerRes' = [callerRes EXCEPT ![r] = @ - 1]
            /\ UNCHANGED <<db, sqlRef, selRef, fault>>
       ELSE IF DispatchFault(r) # NULL
       THEN /\ fault' = DispatchFault(r)
            /\ UNCHANGED <<db, sqlRef, res, callerRes, selRef>>
       ELSE /\ res' = [res EXCEPT ![r] = [@ EXCEPT !.refcount = 0, !.state = "freed",
                                                    !.released = @ + 1]]
            /\ callerRes' = [callerRes EXCEPT ![r] = @ - 1]
            /\ selRef' = selRef - 1
            /\ db' = DbAfterDestroy(res[r].db)
            /\ sqlRef' = SqlAfterDestroy(res[r].db)
            /\ UNCHANGED fault
  /\ UNCHANGED <<libVars, callerSql, callerDb, callerSel, txVars>>

\* preludedb_result_idents_destroy / preludedb_result_values_destroy: the
\* last reference releases the backend resource through db->plugin, drops
\* the selection (values) and the handle.
preludedb_result_destroy(r) ==
  /\ callerRes[r] > 0
  /\ IF res[r].refcount # 1
       THEN /\ res' = [res EXCEPT ![r].refcount = @ - 1]
            /\ callerRes' = [callerRes EXCEPT ![r] = @ - 1]
            /\ UNCHANGED <<db, sqlRef, selRef, fault>>
       ELSE IF DispatchFault(r) # NULL
       THEN /\ fault' = DispatchFault(r)
            /\ UNCHANGED <<db, sqlRef, res, callerRes, selRef>>
       ELSE /\ res' = [res EXCEPT ![r] = [@ EXCEPT !.refcount = 0, !.state = "freed",
                                                    !.released = @ + 1]]
            /\ callerRes' = [callerRes EXCEPT ![r] = @ - 1]
            /\ selRef' = IF res[r].kind = "values" THEN selRef - 1 ELSE selRef
            /\ db' = DbAfterDestroy(res[r].db)
            /\ sqlRef' = SqlAfterDestroy(res[r].db)
            /\ UNCHANGED fault
  /\ UNCHANGED <<libVars, callerSql, callerDb, callerSel, txVars>>

\* preludedb_result_idents_get_next / preludedb_result_values_get_next:
\* one row per call until the cursor is exhausted.
preludedb_result_get_next(r) ==
  /\ callerRes[r] > 0
  /\ IF DispatchFault(r) # NULL
       THEN /\ fault' = DispatchFault(r)
            /\ UNCHANGED res
       ELSE /\ res[r].rows > 0
            /\ res' = [res EXCEPT ![r].rows = @ - 1]
            /\ UNCHANGED fault
  /\ UNCHANGED <<libVars, sqlRef, callerSql, db, callerDb, callerRes, selRef, callerSel, txVars>>

\* The direct-access calls (idents get/get_count, values get_row/get_field/
\* get_count) leave the result as it is; they only go through db->plugin.
preludedb_result_get(r) ==
  /\ callerRes[r] > 0
  /\ DispatchFault(r) # NULL
  /\ fault' = DispatchFault(r)
  /\ UNCHANGED <<libVars, sqlRef, callerSql, db, callerDb, res, callerRes, selRef, callerSel, txVars>>

\* insert_message, get_alert/heartbeat, delete_*, update*: forwarded to the
\* format plugin; the library keeps no state of theirs, it only reads
\* db->plugin.
preludedb_dispatch(d) ==
  /\ callerDb[d] > 0
  /\ db[d].plugin = NULL
  /\ fault' = "null_plugin"
  /\ UNCHANGED <<libVars, sqlRef, callerSql, db, callerDb, res, callerRes, selRef, callerSel, txVars>>

\* delete_*_from_result_idents / update_from_result_idents: a result is
\* handed to the plugin of handle d, which need not be the result's own.
preludedb_dispatch_result_idents(d, r) ==
  /\ callerDb[d] > 0
  /\ callerRes[r] > 0
  /\ res[r].kind = "idents"
  /\ db[d].plugin # res[r].plugin
  /\ fault' = IF db[d].plugin = NULL THEN "null_plugin" ELSE "foreign_plugin"
  /\ UNCHANGED <<libVars, sqlRef, callerSql, db, callerDb, res, callerRes, selRef, callerSel, txVars>>

-----------------------------------------------------------------------------
(* Transactions, on the handle's session.                                  *)

preludedb_transaction_start(d) ==
  /\ callerDb[d] > 0
  /\ \E ok \in BOOLEAN :
       IF ok THEN txOpen' = TRUE /\ internalTx' = FALSE
             ELSE UNCHANGED txVars
  /\ UNCHANGED <<libVars, sqlRef, callerSql, db, callerDb, res, callerRes, selRef, callerSel, fault>>

\* COMMIT or ROLLBACK ends the transaction whether or not it reports an
\* error; internal transactions are re-enabled in both cases.
preludedb_transaction_end(d) ==
  /\ callerDb[d] > 0
  /\ txOpen' = FALSE
  /\ internalTx' = TRUE
  /\ UNCHANGED <<libVars, sqlRef, callerSql, db, callerDb, res, callerRes, selRef, callerSel, fault>>

-----------------------------------------------------------------------------
(* The caller's own objects, created and destroyed outside this file.      *)

preludedb_sql_destroy ==
  /\ callerSql > 0
  /\ callerSql' = 0
  /\ sqlRef' = sqlRef - 1
  /\ UNCHANGED <<libVars, db, callerDb, res, callerRes, selRef, callerSel, txVars, fault>>

preludedb_path_selection_destroy ==
  /\ callerSel > 0
  /\ callerSel' = 0
  /\ selRef' = selRef - 1
  /\ UNCHANGED <<libVars, sqlRef, callerSql, db, callerDb, res, callerRes, txVars, fault>>

-----------------------------------------------------------------------------

Next ==
  /\ fault = NULL
  /\ \/ preludedb_init
     \/ preludedb_deinit
     \/ \E d \in Dbs : \/ \E n \in Names \cup {NULL} : preludedb_new(d, n)
                       \/ preludedb_ref(d)
                       \/ preludedb_destroy(d)
                       \/ \E n \in Names : preludedb_set_format(d, n)
                       \/ preludedb_dispatch(d)
                       \/ preludedb_transaction_start(d)
                       \/ preludedb_transaction_end(d)
                       \/ \E r \in Results : \/ preludedb_get_message_idents(d, r)
                                             \/ preludedb_get_values(d, r)
                                             \/ preludedb_dispatch_result_idents(d, r)
     \/ \E r \in Results : \/ preludedb_result_ref(r)
                           \/ preludedb_result_destroy(r)
                           \/ preludedb_result_get_next(r)
                           \/ preludedb_result_get(r)
     \/ preludedb_sql_destroy
     \/ preludedb_path_selection_destroy

Spec == Init /\ [][Next]_vars

-----------------------------------------------------------------------------
(* Properties.                                                             *)

\* The live results that hold a reference on handle d.
ResultsOf(d) == {r \in Results : res[r].state = "live" /\ res[r].db = d}

\* The live values results, each holding a reference on the selection.
ValuesResults == {r \in Results : res[r].state = "live" /\ res[r].kind = "values"}

\* Every reference count of preludedb.c equals the references really held:
\* a handle's is the caller's plus one per live result made from it
\* (preludedb_get_message_idents / get_values take it, result destroy drops
\* it), a result's is the caller's, the selection's is the caller's plus one
\* per live values result.  A missed ref or an extra destroy on any path of
\* several callers breaks it.
RefcountAccounted ==
  /\ \A d \in Dbs : db[d].state = "live" =>
        db[d].refcount = callerDb[d] + Cardinality(ResultsOf(d))
  /\ \A r \in Results : res[r].state = "live" => res[r].refcount = callerRes[r]
  /\ selRef = callerSel + Cardinality(ValuesResults)

\* Nothing reachable is freed: a live result's handle is live and, for a
\* values result, so is its selection; a live handle's session is not
\* destroyed; a handle the caller still holds is live.  This is what
\* preludedb_result_*_destroy and preludedb_destroy must never break when the
\* caller drops its own references first.
NoUseAfterFree ==
  /\ \A r \in Results : res[r].state = "live" =>
        /\ db[res[r].db].state = "live"
        /\ res[r].kind = "values" => selRef > 0
  /\ \A d \in Dbs : db[d].state = "live" => sqlRef > 0
  /\ \A d \in Dbs : callerDb[d] > 0 => db[d].state = "live"

\* A result's backend resource is released exactly once, on the destroy
\* that drops the last reference, and not before.
ResourceReleasedOnce ==
  \A r \in Results : res[r].released = IF res[r].state = "freed" THEN 1 ELSE 0

\* Spec 3: exactly one format is bound to a live handle.  A failed
\* preludedb_set_format on a live handle leaves db->plugin NULL.
HandleBoundToFormat ==
  \A d \in Dbs : db[d].state = "live" => db[d].plugin # NULL

\* Every call on a live result (get_next, get, destroy) goes through the
\* format plugin that allocated its resource.  preludedb_set_format on the
\* result's handle changes result->db->plugin under it.
ResultDispatchedToOwner ==
  \A r \in Results : res[r].state = "live" => Dispatch(r) = res[r].plugin

\* A preludedb_init that returned 0 means the plugins are loaded, including
\* after an earlier preludedb_init that failed half-way.
InitSuccessLoadsPlugins ==
  callerInits > 0 => plugin_format_list = Formats /\ sql_plugin_list

\* The lifecycle state spec 4.5 names for the result record of slot r.
LifecycleOf(r) ==
  CASE res[r].state = "none"              -> "Unused"
    [] res[r].state = "freed"             -> "Released"
    [] res[r].state = "live" /\ res[r].rows > 0 -> "Open"
    [] OTHER                              -> "Exhausted"

LC == INSTANCE ResultLifecycle
        WITH lc <- [r \in Results |-> LifecycleOf(r)],
             refs <- [r \in Results |-> res[r].refcount]

\* The result functions implement spec 4.5's lifecycle: a result is created
\* Open with one holder, ref adds one, each destroy drops one and only the
\* one that reaches zero releases it, get_next moves Open to Exhausted and
\* never back, and a released result is never used again.
ResultLifecycleSpec == LC!Spec

=============================================================================
