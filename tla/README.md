# TLA+ models of libpreludedb

This directory holds TLA+ models of libpreludedb, the database access library of
the Prelude IDS. The models are checked with TLC. Each module is translated from
the C sources under `src/`, and `PROJECT.json` maps every definition to the
lines it models.

## The system

| Part | Source | What it does |
|---|---|---|
| Library lifecycle | `src/src/preludedb.c` 81-138 | `preludedb_init` counts its callers (`libpreludedb_refcount`). On the first call it loads the format plugins and the SQL plugins from their directories. `preludedb_deinit` unloads them on the last call. |
| Database handle | `src/src/preludedb.c` 142-310, 366-906 | A `preludedb_t` is reference-counted. It holds a reference on the caller's `preludedb_sql_t` session and a pointer `db->plugin` to its format plugin. The format is named by the caller or autodetected from the `_format` table. Every insert, get, delete and update is forwarded to `db->plugin`. Transactions toggle the session's internal-transaction flag. |
| Result sets | `src/src/preludedb.c` 373-506, 510-579, 725-780 | Idents and values results are reference-counted. Each holds a reference on its handle, and a values result also holds the caller's path selection. The backend resource is allocated by the format plugin. It is iterated and destroyed through `result->db->plugin`. |
| Schema mapping index | `src/plugins/format/classic/db-object.c` | The classic format reads a mapping file of `object=... table=... field=...` lines. It inserts each record into a list kept sorted by object path, rejecting duplicates and parse errors. It then copies the list into an array, which `db_object_find` binary-searches. |
| PostgreSQL backend | `src/plugins/sql/pgsql/pgsql.c` | The connection, the queries and error reporting (`handle_error`), escaping, and the SQL fragment builders (LIMIT/OFFSET, time constraints, intervals, operators). |
| Legacy init | `src/src/db.c` | `prelude_db_init` uses the same counter pattern. No build file compiles it, and its loaders are not in `src/`. |

How the parts interact:

1. A caller initialises the library.
2. It opens a SQL session and creates handles on it.
3. It obtains results from a handle and destroys them in any order.

The lifetimes are bound together by references: the selection is held by values results, which hold their handle, which holds the session. The format plugin is shared by the handle and every result made from it.

## Modules

### `PreludeDB.tla` (with `MCPreludeDB.tla`): handle and result lifecycle

**State** (the struct fields of `preludedb.c`):

- `libpreludedb_refcount`;
- the plugin lists;
- `db[d]` = the refcount and `plugin` of `struct preludedb`;
- `res[r]` = the refcount, `db`, kind, allocating plugin, remaining rows and release count of the result structs;
- the refcount of the session and of the selection;
- the session's transaction flags.

Next to each library refcount, the model keeps the references the caller really holds (`callerDb`, `callerRes`, `callerSql`, `callerSel`, `callerInits`).

**Actions.** There is one action per API function, and each models the whole function, its failure paths included:

- `preludedb_new` takes the session reference, then fails or binds a format.
- `preludedb_result_destroy` drops the handle, the session and the selection when the last reference goes.
- `preludedb_set_format` overwrites `db->plugin`, possibly with NULL.

A call through a NULL plugin, or through a plugin that did not allocate the result, is undefined behaviour. The model records it in `fault`, and `Next` stops there.

### `DbObjectIndex.tla` (with `MCDbObjectIndex.tla`): the classic schema mapping index

A mapping file is a sequence of up to `MaxLines` abstract lines:

- a comment or blank line;
- a line with no `object=` key;
- an object path that is rejected;
- a record with an object (an integer, so the order of `idmef_object_compare` is integer order) and the set of keys it carries.

The variables are the globals of `db-object.c` plus the file's open flag, the allocated pointers and a bag of frees.

**Actions:**

- `db_objects_init_line`: one `fgets` iteration with `db_object_new`. It covers the sorted insertion (`InsertAfter`, RECURSIVE), the duplicate, parse and other errors, and cleanup through `db_object_destroy`.
- `db_objects_init_end`: the read-error path, or the copy into the array.
- `db_object_find_call`: `BinarySearch`, RECURSIVE, with the code's 0-based index arithmetic.
- `db_objects_destroy`.

The specification has no fairness: every step is a call the caller may never make.

### `MappingIndex.tla`: the abstract mapping index

This is what spec 4.1 promises, with no data structure. Lines are read, a valid new object is added, and a duplicate or invalid line fails the load. Lookups answer exactly the loaded set.

`DbObjectIndex` instantiates it with a refinement mapping: `loaded` is the set of objects in the list, and `found` is the object of the found entry. The run `mapping_index` checks `MappingIndexSpec` as a PROPERTY.

### `ResultLifecycle.tla`: the abstract result lifecycle

This is spec 4.5 with no plugin, handle or selection. Each result slot is `Unused`, `Open`, `Exhausted` or `Released`, with a holder count.

- `Create` opens a result with one holder.
- `Ref` adds a holder.
- `Deref` drops one, and only the drop of the last holder releases.
- `GetNext` keeps a result `Open` or moves it to `Exhausted`.

A slot stands for the successive results the caller keeps in one variable, so `Create` may follow `Released`.

`PreludeDB` instantiates it as `LC`:

- a live record with rows left maps to `Open`;
- a live record with no rows left maps to `Exhausted`;
- a freed record maps to `Released`;
- the holder count is the record's refcount.

The run `preludedb_lifecycle` checks `ResultLifecycleSpec == LC!Spec` as a PROPERTY.

### `ParameterValue.tla` (with `MCParameterValue.tla`): the mapping-line tokenizer

`db_object_new` reads each field of a mapping line with `parameter_value(line, name)`. The model takes a line as a sequence of characters. C index `i` is element `i + 1`, index `Len(line)` is the NUL, and index -1 is the byte before the buffer (`before`), which `find_separator` reads when a line starts with a quote. That read is undefined behaviour, so `before` is chosen nondeterministically.

- `Strnchr`, `CloseQuote` (the do-while after a quote), `FindSeparator`, `Unescape` and `Unquote` are the helpers, RECURSIVE where the C loops.
- `ParameterValueFrom` is the do-while of `parameter_value`, with `name_len = len - data_len - 1` and a prefix comparison (`NameMatches`) as `strncasecmp` does it.
- A pointer that leaves the line (`NULL + 1` after an unclosed quote) gives the model value `FAULT`.
- `Lookup` is one call, on the buffer `db_objects_init` passes on for a line that is not empty and not only blanks (`Lines`). `LineBuffer` is that buffer: `buf[strlen(buf)-1] = '\0'` cuts the newline, or, on the last line of a file without one (`nl = FALSE`), the line's last character.
- On an empty buffer `name_len` is -1, and `strncpy` with `(size_t) -1` overruns the 128-byte `buf`; that is `FAULT` too.

Spec 4.1's tokenizer is written separately (`Tokens`, `WellFormed`, `SpecDecode`, `SpecValue`). It tracks the quote state, treats a backslash as escaping the next character, and strips only enclosing quotes that are not escaped.

### `PgsqlBackend.tla` (with `MCPgsqlBackend.tla`): the PostgreSQL plugin

The plugin's functions keep no state between calls. So the model has two variables:

- `call`: the function called and its inputs;
- `out`: the return value, the error code, the reported message, what happened to the `PGresult`, and the SQL fragment produced as a sequence of tokens.

A behaviour is one call.

**Modelled functions:**

- `sql_query` and `sql_get_last_insert_ident`: over every PQexec outcome and status, and every error message of up to three characters.
- `handle_error`: its trimming loop is `TrimLoop`, a RECURSIVE operator over a `size_t` index taken modulo `2^SizeBits`.
- `sql_build_limit_offset_string`.
- `sql_build_constraint_string`, with the operator table.
- `sql_build_time_constraint_string`, with the time extract, C's truncating `/` and `%`, and the weekday remap.
- `sql_build_time_interval_string`: `strtol`'s end pointer is modelled by what `strtol` parses.
- `sql_open`: the login, then the two `SET` queries. Each takes any outcome `sql_query` can give a `SET` (`SetOutcomes`). The outcome records whether the `PGconn` is finished or left open, whether `*session` was set, and which settings took effect.
- `sql_escape`: the `size_t` size `rsize`, the `malloc` outcome, and `PQescapeStringConn` under `standard_conforming_strings=on`, which `sql_open` sets: quotes are doubled and backslashes are plain. An encoding error goes through `handle_error` and leaves the buffer leaked.
- `sql_escape_binary`: `prelude_string_new`, `PQescapeByteaConn`, the `'%s'` sprintf (after which libpq's buffer is freed whatever it returned) and the release, whose result the code ignores: a failed release still returns 0, with `*output` NULL. `EscapeBinary` gives the outcome and which of the string and the escape buffer are still allocated. The bytea text libpq produces (`Bytea`) and decodes (`Unbytea`, for `sql_unescape_binary`) is kept opaque.
- The getters: `sql_get_column_name` (NULL past the last column), `sql_get_column_count`, `sql_get_row_count` (`sql_table_getters`) and `sql_get_server_version` (0 on a bad connection) return libpq's answer.
- `sql_close` and `sql_table_destroy`.
- The table accessors `sql_fetch_row`, `sql_fetch_field` and `sql_get_column_num`, over every result of up to two rows and two columns whose cells are NULL, empty or a value. A field is read only from a row that `sql_fetch_row` made from the same table.

**Inputs.** Each input is one libpq can really produce:

- libpq clears the message before a query, so a successful status or `EMPTY_QUERY` comes with an empty message;
- error messages start with their severity;
- `lastval()` answers one row or an error.

## Runs

| Run | Config | Expect | Checks |
|---|---|---|---|
| preludedb_lifecycle | MCPreludeDB.cfg | pass | `RefcountAccounted`: every refcount equals the references held. `NoUseAfterFree`: nothing reachable is freed, whatever order handles, results, sessions and selections are destroyed in. `ResourceReleasedOnce`: each backend resource is released exactly once. `ResultLifecycleSpec`: the result functions refine spec 4.5's lifecycle. |
| mapping_index | MCDbObjectIndex.cfg | pass | `SortedUnique`: the list is strictly ordered. `LookupCorrect`: the binary search finds exactly what the list holds. `MappingIndexSpec`: the refinement holds. |
| set_format_unbinds | MCPreludeDB_HandleBoundToFormat.cfg | violation | `set_format` with an unknown name leaves `db->plugin` NULL (preludedb.c:304). |
| result_foreign_plugin | MCPreludeDB_ResultDispatchedToOwner.cfg | violation | After `set_format`, live results are destroyed through a plugin that did not allocate them (preludedb.c:391). |
| init_retry_empty | MCPreludeDB_InitSuccessLoadsPlugins.cfg | violation | An init retried after a failed one reports success with nothing loaded (preludedb.c:85). |
| destroy_double_free | MCDbObjectIndex_FreedExactlyOnce.cfg | violation | `db_object_destroy` frees `ident_field` twice and never frees `gmtoff_field` (db-object.c:393). |
| failed_load_keeps_resources | MCDbObjectIndex_FailedLoadReleases.cfg | violation | `FailedLoadReleases`: spec 4.1 says a failed load releases what it acquired. TLC's trace is an empty file whose read fails: `ferror` returns without `fclose` (db-object.c:464). Among failures that close the file, a record followed by a bad line leaves the record and the count in place (db-object.c:453). |
| parameter_value | MCParameterValue.cfg | pass | `PlainValueSpec`: on every well-formed line that ends in a newline and has no backslash, `parameter_value` returns spec 4.1's value. This covers blanks inside quotes, case-insensitive names, the first match winning, and quotes stripped. |
| tokenizer_crash | MCParameterValue_ParameterValueSpec.cfg | violation | `ParameterValueSpec`: the line `'` makes `find_separator` dereference `NULL + 1` (db-object.c:106). With unclosed quotes left out, the same property fails on the well-formed `a='\\'`: the closing quote follows an escaped backslash, so it counts as escaped (db-object.c:105). With crashing lines also left out, it fails on `a=\'`: unescaping first turns the escaped quote into an enclosing one, and the value comes back empty (db-object.c:247). Over lines without quotes or backslashes, it fails on a last line without its newline: `=` is cut to the empty string and `strncpy` overruns `buf` (db-object.c:437, 232), and `a=bc` reads `b`. |
| pgsql_calls | MCPgsqlBackend.cfg | pass | `QueryOutcomeSpec`: `sql_query` answers Table, NoRows or a QueryError/ConnectionError carrying the trimmed backend message, as spec 5 says, for every libpq outcome. `LimitOffsetSpec`: the LIMIT/OFFSET fragment matches the spec's table. `OpenSpec`: `sql_open` succeeds only after both `SET`s took effect, and an unreachable server is a ConnectionError with no connection left. `EscapeSpec`: the escaped literal reads back, as PostgreSQL reads it, as the input, and fits in `rsize`. `TableAccessSpec`: rows are given for exactly the indexes inside the result, a column past the last is rejected, and NULL is told from the empty string. `EscapeBinarySpec`: `sql_escape_binary` leaves neither its string nor libpq's buffer allocated on any path, fails exactly when a step before the release failed, and returns the quoted escape of its input. |
| interval_always_multiplied | MCPgsqlBackend_IntervalFormSpec.cfg | violation | A non-integer interval literal still gets the multiplicative form, because `strtol`'s end pointer is never NULL (pgsql.c:542; spec 9 flags this as an open question). |
| empty_message_oob | MCPgsqlBackend_NoOutOfBoundsRead.cfg | violation | `PGRES_EMPTY_QUERY` leaves an empty message. `strlen - 1` then wraps, and `handle_error` reads outside its copy (pgsql.c:72). |

Every property of a passing run has a mutant in `PROJECT.json`: a plausible bug in the mapped code that TLC catches with that property.

## Bounds

**PreludeDB:** two handles, two result slots, two installed formats plus one unknown name, `MaxRef = 2` and `MaxRows = 2`.

- Two handles are needed for two handles to share a session and for a result to outlive its handle.
- Two results are needed for two results on one handle, and for a values and an idents result together.
- A refcount of 2 lets both a caller reference and an internal reference exist at once.
- Result slots are reused after a result is freed.
- Symmetry over handles and results is sound: no property or action tells two of them apart.
- The run has about 1.3 million distinct states. With the refinement property it takes about 2.5 minutes on two workers.

**DbObjectIndex:** up to four lines over three objects (three in the violation runs, which need fewer), with five key sets:

- two complete records, one with both `ident_field` and `gmtoff_field`;
- two incomplete ones;
- one where the table is missing.

Three lines give insertion at the head, the middle and the tail, and a search over 0 to 3 entries; the fourth gives a duplicate of an entry inserted in the middle and a failure after three insertions (438,029 states, 30 s).

**ParameterValue:** every line of up to seven characters over `a`, `B`, `=`, blank, `'` and `\`, with or without the newline, with the field names `a` and `b` (1,567,607 calls, about 1 minute).

- Seven characters allow two tokens with values (`a=a B=a`), a quoted blank (`a=' '`), and an escaped backslash inside quotes (`a='\\'`).
- `B` exercises case folding.
- No name is a prefix of another, as with `db_object_new`'s names.
- The double quote is handled by the same code as the single quote, so it is left out.

**PgsqlBackend:** messages, literals and escaped strings are up to three characters, and results are up to 2x2 (`MaxDim`).

- Messages use a letter, a blank and a newline. That gives trailing blanks of both kinds, a message that is only blanks, and an empty one.
- Literals use a digit, a sign, a letter and a blank. That gives full integers, signed ones, leading blanks, partial numbers and non-numbers.
- ints are -1, 0, 1, 6 and 7, for the absent bound, the zero bound and the weekday edges.
- gmt offsets are 0, 3600 and -5400, the last for a truncated half hour.
- Escaped strings use a letter, a quote and a backslash. Three quotes give the longest escaped literal.
- `size_t` is 30 bits wide. Any width greater than the message length gives the same wrap.

## Fairness and liveness

The library is passive: every step is a call from its caller, and the caller may stop at any point, so the configs set `CHECK_DEADLOCK FALSE` and no caller action is fair. The one loop that spans several steps of a model is `db_objects_init`'s `fgets` loop. Each pass advances `line` by one over a bounded file, so that the loop ends follows from the shape of the loop, not from anything the code could get wrong. A liveness property about it would show nothing, so no run states one. The other models take one call per step. Any "eventually" about them would depend on the caller, and the library promises nothing about its caller. So the project states no liveness property.

## Not modelled

- **The composition of the tokenizer with the index:** `DbObjectIndex` takes each line's parse outcome as an input, and `ParameterValue` checks the tokenizer on its own. Composing them would multiply two state spaces that are each checked in full.
- **The `bytea` format itself:** `sql_escape_binary` and `sql_unescape_binary` are modelled, but the text libpq produces and decodes is opaque. Its round trip goes through the server's output format, which lies outside this code. A failed release in `sql_escape_binary` returns success with no literal (pgsql.c:242). The model shows this, but no property states it, because what a caller does with a NULL literal is decided outside `src/`.
- **A reload of the index:** `db_objects_destroy` leaves `db_object_count` as it is, so a second `db_objects_init` would build an index longer than its list (db-object.c:589). Spec 4.1 says the index is loaded once, at initialisation, with no retry, so a reload is outside the contract the model checks; it is listed as a hazard.
- **The classic format's insert/get/delete, the SQL layer `preludedb-sql.c`, and the path selection parser:** their sources are not in `src/`. Only their contract with the handle is modelled: the session reference, the internal-transaction flag, and the selection reference.
- **The C++ error wrapper and the plugin loader itself.**
- **`db.c`** (`prelude_db_init`, `prelude_db_shutdown`): no build file compiles it, and its loaders are not in `src/`. Its counter repeats the pattern of `preludedb_init`, which `init_retry_empty` checks.
- **Two leaks on single error paths:** `preludedb_new` keeps the session reference when it fails (preludedb.c:231), and `sql_get_last_insert_ident` skips `PQclear` when `lastval()` fails (pgsql.c:126). Both are modelled (`sqlRef`, `out.pgresult = "leaked"`) and listed as hazards, but no run checks them: each lies on one path that a review of the function sees.

## Plan for later work

1. Compose `ParameterValue` into `DbObjectIndex`'s line step over a few concrete lines.

