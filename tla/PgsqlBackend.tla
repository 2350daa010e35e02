----------------------------- MODULE PgsqlBackend -----------------------------
(***************************************************************************)
(* The PostgreSQL SQL plugin, plugins/sql/pgsql/pgsql.c: the calls that    *)
(* turn a libpq result into a plugin outcome (sql_query,                   *)
(* sql_get_last_insert_ident, handle_error), the session calls (sql_open,  *)
(* sql_close, sql_escape), the table accessors, and the SQL fragment       *)
(* builders of the criteria compiler (limit/offset, constraint, time       *)
(* constraint, time interval).  None of them keeps state between calls, so *)
(* the model records the last call (`call`, its inputs, libpq's answers    *)
(* among them) and what it produced (`out`).                               *)
(*                                                                         *)
(* A message or literal is a short sequence of characters; a SQL fragment  *)
(* is the sequence of its tokens, what prelude_string_sprintf writes less  *)
(* the spacing.  A PGresult is tracked by what the call did with it.       *)
(***************************************************************************)
EXTENDS Integers, Sequences, SequencesExt

CONSTANTS
  MsgChars,    \* characters of backend error messages
  LitChars,    \* characters of interval literals
  EscChars,    \* characters of strings given to sql_escape
  MaxLen,      \* longest message or literal
  Ints,        \* small range of C ints for limits, offsets and values
  GmtOffsets,  \* gmt offsets in seconds
  SizeBits,    \* width of size_t
  MaxDim,      \* most rows and columns of a result
  NULL

Blank == {"\n", " "}
Digits == {"0", "1", "2", "3", "4", "5", "6", "7", "8", "9"}
SizeMod == 2 ^ SizeBits

ASSUME Blank \subseteq MsgChars /\ Ints \subseteq Int /\ 2 ^ SizeBits > MaxLen + 1

\* libpq error messages start with the severity ("ERROR:  ...\n").
ErrMessages == {s \in BoundedSeq(MsgChars, MaxLen) : s # <<>> /\ s[1] \notin Blank}
Literals == BoundedSeq(LitChars, MaxLen) \ {<<>>}

PgStatus == {"TUPLES_OK", "COMMAND_OK", "EMPTY_QUERY", "FATAL_ERROR", "BAD_RESPONSE"}

\* get_operator_string: the translation table of criterion operators.
OperatorTable ==
  [EQUAL |-> "=", NOT_EQUAL |-> "!=", GREATER |-> ">", GREATER_OR_EQUAL |-> ">=",
   LESSER |-> "<", LESSER_OR_EQUAL |-> "<=", SUBSTR |-> "LIKE",
   SUBSTR_NOCASE |-> "ILIKE", NOT_SUBSTR |-> "NOT LIKE",
   NOT_SUBSTR_NOCASE |-> "NOT ILIKE", REGEX |-> "~", REGEX_NOCASE |-> "~*",
   NOT_REGEX |-> "!~", NOT_REGEX_NOCASE |-> "!~*", NOT_NULL |-> "IS NOT NULL"]
  @@ ("NULL" :> "IS NULL")
Operators == DOMAIN OperatorTable \cup {"EQUAL_NOCASE", "NOT_EQUAL_NOCASE"}

\* sql_build_time_extract_string: the EXTRACT field of each constraint type.
ExtractField ==
  [YEAR |-> "YEAR", QUARTER |-> "QUARTER", MONTH |-> "MONTH", YDAY |-> "DOY",
   MDAY |-> "DAY", WDAY |-> "DOW", HOUR |-> "HOUR", MIN |-> "MINUTE",
   SEC |-> "SECOND", MSEC |-> "MILLISECOND", USEC |-> "MICROSECOND"]

\* sql_build_time_interval_string: the unit name of each interval.
IntervalUnit ==
  [YEAR |-> "YEAR", QUARTER |-> "QUARTER", MONTH |-> "MONTH", DAY |-> "DAY",
   HOUR |-> "HOUR", MIN |-> "MINUTE", SEC |-> "SECOND"]

VARIABLES
  call,   \* the function called last and its inputs
  out     \* what it returned: ret, error code, message, PGresult fate, SQL

vars == <<call, out>>

Fns == {"sql_query", "sql_get_last_insert_ident", "sql_build_limit_offset_string",
        "sql_build_constraint_string", "sql_build_time_constraint_string",
        "sql_build_time_interval_string", "sql_open", "sql_close", "sql_escape",
        "sql_table_destroy", "sql_fetch_row", "sql_fetch_field", "sql_get_column_num",
        "sql_escape_binary", "sql_unescape_binary", "sql_get_server_version",
        "sql_get_column_name", "sql_get_column_count", "sql_get_row_count"}
Rets == {"TABLE", "NO_ROWS", "OK", "ERROR", "FAULT"}
Codes == {"QUERY", "CONNECTION", "INVALID_VALUE", "GENERIC", "NOMEM", "INVALID_COLUMN_NUM"}
Fates == {"none", "cleared", "table", "leaked"}

TypeOK ==
  /\ call = NULL \/ call.fn \in Fns
  /\ out = NULL \/
       /\ {"ret", "code", "text", "pgresult", "sql"} \subseteq DOMAIN out
       /\ out.ret \in Rets
       /\ out.code \in Codes \cup {NULL}
       /\ out.text \in Seq(MsgChars) \cup {NULL}
       /\ out.pgresult \in Fates
       /\ out.sql = NULL \/ DOMAIN out.sql = 1..Len(out.sql)

Outcome(ret, code, text, fate, sql) ==
  [ret |-> ret, code |-> code, text |-> text, pgresult |-> fate, sql |-> sql]

-----------------------------------------------------------------------------
(* handle_error.                                                           *)

\* Mutant: the loop strips trailing newlines only.
RECURSIVE TrimLoop_nl(_, _)
TrimLoop_nl(s, len) ==
  IF len > Len(s) THEN "OOB"
  ELSE IF len < Len(s) /\ s[len + 1] = "\n"
    THEN TrimLoop_nl(s, (len - 1) % SizeMod)
    ELSE SubSeq(s, 1, IF len < Len(s) THEN len + 1 ELSE Len(s))

\* The trimming loop `while (tmp[len] == '\n' || tmp[len] == ' ')
\* tmp[len--] = 0;` from the size_t index len: the text left, or "OOB" when
\* the loop reads tmp[len] outside the strdup'ed copy (the string and its
\* terminating NUL, indexes 0..Len(s)).
RECURSIVE TrimLoop(_, _)
TrimLoop(s, len) ==
  IF len > Len(s) THEN "OOB"
  ELSE IF len < Len(s) /\ s[len + 1] \in Blank
    THEN TrimLoop(s, (len - 1) % SizeMod)
    ELSE SubSeq(s, 1, IF len < Len(s) THEN len + 1 ELSE Len(s))

\* handle_error(code, conn) with PQstatus(conn) = CONNECTION_BAD when connBad,
\* PQerrorMessage(conn) = msg and strdup succeeding when dupOk; fate is what
\* the caller did with its PGresult.  `len = strlen(tmp) - 1` is size_t.
handle_error(code, connBad, msg, dupOk, fate) ==
  LET c == IF connBad THEN "CONNECTION" ELSE code
      t == TrimLoop(msg, (Len(msg) - 1) % SizeMod)
  IN IF msg = NULL THEN Outcome("ERROR", c, NULL, fate, NULL)
     ELSE IF ~dupOk THEN Outcome("ERROR", c, msg, fate, NULL)
     ELSE IF t = "OOB" THEN Outcome("FAULT", c, NULL, fate, NULL)
     ELSE Outcome("ERROR", c, t, fate, NULL)

\* The message PQerrorMessage holds after a PQexec that returned status st
\* (or NULL): libpq clears it before each query and only an error sets it.
MessagesAfter(st) ==
  IF st \in {"TUPLES_OK", "COMMAND_OK", "EMPTY_QUERY"} THEN {<<>>} ELSE ErrMessages

-----------------------------------------------------------------------------
(* Queries.                                                                *)

\* Mutant: returns the PQresultStatus where 1 is meant.
SqlQuery_status(execNull, st, ntuples, tableOk, connBad, msg, dupOk) ==
  IF execNull THEN handle_error("QUERY", connBad, msg, dupOk, "none")
  ELSE IF st = "TUPLES_OK" /\ ntuples # 0
    THEN IF tableOk THEN Outcome(st, NULL, NULL, "table", NULL)
         ELSE Outcome("ERROR", "NOMEM", NULL, "cleared", NULL)
  ELSE IF st \in {"TUPLES_OK", "COMMAND_OK"}
    THEN Outcome("NO_ROWS", NULL, NULL, "cleared", NULL)
  ELSE handle_error("QUERY", connBad, msg, dupOk, "cleared")

\* sql_query: PQexec returned NULL when execNull, else a result of status st
\* with ntuples rows; preludedb_sql_table_new succeeds when tableOk.
SqlQuery(execNull, st, ntuples, tableOk, connBad, msg, dupOk) ==
  IF execNull THEN handle_error("QUERY", connBad, msg, dupOk, "none")
  ELSE IF st = "TUPLES_OK" /\ ntuples # 0
    THEN IF tableOk THEN Outcome("TABLE", NULL, NULL, "table", NULL)
         ELSE Outcome("ERROR", "NOMEM", NULL, "cleared", NULL)
  ELSE IF st \in {"TUPLES_OK", "COMMAND_OK"}
    THEN Outcome("NO_ROWS", NULL, NULL, "cleared", NULL)
  ELSE handle_error("QUERY", connBad, msg, dupOk, "cleared")

sql_query ==
  \E execNull, tableOk, connBad, dupOk \in BOOLEAN, st \in PgStatus :
  \E n \in IF st = "TUPLES_OK" THEN 0..1 ELSE {0} :
    \E msg \in MessagesAfter(IF execNull THEN "FATAL_ERROR" ELSE st) :
      /\ call' = [fn |-> "sql_query", execNull |-> execNull, st |-> st,
                  ntuples |-> n, tableOk |-> tableOk, connBad |-> connBad,
                  msg |-> msg, dupOk |-> dupOk]
      /\ out' = SqlQuery(execNull, st, n, tableOk, connBad, msg, dupOk)

\* sql_get_last_insert_ident: "SELECT lastval();" returns NULL when execNull,
\* else a result of status st with ntuples rows whose first value sscanf
\* parses when scanOk.  lastval() answers one row or an error, whose text
\* sscanf always parses, and PQgetvalue(result, 0, 0) is never NULL once a
\* row exists: the inputs enumerate only those results.
LastInsertIdent(execNull, st, ntuples, scanOk, connBad, msg, dupOk) ==
  IF execNull THEN handle_error("QUERY", connBad, msg, dupOk, "none")
  ELSE IF st # "TUPLES_OK" \/ ntuples <= 0
    THEN handle_error("QUERY", connBad, msg, dupOk, "leaked")
  ELSE IF ~scanOk THEN Outcome("ERROR", "INVALID_VALUE", NULL, "leaked", NULL)
  ELSE Outcome("OK", NULL, NULL, "cleared", NULL)

sql_get_last_insert_ident ==
  \E execNull, connBad, dupOk \in BOOLEAN, scanOk \in {TRUE},
     st \in {"TUPLES_OK", "FATAL_ERROR", "BAD_RESPONSE"} :
  \E n \in IF st = "TUPLES_OK" THEN {1} ELSE {0} :
    \E msg \in MessagesAfter(IF execNull THEN "FATAL_ERROR" ELSE st) :
      /\ call' = [fn |-> "sql_get_last_insert_ident", execNull |-> execNull,
                  st |-> st, ntuples |-> n, scanOk |-> scanOk, connBad |-> connBad,
                  msg |-> msg, dupOk |-> dupOk]
      /\ out' = LastInsertIdent(execNull, st, n, scanOk, connBad, msg, dupOk)

-----------------------------------------------------------------------------
(* SQL fragment builders.  `f` stands for the field name.                  *)

\* C's / and % on ints truncate towards zero.
CDiv(a, b) == IF a >= 0 THEN a \div b ELSE -((-a) \div b)
CMod(a, b) == a - b * CDiv(a, b)

\* Mutant: a zero limit is taken as no limit.
sql_build_limit_offset_string_zero ==
  \E limit, offset \in Ints :
    /\ call' = [fn |-> "sql_build_limit_offset_string", limit |-> limit, offset |-> offset]
    /\ out' = Outcome("OK", NULL, NULL, "none",
                IF limit > 0
                  THEN IF offset >= 0 THEN <<"LIMIT", limit, "OFFSET", offset>>
                       ELSE <<"LIMIT", limit>>
                  ELSE IF offset >= 0 THEN <<"LIMIT", "ALL", "OFFSET", offset>>
                  ELSE <<>>)

sql_build_limit_offset_string ==
  \E limit, offset \in Ints :
    /\ call' = [fn |-> "sql_build_limit_offset_string", limit |-> limit, offset |-> offset]
    /\ out' = Outcome("OK", NULL, NULL, "none",
                IF limit >= 0
                  THEN IF offset >= 0 THEN <<"LIMIT", limit, "OFFSET", offset>>
                       ELSE <<"LIMIT", limit>>
                  ELSE IF offset >= 0 THEN <<"LIMIT", "ALL", "OFFSET", offset>>
                  ELSE <<>>)

\* sql_build_constraint_string with value NULL when valueNull.  The -1 of an
\* operator outside the table and the two NOCASE forms is kept, though the
\* criteria never carry one.
sql_build_constraint_string ==
  \E op \in Operators, valueNull \in BOOLEAN :
    LET v == IF valueNull THEN "" ELSE "v" IN
    /\ call' = [fn |-> "sql_build_constraint_string", op |-> op, valueNull |-> valueNull]
    /\ out' = IF op \in DOMAIN OperatorTable
                THEN Outcome("OK", NULL, NULL, "none", <<"f", OperatorTable[op], v>>)
              ELSE IF op = "EQUAL_NOCASE"
                THEN Outcome("OK", NULL, NULL, "none", <<"lower", "f", "=", "lower", v>>)
              ELSE IF op = "NOT_EQUAL_NOCASE"
                THEN Outcome("OK", NULL, NULL, "none", <<"lower", "f", "!=", "lower", v>>)
              ELSE Outcome("ERROR", "GENERIC", NULL, "none", NULL)

\* sql_build_time_extract_string then the operator and value; the 128-byte
\* buffer holds the field (shifted by gmt / 3600 hours when gmt # 0) when
\* fits.  An unknown operator fails after EXTRACT is already written.
sql_build_time_constraint_string ==
  \E type \in DOMAIN ExtractField, op \in Operators, value \in Ints,
     gmt \in GmtOffsets, fits \in BOOLEAN :
    LET buf == IF gmt = 0 THEN <<"f">> ELSE <<"f", "+", CDiv(gmt, 3600), "HOUR">>
        extract == <<"EXTRACT", ExtractField[type]>> \o buf
        v == IF type = "WDAY" THEN CMod(value, 7) + 1 ELSE value
    IN
    /\ call' = [fn |-> "sql_build_time_constraint_string", type |-> type, op |-> op,
                value |-> value, gmt |-> gmt, fits |-> fits]
    /\ out' = IF ~fits THEN Outcome("ERROR", "GENERIC", NULL, "none", <<>>)
              ELSE IF op \notin DOMAIN OperatorTable
                THEN Outcome("ERROR", "GENERIC", NULL, "none", extract)
              ELSE Outcome("OK", NULL, NULL, "none", extract \o <<OperatorTable[op], v>>)

\* strtol(value, &end, 10): the offset of the first character not parsed
\* (leading blanks, a sign, digits), 0 when there are no digits.
RECURSIVE Span(_, _, _)
Span(s, i, S) == IF i <= Len(s) /\ s[i] \in S THEN Span(s, i + 1, S) ELSE i - 1

StrtolEnd(s) ==
  LET ws == Span(s, 1, {" "})
      sg == IF ws < Len(s) /\ s[ws + 1] \in {"+", "-"} THEN ws + 1 ELSE ws
      ds == Span(s, sg + 1, Digits)
  IN IF ds = sg THEN 0 ELSE ds

\* The end pointer: value + StrtolEnd(value), never NULL.
EndPtr(s) == [base |-> s, offset |-> StrtolEnd(s)]

\* The text "%s" writes for a literal: its characters.
Text(s) == FoldLeft(LAMBDA a, c : a \o c, "", s)

sql_build_time_interval_string ==
  \E lit \in Literals, unit \in DOMAIN IntervalUnit :
    /\ call' = [fn |-> "sql_build_time_interval_string", lit |-> lit, unit |-> unit]
    /\ out' = Outcome("OK", NULL, NULL, "none",
                IF EndPtr(lit) # NULL
                  THEN <<"f", "+", Text(lit), "*", "INTERVAL", "1", IntervalUnit[unit]>>
                  ELSE <<"f", "+", "INTERVAL", Text(lit), IntervalUnit[unit]>>)

-----------------------------------------------------------------------------
(* Sessions.                                                               *)

\* A SET query's outcome through sql_query: COMMAND_OK, or a failure with
\* any message libpq may hold, on a live or a dead connection.
SetOutcomes ==
  {SqlQuery(FALSE, "COMMAND_OK", 0, TRUE, FALSE, <<>>, TRUE)}
  \cup {SqlQuery(execNull, "FATAL_ERROR", 0, TRUE, connBad, msg, dupOk) :
          execNull, connBad, dupOk \in BOOLEAN, msg \in ErrMessages}

\* What sql_open returned and left behind: the PGconn (finished or open),
\* whether *session was set, and the SET statements that took effect.
OpenOutcome(q, conn, session, applied) ==
  [q EXCEPT !.ret = IF @ = "NO_ROWS" THEN "OK" ELSE @]
  @@ [conn |-> conn, session |-> session, applied |-> applied]

\* Mutant: the result of the first SET is not tested.
SqlOpen_noset(loginBad, loginMsg, q1, q2) ==
  IF loginBad
    THEN OpenOutcome(handle_error("CONNECTION", TRUE, loginMsg, TRUE, "none"),
                     "finished", FALSE, <<>>)
  ELSE OpenOutcome(q2, "open", TRUE,
         (IF q1.ret = "NO_ROWS" THEN <<"standard_conforming_strings">> ELSE <<>>)
         \o (IF q2.ret = "NO_ROWS" THEN <<"datestyle">> ELSE <<>>))

\* sql_open: PQsetdbLogin, then on CONNECTION_BAD handle_error and PQfinish;
\* otherwise *session = conn and the two SET queries, q1 and q2, the first
\* failure returned as it is (the connection stays open).
SqlOpen(loginBad, loginMsg, q1, q2) ==
  IF loginBad
    THEN OpenOutcome(handle_error("CONNECTION", TRUE, loginMsg, TRUE, "none"),
                     "finished", FALSE, <<>>)
  ELSE IF q1.ret # "NO_ROWS"
    THEN OpenOutcome(q1, "open", TRUE, <<>>)
  ELSE OpenOutcome(q2, "open", TRUE,
         <<"standard_conforming_strings">>
         \o (IF q2.ret = "NO_ROWS" THEN <<"datestyle">> ELSE <<>>))

sql_open ==
  \E loginBad \in BOOLEAN, loginMsg \in ErrMessages, q1, q2 \in SetOutcomes :
    /\ call' = [fn |-> "sql_open", loginBad |-> loginBad, q1 |-> q1, q2 |-> q2]
    /\ out' = SqlOpen(loginBad, loginMsg, q1, q2)

\* sql_close and sql_table_destroy: PQfinish / PQclear of what they get.
sql_close ==
  /\ call' = [fn |-> "sql_close"]
  /\ out' = Outcome("OK", NULL, NULL, "none", NULL) @@ [conn |-> "finished"]

sql_table_destroy ==
  /\ call' = [fn |-> "sql_table_destroy"]
  /\ out' = Outcome("OK", NULL, NULL, "cleared", NULL)

\* PQescapeStringConn on a session with standard_conforming_strings=on:
\* a quote is doubled, a backslash is an ordinary character.
EscapeConn(s) == FoldLeft(LAMBDA a, c : a \o (IF c = "'" THEN <<"'", "'">> ELSE <<c>>), <<>>, s)

\* Mutant: two bytes short, the size of the quoted text without its NUL.
EscapeSize_short(n) == (n * 2 + 2) % SizeMod

\* rsize = input_size * 2 + 3, in size_t.
EscapeSize(n) == (n * 2 + 3) % SizeMod

\* sql_escape: malloc(rsize) succeeds when mallocOk, the escape fails on an
\* invalid multibyte sequence unless encOk (handle_error, the buffer is
\* not freed); the output is the quote, the escaped text, the quote, NUL.
sql_escape ==
  \E s \in BoundedSeq(EscChars, MaxLen), mallocOk, encOk, connBad \in BOOLEAN,
     msg \in ErrMessages :
    LET rsize == EscapeSize(Len(s))
        lit == <<"'">> \o EscapeConn(s) \o <<"'">>
    IN
    /\ call' = [fn |-> "sql_escape", input |-> s, mallocOk |-> mallocOk, encOk |-> encOk]
    /\ out' = IF rsize <= Len(s) THEN Outcome("ERROR", "GENERIC", NULL, "none", NULL)
              ELSE IF ~mallocOk THEN Outcome("ERROR", "NOMEM", NULL, "none", NULL)
              ELSE IF ~encOk
                THEN handle_error("GENERIC", connBad, msg, TRUE, "none")
                     @@ [buffer |-> "leaked", size |-> rsize]
              ELSE Outcome("OK", NULL, NULL, "none", lit)
                   @@ [buffer |-> "output", size |-> rsize, written |-> Len(lit) + 1]

\* The text PQescapeByteaConn returns for the bytes b, and the bytes
\* PQunescapeBytea decodes from the text t: libpq's, kept opaque.
Bytea(b) == [escaped |-> b]
Unbytea(t) == [unescaped |-> t]

\* Mutant: free(ptr) moved after the sprintf result is tested.
EscapeBinary_latefree(b, newOk, escOk, fmtOk, relOk) ==
  CASE ~newOk -> Outcome("ERROR", "NOMEM", NULL, "none", NULL) @@ [string |-> "none", escbuf |-> "none"]
    [] ~escOk -> Outcome("ERROR", NULL, NULL, "none", NULL) @@ [string |-> "destroyed", escbuf |-> "none"]
    [] ~fmtOk -> Outcome("ERROR", "NOMEM", NULL, "none", NULL) @@ [string |-> "destroyed", escbuf |-> "live"]
    [] OTHER -> Outcome("OK", NULL, NULL, "none", IF relOk THEN <<"'", Bytea(b), "'">> ELSE NULL)
                @@ [string |-> "destroyed", escbuf |-> "freed"]

\* sql_escape_binary: prelude_string_new, PQescapeByteaConn (NULL: the
\* string is destroyed and -1 returned), sprintf "'%s'" after which ptr is
\* freed whatever it returned, then prelude_string_get_string_released,
\* whose result is ignored: the call returns 0 either way.  A failed
\* release leaves *output NULL, which libprelude sets before it can fail.
EscapeBinary(b, newOk, escOk, fmtOk, relOk) ==
  CASE ~newOk -> Outcome("ERROR", "NOMEM", NULL, "none", NULL) @@ [string |-> "none", escbuf |-> "none"]
    [] ~escOk -> Outcome("ERROR", NULL, NULL, "none", NULL) @@ [string |-> "destroyed", escbuf |-> "none"]
    [] ~fmtOk -> Outcome("ERROR", "NOMEM", NULL, "none", NULL) @@ [string |-> "destroyed", escbuf |-> "freed"]
    [] OTHER -> Outcome("OK", NULL, NULL, "none", IF relOk THEN <<"'", Bytea(b), "'">> ELSE NULL)
                @@ [string |-> "destroyed", escbuf |-> "freed"]

sql_escape_binary ==
  \E b \in BoundedSeq(EscChars, MaxLen), newOk, escOk, fmtOk, relOk \in BOOLEAN :
    /\ call' = [fn |-> "sql_escape_binary", input |-> b, newOk |-> newOk, escOk |-> escOk,
                fmtOk |-> fmtOk, relOk |-> relOk]
    /\ out' = EscapeBinary(b, newOk, escOk, fmtOk, relOk)

\* sql_unescape_binary: PQunescapeBytea, NULL on an allocation failure,
\* reported from errno.
sql_unescape_binary ==
  \E t \in BoundedSeq(EscChars, MaxLen), ok \in BOOLEAN :
    /\ call' = [fn |-> "sql_unescape_binary", input |-> t, ok |-> ok]
    /\ out' = IF ok THEN Outcome("OK", NULL, NULL, "none", NULL) @@ [bytes |-> Unbytea(t)]
              ELSE Outcome("ERROR", "NOMEM", NULL, "none", NULL)

\* sql_get_server_version: PQserverVersion, 0 on a bad connection.
sql_get_server_version ==
  \E connBad \in BOOLEAN :
    /\ call' = [fn |-> "sql_get_server_version", connBad |-> connBad]
    /\ out' = Outcome("OK", NULL, NULL, "none", NULL) @@ [version |-> IF connBad THEN 0 ELSE 90600]

-----------------------------------------------------------------------------
(* Tables: the PGresult of a query with rows, read through the accessors.  *)

\* A result of r rows and c columns whose cells are SQL NULL, the empty
\* string, or a one-character value.
Tables == UNION {[rows : {r}, cols : {c}, cell : [(0..r - 1) \X (0..c - 1) -> {"null", "empty", "v"}]] :
                   r \in 1..MaxDim, c \in 1..MaxDim}

\* PQgetisnull, PQgetvalue, PQgetlength on cell (i, j).
GetIsNull(tb, i, j) == tb.cell[i, j] = "null"
GetValue(tb, i, j) == IF tb.cell[i, j] = "v" THEN <<"v">> ELSE <<>>

\* Mutant: the bound test lets row_index reach the row count.
sql_fetch_row_le(tb, i, newRowOk) ==
  IF i <= tb.rows
    THEN IF newRowOk THEN Outcome("TABLE", NULL, NULL, "none", NULL) @@ [row |-> i]
         ELSE Outcome("ERROR", "NOMEM", NULL, "none", NULL)
  ELSE Outcome("NO_ROWS", NULL, NULL, "none", NULL)

\* sql_fetch_row: 1 and a row carrying row_index when row_index < PQntuples,
\* 0 past the last row; preludedb_sql_table_new_row may fail.
sql_fetch_row(tb, i, newRowOk) ==
  IF i < tb.rows
    THEN IF newRowOk THEN Outcome("TABLE", NULL, NULL, "none", NULL) @@ [row |-> i]
         ELSE Outcome("ERROR", "NOMEM", NULL, "none", NULL)
  ELSE Outcome("NO_ROWS", NULL, NULL, "none", NULL)

\* sql_fetch_field on the row sql_fetch_row made for row_index i: a column
\* past PQnfields is an error; a NULL cell gives value NULL and length 0,
\* any other PQgetvalue and PQgetlength; preludedb_sql_row_new_field may fail.
sql_fetch_field(tb, i, j, newFieldOk) ==
  IF j >= tb.cols THEN Outcome("ERROR", "INVALID_COLUMN_NUM", NULL, "none", NULL)
  ELSE LET v == IF GetIsNull(tb, i, j) THEN NULL ELSE GetValue(tb, i, j)
           l == IF GetIsNull(tb, i, j) THEN 0 ELSE Len(GetValue(tb, i, j))
       IN IF newFieldOk THEN Outcome("OK", NULL, NULL, "none", NULL) @@ [value |-> v, len |-> l]
          ELSE Outcome("ERROR", "NOMEM", NULL, "none", NULL)

\* sql_get_column_num: PQfnumber gives the column of the name, -1 when no
\* column has it.
sql_get_column_num(tb, k) ==
  IF k = NULL THEN Outcome("ERROR", "GENERIC", NULL, "none", NULL)
  ELSE Outcome("OK", NULL, NULL, "none", NULL) @@ [column |-> k]

\* sql_get_column_name, sql_get_column_count, sql_get_row_count: PQfname
\* (NULL past the last column), PQnfields, PQntuples.
sql_table_getters(tb) ==
  \/ \E j \in 0..tb.cols :
       /\ call' = [fn |-> "sql_get_column_name", table |-> tb, column |-> j]
       /\ out' = Outcome("OK", NULL, NULL, "none", NULL) @@ [name |-> IF j < tb.cols THEN j ELSE NULL]
  \/ /\ call' = [fn |-> "sql_get_column_count", table |-> tb]
     /\ out' = Outcome("OK", NULL, NULL, "none", NULL) @@ [count |-> tb.cols]
  \/ /\ call' = [fn |-> "sql_get_row_count", table |-> tb]
     /\ out' = Outcome("OK", NULL, NULL, "none", NULL) @@ [count |-> tb.rows]

\* One accessor call on a result; the row a field is read from is one that
\* sql_fetch_row returned, and indexes range one past the result.
sql_table_access ==
  \E tb \in Tables, ok \in BOOLEAN :
    \/ \E i \in 0..tb.rows :
         /\ call' = [fn |-> "sql_fetch_row", table |-> tb, index |-> i, ok |-> ok]
         /\ out' = sql_fetch_row(tb, i, ok)
    \/ \E i \in 0..tb.rows - 1, j \in 0..tb.cols :
         /\ call' = [fn |-> "sql_fetch_field", table |-> tb, row |-> i, column |-> j, ok |-> ok]
         /\ out' = sql_fetch_field(tb, i, j, ok)
    \/ \E k \in (0..tb.cols - 1) \cup {NULL} :
         /\ ok
         /\ call' = [fn |-> "sql_get_column_num", table |-> tb, column |-> k]
         /\ out' = sql_get_column_num(tb, k)
    \/ ok /\ sql_table_getters(tb)

-----------------------------------------------------------------------------

Init == call = NULL /\ out = NULL

\* The last call hit undefined behaviour.
Halted == out # NULL /\ out.ret = "FAULT"

\* The calls keep no state between them, so a behaviour of one call covers
\* every sequence of calls.
Next ==
  /\ call = NULL
  /\ \/ sql_query
     \/ sql_get_last_insert_ident
     \/ sql_build_limit_offset_string
     \/ sql_build_constraint_string
     \/ sql_build_time_constraint_string
     \/ sql_build_time_interval_string
     \/ sql_open
     \/ sql_close
     \/ sql_escape
     \/ sql_table_destroy
     \/ sql_table_access
     \/ sql_escape_binary
     \/ sql_unescape_binary
     \/ sql_get_server_version

Spec == Init /\ [][Next]_vars

-----------------------------------------------------------------------------
(* Properties.                                                             *)

\* The backend message with its trailing newlines and blanks removed.
TrimRef(s) == SubSeq(s, 1, Min({k \in 0..Len(s) : \A j \in k + 1..Len(s) : s[j] \in Blank}))

\* Spec 5, query: sql_query answers Table when the result has rows, NoRows
\* for a command or an empty result, and otherwise a QueryError (a
\* ConnectionError when the session is dead) carrying the backend message
\* with trailing blanks stripped (verbatim only when strdup fails).
QueryOutcomeSpec ==
  (call # NULL /\ call.fn = "sql_query" /\ out.ret # "FAULT") =>
    LET c == call IN
    CASE ~c.execNull /\ c.st = "TUPLES_OK" /\ c.ntuples > 0 ->
           out.ret = "TABLE" \/ (out.ret = "ERROR" /\ ~c.tableOk)
      [] ~c.execNull /\ c.st \in {"TUPLES_OK", "COMMAND_OK"} -> out.ret = "NO_ROWS"
      [] OTHER -> /\ out.ret = "ERROR"
                  /\ out.code = IF c.connBad THEN "CONNECTION" ELSE "QUERY"
                  /\ out.text = IF c.dupOk THEN TrimRef(c.msg) ELSE c.msg

\* Spec 5 and 8, build_limit_offset: both bounds give "LIMIT l OFFSET o",
\* a limit alone "LIMIT l", an offset alone "LIMIT ALL OFFSET o", neither
\* nothing; a negative bound means absent.
LimitOffsetSpec ==
  (call # NULL /\ call.fn = "sql_build_limit_offset_string") =>
    out.sql = (IF call.limit < 0 THEN <<>> ELSE <<"LIMIT", call.limit>>)
              \o (IF call.offset < 0 THEN <<>>
                  ELSE (IF call.limit < 0 THEN <<"LIMIT", "ALL">> ELSE <<>>)
                       \o <<"OFFSET", call.offset>>)

\* Spec 5 and 8, build_time_interval: a literal that parses fully as an
\* integer multiplies the unit interval; any other literal ("now()") is
\* added as an interval of that unit.
IntervalFormSpec ==
  (call # NULL /\ call.fn = "sql_build_time_interval_string") =>
    LET full == StrtolEnd(call.lit) = Len(call.lit) /\ Len(call.lit) > 0 IN
    out.sql = IF full
                THEN <<"f", "+", Text(call.lit), "*", "INTERVAL", "1", IntervalUnit[call.unit]>>
                ELSE <<"f", "+", "INTERVAL", Text(call.lit), IntervalUnit[call.unit]>>

\* Spec 4.3, open: sql_open succeeds only with a live connection whose
\* session state has been normalised (standard_conforming_strings, then
\* DATESTYLE ISO), and an unreachable server is a ConnectionError after
\* which no connection is left and *session is untouched.
OpenSpec ==
  (call # NULL /\ call.fn = "sql_open") =>
    /\ out.ret = "OK" =>
         /\ out.applied = <<"standard_conforming_strings", "datestyle">>
         /\ out.session /\ out.conn = "open"
    /\ call.loginBad =>
         out.ret = "ERROR" /\ out.code = "CONNECTION" /\ ~out.session /\ out.conn = "finished"

\* How PostgreSQL reads a string literal under standard_conforming_strings:
\* the text between the quotes, '' standing for one quote; NULL when the
\* literal is not well formed.
RECURSIVE LiteralBody(_)
LiteralBody(b) ==
  IF b = <<>> THEN <<>>
  ELSE IF b[1] # "'" THEN LET r == LiteralBody(Tail(b))
                          IN IF r = NULL THEN NULL ELSE <<b[1]>> \o r
  ELSE IF Len(b) >= 2 /\ b[2] = "'"
    THEN LET r == LiteralBody(Tail(Tail(b))) IN IF r = NULL THEN NULL ELSE <<"'">> \o r
  ELSE NULL

ReadLiteral(l) ==
  IF Len(l) >= 2 /\ l[1] = "'" /\ l[Len(l)] = "'" THEN LiteralBody(SubSeq(l, 2, Len(l) - 1))
  ELSE NULL

\* Spec 4.3, escape: the quoted literal sql_escape returns is read back by
\* the server as exactly the input, quotes and backslashes included, and
\* the literal with its NUL fits in the rsize bytes it allocated.
EscapeSpec ==
  (call # NULL /\ call.fn = "sql_escape" /\ out.ret = "OK") =>
    /\ ReadLiteral(out.sql) = call.input
    /\ out.written <= out.size

\* Spec 4.3, introspection: sql_fetch_row gives a row for exactly the
\* indexes inside the result (a failed allocation aside), and the row
\* carries its index; sql_fetch_field rejects a column past the last, and
\* tells SQL NULL (NULL, length 0) from the empty string (length 0).
TableAccessSpec ==
  call # NULL =>
    /\ call.fn = "sql_fetch_row" =>
         /\ (out.ret = "NO_ROWS") = (call.index >= call.table.rows)
         /\ out.ret = "TABLE" => out.row = call.index
    /\ call.fn = "sql_fetch_field" =>
         /\ (call.column >= call.table.cols) = (out.code = "INVALID_COLUMN_NUM")
         /\ out.ret = "OK" =>
              /\ (out.value = NULL) = (call.table.cell[call.row, call.column] = "null")
              /\ out.value # NULL => out.len = Len(out.value)

\* Spec 4.3, escape_binary: no path of sql_escape_binary leaves the
\* prelude_string or libpq's escape buffer allocated, a failure before the
\* release is reported as an error, and the literal handed back is the
\* escaped bytes between quotes.
EscapeBinarySpec ==
  (call # NULL /\ call.fn = "sql_escape_binary") =>
    /\ out.string \in {"none", "destroyed"}
    /\ out.escbuf \in {"none", "freed"}
    /\ (out.ret = "ERROR") = ~(call.newOk /\ call.escOk /\ call.fmtOk)
    /\ out.sql # NULL => out.sql = <<"'", Bytea(call.input), "'">>

\* handle_error never reads outside its copy of the backend message, for
\* any message libpq may hold when a query fails.
NoOutOfBoundsRead == ~Halted

=============================================================================
