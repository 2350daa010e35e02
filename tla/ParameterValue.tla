---------------------------- MODULE ParameterValue ----------------------------
(***************************************************************************)
(* The key=value tokenizer of the classic format's mapping file,           *)
(* plugins/format/classic/db-object.c: parameter_value(string, field)      *)
(* walks the tokens of a line, found by find_separator, and returns the    *)
(* value of the first whose name matches field (strncasecmp over the       *)
(* name's length), unescaped and unquoted; NULL when none matches.         *)
(*                                                                         *)
(* A line is a sequence of characters; C index i is element i + 1, index   *)
(* Len(line) is the terminating NUL, and index -1 is the byte before the   *)
(* line buffer, which the program never wrote (`before`).  Only the single *)
(* quote is modelled: the code treats '"' the same way.  A call whose      *)
(* pointer arithmetic leaves the string returns "FAULT".                   *)
(***************************************************************************)
EXTENDS Integers, Sequences, SequencesExt

CONSTANTS
  Chars,     \* characters of mapping lines
  Fields,    \* parameter names db_object_new looks up (lower case)
  MaxLen,    \* longest line
  NUL, NULL, FAULT   \* model values: the terminator, NULL, a crash

Quote == "'"
Backslash == "\\"
Seps == {" "}            \* find_separator(s, " \t"): the blank stands for both

\* The case folding of strncasecmp over the model's letters.
Lower(c) == IF c = "B" THEN "b" ELSE c

ASSUME {Quote, Backslash, "="} \cup Seps \subseteq Chars

\* The lines of the mapping file db_objects_init does not skip: not empty,
\* not only blanks, and not a '#' comment (whose character is not modelled).
Lines == {s \in BoundedSeq(Chars, MaxLen) : \E k \in 1..Len(s) : s[k] \notin Seps}

\* The buffer db_objects_init passes to db_object_new: fgets read the line
\* with its newline, unless it is the last line of a file that does not end
\* in one, and buf[strlen(buf)-1] = '\0' cuts the last byte either way.
LineBuffer(l, nl) == IF nl THEN l ELSE SubSeq(l, 1, Len(l) - 1)

VARIABLES
  call,   \* [line, nl, field, before] of the last lookup
  out     \* its result: a value, NULL, or FAULT

vars == <<call, out>>

TypeOK ==
  /\ \/ call = NULL
     \/ /\ call \in [line : Seq(Chars), nl : BOOLEAN, field : Fields, before : Chars]
        /\ Len(call.line) <= MaxLen
  /\ out \in Seq(Chars) \cup {NULL, FAULT}

-----------------------------------------------------------------------------

\* The byte at C index i of the line (the NUL at Len, the unknown byte at -1).
At(s, before, i) == IF i = -1 THEN before ELSE IF i < Len(s) THEN s[i + 1] ELSE NUL

\* The characters at C indexes i .. i + n - 1.
Sub(s, i, n) == SubSeq(s, i + 1, i + n)

\* strnchr(s + i, c, n): the index of the first c among n bytes, or NULL.
Strnchr(s, i, c, n) ==
  LET js == {j \in i..i + n - 1 : s[j + 1] = c}
  IN IF js = {} THEN NULL ELSE Min(js)

\* The do-while of find_separator after a quote at i: the next quote whose
\* preceding byte is not a backslash, or NULL when strchr runs out.
RECURSIVE CloseQuote(_, _, _)
CloseQuote(s, before, i) ==
  LET js == {j \in i + 1..Len(s) - 1 : s[j + 1] = Quote}
  IN IF js = {} THEN NULL
     ELSE LET j == Min(js)
          IN IF At(s, before, j - 1) = Backslash THEN CloseQuote(s, before, j) ELSE j

\* find_separator(s + i, " \t"): the index of the first separator outside
\* quotes, NULL at the end of the string, or "FAULT" when an unclosed quote
\* sets s to NULL + 1, which the loop condition then dereferences.
RECURSIVE FindSeparator(_, _, _)
\* (mutant) the quote branch resumes at the closing quote, without s++.
FindSeparator_noinc(s, before, i) ==
  LET c == At(s, before, i) IN
  IF c = NUL THEN NULL
  ELSE IF c = Quote /\ At(s, before, i - 1) # Backslash
    THEN LET j == CloseQuote(s, before, i)
         IN IF j = NULL THEN FAULT ELSE FindSeparator(s, before, j)
  ELSE IF c = Backslash
    THEN FindSeparator(s, before, IF At(s, before, i + 1) # NUL THEN i + 2 ELSE i + 1)
  ELSE IF c \in Seps THEN i
  ELSE FindSeparator(s, before, i + 1)

FindSeparator(s, before, i) ==
  LET c == At(s, before, i) IN
  IF c = NUL THEN NULL
  ELSE IF c = Quote /\ At(s, before, i - 1) # Backslash
    THEN LET j == CloseQuote(s, before, i)
         IN IF j = NULL THEN FAULT ELSE FindSeparator(s, before, j + 1)
  ELSE IF c = Backslash
    THEN FindSeparator(s, before, IF At(s, before, i + 1) # NUL THEN i + 2 ELSE i + 1)
  ELSE IF c \in Seps THEN i
  ELSE FindSeparator(s, before, i + 1)

RECURSIVE Unescape(_)
\* (mutant) a dangling backslash copies the terminator into the value.
Unescape_nul(v) ==
  IF v = <<>> THEN <<>>
  ELSE IF Head(v) = Backslash
    THEN IF Len(v) = 1 THEN <<NUL>> ELSE <<v[2]>> \o Unescape(Tail(Tail(v)))
  ELSE <<Head(v)>> \o Unescape(Tail(v))

\* unescape: drops each backslash and keeps the byte after it; my_strcpy
\* moves the rest left, then s++ steps over the byte that moved in.
Unescape(v) ==
  IF v = <<>> THEN <<>>
  ELSE IF Head(v) = Backslash
    THEN IF Len(v) = 1 THEN <<>> ELSE <<v[2]>> \o Unescape(Tail(Tail(v)))
  ELSE <<Head(v)>> \o Unescape(Tail(v))

\* unquote: strips a quote at both ends (one quote alone becomes empty).
Unquote(v) ==
  IF Len(v) > 0 /\ v[1] = Quote /\ v[Len(v)] = Quote THEN SubSeq(v, 2, Len(v) - 1) ELSE v

\* strncasecmp(buf, field, n) = 0, buf holding n bytes with no NUL.
NameMatches(name, field) ==
  Len(name) <= Len(field) /\ \A k \in 1..Len(name) : Lower(name[k]) = field[k]

\* The do-while loop of parameter_value from token start i: each pass finds
\* the separator, splits the token at its first '=' (a token without one
\* has name_len = len - 1), and returns the value of the first matching
\* name; `continue` and the loop end both test `sep && *s`.  On an empty
\* string name_len is -1, and strncpy(buf, s, (size_t) -1) pads far past
\* the 128 bytes of buf.
RECURSIVE ParameterValueFrom(_, _, _, _)
ParameterValueFrom(s, before, field, i) ==
  LET sep == FindSeparator(s, before, i)
      more(k) == IF At(s, before, k) # NUL
                   THEN ParameterValueFrom(s, before, field, k) ELSE NULL
  IN IF sep = FAULT THEN FAULT
     ELSE IF sep = i THEN more(i + 1)
     ELSE LET len == IF sep # NULL THEN sep - i ELSE Len(s) - i
              eq == Strnchr(s, i, "=", len)
              data == IF eq # NULL THEN eq + 1 ELSE i + len
              dataLen == i + len - data
              nameLen == len - dataLen - 1
          IN IF nameLen < 0 THEN FAULT
             ELSE IF NameMatches(Sub(s, i, nameLen), field)
               THEN Unquote(Unescape(Sub(s, data, dataLen)))
               ELSE IF sep = NULL THEN NULL ELSE more(sep + 1)

parameter_value(s, before, field) == ParameterValueFrom(s, before, field, 0)

-----------------------------------------------------------------------------

Init == call = NULL /\ out = NULL

\* One lookup on the buffer of one line; the byte before the buffer only
\* matters when the buffer starts with a quote.
Lookup ==
  /\ call = NULL
  /\ \E l \in Lines, nl \in BOOLEAN, field \in Fields :
     LET s == LineBuffer(l, nl) IN
     \E before \in IF s # <<>> /\ s[1] = Quote THEN {Backslash, "a"} ELSE {"a"} :
       /\ call' = [line |-> l, nl |-> nl, field |-> field, before |-> before]
       /\ out' = parameter_value(s, before, field)

Next == Lookup

Spec == Init /\ [][Next]_vars

-----------------------------------------------------------------------------
(* The tokenizer of spec 4.1: tokens separated by blanks outside quotes; a *)
(* quote opens a span that the next unescaped quote closes; a backslash    *)
(* escapes the next character, inside or outside quotes.  A token is       *)
(* key=value; the value of a key is the first token's, unescaped then      *)
(* unquoted.                                                               *)

\* The tokens of s, or "MALFORMED" for an unclosed quote or a dangling
\* backslash.  q: inside quotes; cur: the token being read.
RECURSIVE Tokens(_, _, _, _)
Tokens(s, q, cur, acc) ==
  LET flush == IF cur = <<>> THEN acc ELSE Append(acc, cur) IN
  IF s = <<>> THEN IF q THEN "MALFORMED" ELSE flush
  ELSE LET c == Head(s) IN
    CASE c = Backslash ->
           IF Len(s) = 1 THEN "MALFORMED"
           ELSE Tokens(Tail(Tail(s)), q, cur \o <<c, s[2]>>, acc)
      [] c = Quote -> Tokens(Tail(s), ~q, Append(cur, c), acc)
      [] c \in Seps /\ ~q -> Tokens(Tail(s), q, <<>>, flush)
      [] OTHER -> Tokens(Tail(s), q, Append(cur, c), acc)

\* The key and value of a token split at its first '='.
KeyOf(t) == LET js == {j \in 1..Len(t) : t[j] = "="}
            IN IF js = {} THEN t ELSE SubSeq(t, 1, Min(js) - 1)
ValueOf(t) == LET js == {j \in 1..Len(t) : t[j] = "="}
              IN IF js = {} THEN <<>> ELSE SubSeq(t, Min(js) + 1, Len(t))

\* A mapping line as spec 6 writes it: every token is key=value with a key
\* of the mapping's names, every quote closed, every backslash escaping.
WellFormed(s) ==
  LET ts == Tokens(s, FALSE, <<>>, <<>>) IN
  /\ ts # "MALFORMED"
  /\ \A k \in 1..Len(ts) :
       /\ "=" \in Range(ts[k])
       /\ [j \in 1..Len(KeyOf(ts[k])) |-> Lower(KeyOf(ts[k])[j])] \in Fields

\* A value as read: each character with whether a backslash escaped it.
RECURSIVE Lexed(_)
Lexed(v) ==
  IF v = <<>> THEN <<>>
  ELSE IF Head(v) = Backslash /\ Len(v) > 1
    THEN <<[c |-> v[2], esc |-> TRUE]>> \o Lexed(Tail(Tail(v)))
  ELSE <<[c |-> Head(v), esc |-> FALSE]>> \o Lexed(Tail(v))

\* The decoded value: enclosing unescaped quotes removed, escapes resolved,
\* so that escaped quotes and backslashes stand for themselves (spec 8).
SpecDecode(v) ==
  LET l == Lexed(v)
      open == [c |-> Quote, esc |-> FALSE]
      body == IF Len(l) >= 2 /\ l[1] = open /\ l[Len(l)] = open
                THEN SubSeq(l, 2, Len(l) - 1) ELSE l
  IN [k \in 1..Len(body) |-> body[k].c]

\* The value spec 4.1 gives field in s: the first token whose key is field
\* (case-insensitively), decoded, or NULL.
SpecValue(s, field) ==
  LET ts == Tokens(s, FALSE, <<>>, <<>>)
      ks == {k \in 1..Len(ts) :
               [j \in 1..Len(KeyOf(ts[k])) |-> Lower(KeyOf(ts[k])[j])] = field}
  IN IF ks = {} THEN NULL ELSE SpecDecode(ValueOf(ts[Min(ks)]))

-----------------------------------------------------------------------------
(* Properties.                                                             *)

\* On a well-formed mapping line that ends in a newline and uses no
\* backslash, parameter_value returns what spec 4.1 reads: find_separator
\* skips blanks inside quotes, the name before the first '=' is compared
\* case-insensitively, the first matching token wins, and unquote strips
\* the enclosing quotes.
PlainValueSpec ==
  call # NULL /\ call.nl /\ WellFormed(call.line) /\ Backslash \notin Range(call.line)
    => out = SpecValue(call.line, call.field)

\* parameter_value never leaves the line (an unclosed quote is a parse
\* error for spec 4.1), and on every well-formed line of the file, escapes
\* included and with or without a final newline, returns the value spec
\* 4.1 and spec 8 give.
ParameterValueSpec ==
  call # NULL =>
    /\ out # FAULT
    /\ WellFormed(call.line) => out = SpecValue(call.line, call.field)

=============================================================================
