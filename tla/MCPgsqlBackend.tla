---------------------------- MODULE MCPgsqlBackend ----------------------------
(* PgsqlBackend with messages over "E", blank and newline, literals over a  *)
(* digit, a sign, a letter and a blank, up to three characters each.       *)
EXTENDS PgsqlBackend

MCMsgChars == {"E", " ", "\n"}
MCLitChars == {"1", "-", "x", " "}
MCEscChars == {"a", "'", "\\"}
\* Negative, zero, positive, and the weekday edges 6 and 7.
MCInts == {-1, 0, 1, 6, 7}
\* No offset, one hour, and minus an hour and a half.
MCGmtOffsets == {0, 3600, -5400}
=============================================================================
