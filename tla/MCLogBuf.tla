------------------------------ MODULE MCLogBuf ------------------------------
(* Instance of LogBuf for TLC: a ring of two lines, a buffer of two bytes  *)
(* and messages of one to four bytes, so that lines cross chunk borders,   *)
(* the ring overflows, and "\r\n", empty and unfinished lines occur.       *)
EXTENDS LogBuf

CONSTANTS a, b

Printed == { <<a, LF>>, <<b, a, LF>>, <<LF>>, <<a, CR, LF>>, <<b, CR, CR>> }

============================================================================
