--------------------------- MODULE MCEncryptValues ---------------------------
(* EncryptValues for TLC: two commands and a reader over two files.  The    *)
(* command lines encrypt a file to another, twice with and without leave to *)
(* overwrite, or in place; one asks for an unknown format.                  *)
EXTENDS EncryptValues

CONSTANTS plain, sealed, v1, v2, k1, k2

Request(i, o, k, w) == [input |-> i, output |-> o, pass |-> k, overwrite |-> w, format |-> TRUE]

MCRequests ==
  {Request(plain, sealed, k1, FALSE), Request(plain, sealed, NoPass, TRUE),
   Request(plain, plain, k1, TRUE), Request(sealed, plain, k2, TRUE),
   [Request(plain, sealed, k1, TRUE) EXCEPT !.format = FALSE]}
=============================================================================
