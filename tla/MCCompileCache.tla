--------------------------- MODULE MCCompileCache ---------------------------
(***************************************************************************)
(* A small instance of CompileCache: one saved query, users, which lives in *)
(* the default database main or in another one, aux, and whose statement    *)
(* depends on the variables or not.                                         *)
(***************************************************************************)
EXTENDS CompileCache

CONSTANTS main, aux, users
=============================================================================
