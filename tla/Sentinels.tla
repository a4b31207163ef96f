------------------------------ MODULE Sentinels ------------------------------
(***************************************************************************)
(* The mark the models share for what is not there: Go's nil and "",       *)
(* Python's None, an empty variable of the shell.                          *)
(***************************************************************************)
CONSTANT None
=============================================================================
