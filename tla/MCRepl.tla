------------------------------- MODULE MCRepl -------------------------------
(***************************************************************************)
(* An instance of Repl: a session that may move to a second directory and  *)
(* switch to a second model.                                               *)
(***************************************************************************)
EXTENDS Repl
=============================================================================
