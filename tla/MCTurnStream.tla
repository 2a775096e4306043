---------------------------- MODULE MCTurnStream ----------------------------
(***************************************************************************)
(* An instance of TurnStream: a provider that retries once, and one page.  *)
(***************************************************************************)
EXTENDS TurnStream
=============================================================================
