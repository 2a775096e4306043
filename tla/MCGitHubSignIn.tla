--------------------------- MODULE MCGitHubSignIn ---------------------------
(***************************************************************************)
(* An instance of GitHubSignIn: a thread of the daemon, and a tool with a  *)
(* copy of the configuration of its own.                                   *)
(***************************************************************************)
EXTENDS GitHubSignIn
=============================================================================
