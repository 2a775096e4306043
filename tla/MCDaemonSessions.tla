------------------------- MODULE MCDaemonSessions -------------------------
(***************************************************************************)
(* Instances of DaemonSessions: a client that waits for each answer        *)
(* (one handler thread) and clients that do not (two).                     *)
(***************************************************************************)
EXTENDS DaemonSessions, TLC

\* The session objects, the handler threads and the projects are
\* interchangeable.
Symmetry == Permutations(Object) \cup Permutations(Handler) \cup Permutations(Project)
=============================================================================
