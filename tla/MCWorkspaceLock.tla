-------------------------- MODULE MCWorkspaceLock --------------------------
(***************************************************************************)
(* An instance of WorkspaceLock: the sessions of one daemon.               *)
(***************************************************************************)
EXTENDS WorkspaceLock, TLC

CONSTANTS s1, s2, s3, p1, o1, o2, o3

MCSession == {s1, s2, s3}

\* One daemon with three sessions on the project.
OneProc == {p1}
OneProcOf == [s \in MCSession |-> p1]
OwnOwner == s1 :> o1 @@ s2 :> o2 @@ s3 :> o3
=============================================================================
