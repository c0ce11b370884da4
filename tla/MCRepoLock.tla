----------------------------- MODULE MCRepoLock -----------------------------
(* A small instance of RepoLock.                                            *)
EXTENDS RepoLock, TLC

CONSTANTS gateway, cli
=============================================================================
