---------------------------- MODULE MCIocpServer ----------------------------
(***************************************************************************)
(* IocpServer for TLC: handles, workers and send contexts are each         *)
(* interchangeable.                                                        *)
(***************************************************************************)
EXTENDS IocpServer

Symmetry ==
  Permutations(Sockets) \cup Permutations(Workers) \cup Permutations(Contexts)
=============================================================================
