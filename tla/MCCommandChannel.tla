-------------------------- MODULE MCCommandChannel --------------------------
(***************************************************************************)
(* The threads with which TLC explores CommandChannel.                     *)
(***************************************************************************)
EXTENDS CommandChannel, TLC

CONSTANTS orchestrator, api

\* The threads differ in nothing but their name.
Threads == Permutations(Waiters)
=============================================================================
