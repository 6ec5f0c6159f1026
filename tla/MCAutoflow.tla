----------------------------- MODULE MCAutoflow -----------------------------
(***************************************************************************)
(* The sets of API calls with which TLC explores Autoflow.  Nothing is     *)
(* counted in Autoflow, so every set of calls gives a finite instance in   *)
(* which the calls may be repeated without bound.                          *)
(***************************************************************************)
EXTENDS Autoflow

\* Everything a user may do.
AllCalls == Call

\* The calls that start, interrupt or crash a run, and the shutdown.
LiveCalls == {"start", "stop", "ntrip_stop", "shutdown"}
=============================================================================
