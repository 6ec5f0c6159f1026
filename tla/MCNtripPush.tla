---------------------------- MODULE MCNtripPush -----------------------------
(***************************************************************************)
(* The outcomes of connection attempts with which TLC explores NtripPush.  *)
(***************************************************************************)
EXTENDS NtripPush

\* A caster that may refuse, be unreachable or accept.
AllOutcomes == {"ok", "dns", "auth", "error"}
=============================================================================
