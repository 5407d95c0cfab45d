--------------------------- MODULE MCTraceServer ---------------------------
(***************************************************************************)
(* Small instances of TraceServer for TLC.                                 *)
(***************************************************************************)
EXTENDS TraceServerMailboxes

OneFd == {1}
TwoFds == {1, 2}
OneSession == {1}
TwoSessions == {1, 2}
=============================================================================
