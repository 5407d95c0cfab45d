----------------------------- MODULE MCPyClient -----------------------------
(* Two sessions, of which one asks for what the application logs; messages  *)
(* of two bytes, received two at a time.                                    *)
EXTENDS PyClient

Asked == {[session |-> "s1", value |-> 1], [session |-> "s2", value |-> 2]}
=============================================================================
