--------------------------- MODULE MCTraceSystem ---------------------------
(***************************************************************************)
(* Small instances of TraceSystem for TLC: descriptor 1 is the CGI's.      *)
(***************************************************************************)
EXTENDS TraceSystem, TLC

CONSTANTS c1, c2, g1, g2, a1, a2

FdsForOne == {1, 2}
FdsForTwo == {1, 2, 3}
OneSession == {1}
SameName == (c1 :> g1) @@ (c2 :> g1)
TwoNames == (c1 :> g1) @@ (c2 :> g2)
OwnAddr == (c1 :> a1) @@ (c2 :> a2)

\* The state without sent and said, which nothing reads after the step that
\* writes them, without what a process died of, and without the flag of a
\* client that will never write again.
Lasting ==
  <<status = "up", conns, cliInfo, sessions, issued, untilCheck,
    [c \in Client |-> IF Cl!Running(c) THEN con[c] ELSE "off"],
    [c \in Client |-> con[c] \in {"null", "live"} /\ reported[c]],
    filters, wireVars, history>>

\* What may be exchanged: the two clients with their names and addresses, or
\* two filters of a known kind.
Twins == {(c1 :> c2) @@ (c2 :> c1) @@ (g1 :> g2) @@ (g2 :> g1) @@ (a1 :> a2) @@ (a2 :> a1)}
Filters == Permutations(SetId)
=============================================================================
