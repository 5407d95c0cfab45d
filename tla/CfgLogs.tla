------------------------------ MODULE CfgLogs ------------------------------
(***************************************************************************)
(* The stored logs of one configuration of a session: the fields `logs'    *)
(* and `log_idx' of struct tagCFG (common/trace_typedef.h), the storing    *)
(* half of AsyncCommThread::SaveLog and the fetching half of               *)
(* GetLogByGnsEqually (trace_server).  The elements of `logs' before       *)
(* log_idx have been fetched by the browser already.                       *)
(***************************************************************************)
EXTENDS Integers, Sequences

CONSTANTS Text,             \* the log texts a client can upload
          MaxPreserveLogs   \* g_conf.maxPerserveLogs

ASSUME MaxPreserveAssumption == MaxPreserveLogs \in Nat

LogWindow == [logs : Seq(Text), log_idx : Nat]

EmptyWindow == [logs |-> << >>, log_idx |-> 0]

\* What the browser has not fetched yet.
Unread(w) == SubSeq(w.logs, w.log_idx + 1, Len(w.logs))

Full(w) == Len(w.logs) >= MaxPreserveLogs

\* Mutants: log_idx left on the last fetched log; log_idx not reset.
MakeRoomLast(w) ==
  IF Full(w) THEN [logs |-> Unread(w), log_idx |-> -1] ELSE w
MakeRoomKeep(w) ==
  IF Full(w) THEN [logs |-> Unread(w), log_idx |-> w.log_idx] ELSE w

\* A full vector first loses the logs that were fetched already.
MakeRoom(w) ==
  IF Full(w) THEN [logs |-> Unread(w), log_idx |-> 0] ELSE w

\* Still full with nothing fetched left in it: "overload".
Overloaded(w) == Full(MakeRoom(w))

\* One pass of the storing block of SaveLog.
Offer(w, t) ==
  IF Overloaded(w)
  THEN MakeRoom(w)
  ELSE [MakeRoom(w) EXCEPT !.logs = Append(@, t)]

Lesser(a, b) == IF a <= b THEN a ELSE b

\* How many logs a fetch of at most n takes.
Available(w, n) == Lesser(n, Len(w.logs) - w.log_idx)

Fetched(w, n) == SubSeq(w.logs, w.log_idx + 1, w.log_idx + Available(w, n))

\* Mutant: log_idx advances before the limit is tested.
AfterFetchOneMore(w, n) ==
  [w EXCEPT !.log_idx = Lesser(@ + n + 1, Len(w.logs))]

AfterFetch(w, n) == [w EXCEPT !.log_idx = @ + Available(w, n)]

\* The window is sound: the cursor lies inside a vector that is not too long.
WindowOK(w) ==
  /\ w \in LogWindow
  /\ w.log_idx <= Len(w.logs)
  /\ Len(w.logs) <= MaxPreserveLogs
=============================================================================
