------------------------ MODULE TraceServerMailboxes ------------------------
(***************************************************************************)
(* The trace server keeps the promises of LogMailboxes: a configuration is *)
(* a mailbox holding what lies behind its log_idx, and a GET_LOG_RESP      *)
(* hands out what it carries.                                              *)
(***************************************************************************)
EXTENDS TraceServer

BoxOf(c) ==
  [name |-> c.gns_name, addr |-> c.ip_port, unread |-> Unread(c.win)]
BoxesOf(cfgs) == [i \in 1 .. Len(cfgs) |-> BoxOf(cfgs[i])]
Boxes == [s \in DOMAIN sessions |-> BoxesOf(sessions[s].cfgs)]

Answers ==
  {m \in UNION {{sent[fd][i] : i \in 1 .. Len(sent[fd])} : fd \in Fd} :
     m.id = "GET_LOG_RESP"}
TextsOf(m) == [i \in 1 .. Len(m.logs) |-> m.logs[i].text]
Given == IF Answers = {} THEN << >>
         ELSE TextsOf(CHOOSE m \in Answers : TRUE)

Mail == INSTANCE LogMailboxes WITH
  Name <- Gns, Addr <- IpPort, None <- NoName,
  Capacity <- MaxPreserveLogs, Batch <- MaxGetLogs,
  boxes <- Boxes, given <- Given

\* Logs are handed out in the order of upload, once, and are lost only to a
\* full configuration, a replaced one, or the end of the session.
KeepsMailboxes == Mail!Spec
=============================================================================
