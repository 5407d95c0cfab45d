----------------------------- MODULE TraceClient -----------------------------
(***************************************************************************)
(* The C++ trace clients (trace_client/cpp/TraceClientThread.cpp and its   *)
(* example subclass tracelog.cpp), one per process that embeds it.  Every *)
(* action names the client and what the operating system answered: whether *)
(* a connect left a descriptor, whether a write went through.  What the    *)
(* action writes is left in `said'.                                        *)
(***************************************************************************)
EXTENDS Integers, Sequences

CONSTANTS Client,
          GnsName,   \* GnsName[c] is m_gns_name[0]
          SelfAddr,  \* SelfAddr[c] is m_ip_port[0]
          Session, Param, Text,
          SetId      \* the filters with p1 = TRACE_LOG_SET_ID

VARIABLES con,       \* m_pCon: NULL, a block with fd -1, or a connection;
                     \* or how the process ended
          reported,  \* m_has_report_gns
          filters,   \* m_cfgInfos: session -> filter
          said       \* what the last step wrote, per client

clientVars == <<con, reported, filters, said>>

NoFilters == [s \in {} |-> s]

GnsInfoReq(c) ==
  [id |-> "GNS_INFO_REQ", gns_name |-> GnsName[c], ip_port |-> SelfAddr[c]]
LogInfoReq(c, s, t) ==
  [id |-> "LOG_INFO_REQ", session |-> s, gns_name |-> GnsName[c],
   ip_port |-> SelfAddr[c], text |-> t]
HeartBeatMsg == [id |-> "HEARTBEAT_MSG"]

Silent == [c \in Client |-> << >>]
Says(c, m) == said' = [Silent EXCEPT ![c] = <<m>>]

----------------------------------------------------------------------------

\* CreateConnectionToServer: connect, which sets fd or leaves it -1, is only
\* tried when there is no block at all.
Connected(c, connect) == IF con[c] = "null" THEN connect ELSE con[c]

\* SendMsg on a connection; a failed write releases it.
AfterWrite(wrote) == IF wrote THEN "live" ELSE "null"

(***************************************************************************)
(* SendMsg of m on a block in state k.  ReleaseConnection clears           *)
(* m_has_report_gns; fd -1 is "not ready", and no error.                   *)
(***************************************************************************)
SendMsg(c, k, m, wrote) ==
  \/ /\ k = "dead"
     /\ con' = [con EXCEPT ![c] = k]
     /\ said' = Silent
     /\ UNCHANGED reported
  \/ /\ k = "live"
     /\ con' = [con EXCEPT ![c] = AfterWrite(wrote)]
     /\ reported' = [reported EXCEPT ![c] = @ /\ wrote]
     /\ IF wrote THEN Says(c, m) ELSE said' = Silent

(***************************************************************************)
(* ReportSelfInfo.  It does not look at what SendMsg returned, so the flag *)
(* is set after a failed write too, which has just cleared it.             *)
(***************************************************************************)
ReportSelfInfo(c, k, wrote) ==
  \/ /\ k = "dead"
     /\ con' = [con EXCEPT ![c] = k]
     /\ said' = Silent
     /\ UNCHANGED reported
  \/ /\ k = "live"
     /\ con' = [con EXCEPT ![c] = AfterWrite(wrote)]
     /\ reported' = [reported EXCEPT ![c] = TRUE]
     /\ IF wrote THEN Says(c, GnsInfoReq(c)) ELSE said' = Silent

Running(c) == con[c] \in {"null", "dead", "live"}

\* The process is gone.
Stop(c, how) ==
  /\ con' = [con EXCEPT ![c] = how]
  /\ reported' = [reported EXCEPT ![c] = FALSE]
  /\ filters' = [filters EXCEPT ![c] = NoFilters]
  /\ said' = Silent

Crash(c) == Running(c) /\ Stop(c, "off")

(***************************************************************************)
(* The process starts: the constructor leaves m_has_report_gns to chance,  *)
(* then reportSelfInfo connects and reports.                               *)
(***************************************************************************)
Boot(c, garbage, k, wrote) ==
  /\ ~Running(c)
  /\ filters' = [filters EXCEPT ![c] = NoFilters]
  /\ con' = [con EXCEPT ![c] = IF k = "live" THEN AfterWrite(wrote) ELSE k]
  /\ reported' = [reported EXCEPT ![c] = k = "live" \/ garbage]
  /\ IF k = "live" /\ wrote THEN Says(c, GnsInfoReq(c)) ELSE said' = Silent

\* TIMER_ID_CHECK_GNS_REPORT_STATUS.
ReportTimer(c, connect, wrote) ==
  /\ Running(c) /\ ~reported[c]
  /\ ReportSelfInfo(c, Connected(c, connect), wrote)
  /\ UNCHANGED filters

\* TIMER_ID_HEARTBEAT.
HeartBeatTimer(c, connect, wrote) ==
  /\ Running(c)
  /\ SendMsg(c, Connected(c, connect), HeartBeatMsg, wrote)
  /\ UNCHANGED filters

\* The loop of libnframe found the connection closed: ReleaseConnection, and
\* OnNetMsg forgets the block.
ConnectionClosed(c) ==
  /\ con[c] = "live"
  /\ con' = [con EXCEPT ![c] = "null"]
  /\ reported' = [reported EXCEPT ![c] = FALSE]
  /\ said' = Silent
  /\ UNCHANGED filters

----------------------------------------------------------------------------

\* Mutant: an entry that is found is left as it is.
SaveUnlessFound(c, s, p) ==
  [r \in DOMAIN filters[c] \cup {s} |->
     IF r \in DOMAIN filters[c] THEN filters[c][r] ELSE p]

\* "if find same session_id, overwrite, else append"
SaveConfig(c, s, p) ==
  [r \in DOMAIN filters[c] \cup {s} |-> IF r = s THEN p ELSE filters[c][r]]

\* Mutant: nothing is removed.
NotCleared(c, s) == filters[c]

ClearSessionInCfg(c, s) == [r \in DOMAIN filters[c] \ {s} |-> filters[c][r]]

(***************************************************************************)
(* HandleMsg.  A filter of a known kind is saved and answered by a log     *)
(* line, "set trace ... success".  When that write fails m_pCon is NULL by *)
(* the time OnNetMsg asserts that it is the connection it was called for.  *)
(* Of the kinds that a client only sends, it ignores its own.              *)
(***************************************************************************)
HandleMsg(c, m, t, wrote) ==
  \/ /\ m.id = "CFG_INFO_REQ" /\ m.p \in SetId /\ wrote
     /\ filters' = [filters EXCEPT ![c] = SaveConfig(c, m.session, m.p)]
     /\ SendMsg(c, "live", LogInfoReq(c, m.session, t), TRUE)
  \/ /\ m.id = "CFG_INFO_REQ" /\ m.p \in SetId /\ ~wrote
     /\ Stop(c, "aborted")
  \/ /\ m.id = "CLEAR_SESSION_REQ"
     /\ filters' = [filters EXCEPT ![c] = ClearSessionInCfg(c, m.session)]
     /\ said' = Silent
     /\ UNCHANGED <<con, reported>>
  \/ /\ \/ m.id = "CFG_INFO_REQ" /\ m.p \notin SetId
        \/ m.id \in {"HEARTBEAT_MSG", "GNS_INFO_REQ", "LOG_INFO_REQ"}
     /\ said' = Silent
     /\ UNCHANGED <<con, reported, filters>>

(***************************************************************************)
(* One turn of the loops of TLog and TLogIf, in an application thread:     *)
(* other steps come between two turns.                                     *)
(***************************************************************************)
UploadLog(c, s, t, wrote) ==
  /\ con[c] = "live" /\ s \in DOMAIN filters[c]
  /\ SendMsg(c, "live", LogInfoReq(c, s, t), wrote)
  /\ UNCHANGED filters

----------------------------------------------------------------------------

ClientInit ==
  /\ con = [c \in Client |-> "off"]
  /\ reported = [c \in Client |-> FALSE]
  /\ filters = [c \in Client |-> NoFilters]
  /\ said = Silent

ClientTypeOK ==
  /\ con \in [Client -> {"off", "aborted", "null", "dead", "live"}]
  /\ reported \in [Client -> BOOLEAN]
  /\ \A c \in Client : /\ DOMAIN filters[c] \subseteq Session
                       /\ filters[c] \in [DOMAIN filters[c] -> SetId]
                       /\ Len(said[c]) <= 1
=============================================================================
