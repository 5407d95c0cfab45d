----------------------------- MODULE TraceServer -----------------------------
(***************************************************************************)
(* The trace server (trace_server/AsyncCommThread.cpp, helper.cpp): one    *)
(* thread runs an epoll loop and calls one handler at a time, so a handler *)
(* is one action.  The state is the connection table of libnframe          *)
(* (s_ConnMgr.m_mapFdConn), the clients that reported themselves           *)
(* (g_map_fd_cli_info) and the browser sessions with their configurations  *)
(* and stored logs (g_map_session_info).                                   *)
(*                                                                         *)
(* What a handler writes to the sockets is left in `sent', one sequence    *)
(* per connection: a module that composes the server with its peers        *)
(* appends sent' to its channels.                                          *)
(***************************************************************************)
EXTENDS CfgLogs, Ordered

CONSTANTS Fd,             \* descriptors the kernel can hand out
          Session,        \* the uuids the server can generate
          Gns, IpPort,    \* service names and machine addresses
          NoName,         \* the empty string in a gns_name or ip_port field
          Param,          \* the filters <<p1, p2, p3>> of a configuration
          Tag,            \* <<fd, req_begin_time>> of a request of the CGI
          MaxGetLogs,     \* g_conf.maxGetLogs
          SessionExpire,  \* g_conf.sessionExpireSeconds, in ticks
          CheckInterval,  \* TIMER_ID_CHECK_SESSION_INTERVAL, in ticks
          MaxCfgs         \* bound: configurations of one session

ASSUME ServerAssumption ==
  /\ Fd \subseteq Nat /\ IsFiniteSet(Fd) /\ Session \subseteq Nat
  /\ NoName \notin Gns \cup IpPort
  /\ MaxGetLogs \in Nat /\ SessionExpire \in Nat /\ CheckInterval \in Nat

VARIABLES status,      \* "up", or what stopped the process
          conns,       \* per descriptor: no entry, a connection, a NULL entry
          cliInfo,     \* g_map_fd_cli_info: descriptor -> CLIENT_INFO
          sessions,    \* g_map_session_info: session -> SESSION_INFO
          issued,      \* every uuid generated so far, over restarts too
          untilCheck,  \* ticks until the session timer fires
          sent         \* what the last handler wrote, per descriptor

vars == <<status, conns, cliInfo, sessions, issued, untilCheck, sent>>

CLIENT_INFO == [gns_name : Gns, ip_port : IpPort]
CFG == [gns_name : Gns \cup {NoName}, ip_port : IpPort \cup {NoName},
        p : Param, win : LogWindow]
\* `age' is now - active_time.
SESSION_INFO == [cfgs : Seq(CFG), age : Nat]

----------------------------------------------------------------------------
(* Messages *)

CfgInfoReq(s, p) == [id |-> "CFG_INFO_REQ", session |-> s, p |-> p]
ClearSessionReq(s) == [id |-> "CLEAR_SESSION_REQ", session |-> s]
HeartBeat == [id |-> "HEARTBEAT_MSG"]
LoginResp(tag, ids) == [id |-> "LOGIN_RESP", tag |-> tag, session |-> ids]
SetConfResp(tag, ok) == [id |-> "SET_CONF_RESP", tag |-> tag, ok |-> ok]
GetLogResp(tag, ok, logs) ==
  [id |-> "GET_LOG_RESP", tag |-> tag, ok |-> ok, logs |-> logs]

LogText == [gns_name : Gns \cup {NoName}, ip_port : IpPort \cup {NoName},
            text : Seq(Text)]

Msg == [id : {"CFG_INFO_REQ"}, session : Session, p : Param]
  \cup [id : {"CLEAR_SESSION_REQ"}, session : Session]
  \cup [id : {"HEARTBEAT_MSG"}]
  \cup [id : {"LOGIN_RESP"}, tag : Tag, session : SUBSET Session]
  \cup [id : {"SET_CONF_RESP"}, tag : Tag, ok : BOOLEAN]
  \cup [id : {"GET_LOG_RESP"}, tag : Tag, ok : BOOLEAN, logs : Seq(LogText)]

\* An empty std::map.
NoEntries == [x \in {} |-> x]

Nothing == [fd \in Fd |-> << >>]
To(fd, m) == [Nothing EXCEPT ![fd] = <<m>>]
Both(a, b) == [fd \in Fd |-> a[fd] \o b[fd]]

(***************************************************************************)
(* SendMsg for every message of `out', in order.  m_mapFdConn[fd] inserts  *)
(* a NULL entry for a descriptor that has none, and a NULL entry makes     *)
(* SendMsg return ERROR_CONN_NOT_EXIST, which no caller looks at.          *)
(***************************************************************************)
SendMsg(out) ==
  /\ sent' = [fd \in Fd |-> IF conns[fd] = "open" THEN out[fd] ELSE << >>]
  /\ conns' = [fd \in Fd |-> IF conns[fd] = "none" /\ out[fd] # << >>
                             THEN "null" ELSE conns[fd]]

----------------------------------------------------------------------------
(* Lookups *)

\* Mutant: the name is not compared.
EveryFd(gns) == DOMAIN cliInfo

GetFdByGns(gns) == {fd \in DOMAIN cliInfo : cliInfo[fd].gns_name = gns}

\* The lowest descriptor with that address, as a set of at most one.
GetFdByIPPort(ip) ==
  {fd \in DOMAIN cliInfo :
     /\ cliInfo[fd].ip_port = ip
     /\ \A e \in DOMAIN cliInfo : cliInfo[e].ip_port = ip => fd <= e}

\* The positions of the configurations of the sessions of S.
Positions(S) ==
  UNION {{s} \X (1 .. Len(sessions[s].cfgs)) : s \in S}

CfgAt(k) == sessions[k[1]].cfgs[k[2]]

----------------------------------------------------------------------------
(* Connections: libnframe calls these two virtual functions *)

\* Mutant: the erase is missing.
StillWith(fd) == cliInfo

\* g_map_fd_cli_info.erase of one descriptor.
Without(fd) == [e \in DOMAIN cliInfo \ {fd} |-> cliInfo[e]]

AllocateConnection(fd) ==
  /\ status = "up" /\ conns[fd] # "open"
  /\ conns' = [conns EXCEPT ![fd] = "open"]
  /\ cliInfo' = Without(fd)
  /\ sent' = Nothing
  /\ UNCHANGED <<status, sessions, issued, untilCheck>>

\* Mutant: the entry is kept, without a connection.
ReleaseKeepsEntry(fd) ==
  /\ status = "up" /\ conns[fd] = "open"
  /\ conns' = [conns EXCEPT ![fd] = "null"]
  /\ cliInfo' = Without(fd)
  /\ sent' = Nothing
  /\ UNCHANGED <<status, sessions, issued, untilCheck>>

ReleaseConnection(fd) ==
  /\ status = "up" /\ conns[fd] = "open"
  /\ conns' = [conns EXCEPT ![fd] = "none"]
  /\ cliInfo' = Without(fd)
  /\ sent' = Nothing
  /\ UNCHANGED <<status, sessions, issued, untilCheck>>

(***************************************************************************)
(* The process is gone, and with it everything but the uuids it gave out.  *)
(***************************************************************************)
Die(cause) ==
  /\ status' = cause
  /\ conns' = [fd \in Fd |-> "none"]
  /\ cliInfo' = NoEntries
  /\ sessions' = NoEntries
  /\ untilCheck' = CheckInterval
  /\ sent' = Nothing
  /\ UNCHANGED issued

(***************************************************************************)
(* CheckFDExpireTime of libnframe, on the 30 second timer.  It closes the  *)
(* connections that were idle too long and drops them from the table       *)
(* without the virtual ReleaseConnection, so cliInfo keeps them; and it    *)
(* dereferences every entry of the table, a NULL one too.                  *)
(***************************************************************************)
CheckFDExpireTime(idle) ==
  /\ status = "up"
  /\ \A fd \in idle : conns[fd] = "open"
  /\ IF \E fd \in Fd : conns[fd] = "null"
     THEN Die("SIGSEGV")
     ELSE /\ conns' = [fd \in Fd |-> IF fd \in idle THEN "none" ELSE conns[fd]]
          /\ sent' = Nothing
          /\ UNCHANGED <<status, cliInfo, sessions, issued, untilCheck>>

----------------------------------------------------------------------------
(* Messages of trace clients *)

\* GNS_INFO_REQ: remember the client and replay what is configured for it.
UpdateClientInfo(fd, gns, ip) ==
  LET o == InOrder({k \in Positions(DOMAIN sessions) :
                      CfgAt(k).gns_name = gns})
      cfgs == [i \in DOMAIN o |-> CfgInfoReq(o[i][1], CfgAt(o[i]).p)]
  IN /\ status = "up" /\ conns[fd] = "open"
     /\ cliInfo' = [e \in DOMAIN cliInfo \cup {fd} |->
                      IF e = fd THEN [gns_name |-> gns, ip_port |-> ip]
                                ELSE cliInfo[e]]
     /\ SendMsg([Nothing EXCEPT ![fd] = cfgs])
     /\ UNCHANGED <<status, sessions, issued, untilCheck>>

(***************************************************************************)
(* The two storing blocks of SaveLog on one configuration: one for its     *)
(* address and, unless that one met an overload, one for its name.  An     *)
(* overload leaves the loop over the session's configurations.             *)
(***************************************************************************)
AfterAddr(c, ip, t) == IF c.ip_port = ip THEN Offer(c.win, t) ELSE c.win
AddrBreaks(c, ip) == c.ip_port = ip /\ Overloaded(c.win)
NameBreaks(c, gns, ip, t) ==
  c.gns_name = gns /\ Overloaded(AfterAddr(c, ip, t))
Breaks(c, gns, ip, t) == AddrBreaks(c, ip) \/ NameBreaks(c, gns, ip, t)
AfterBoth(c, gns, ip, t) ==
  IF c.gns_name = gns /\ ~AddrBreaks(c, ip)
  THEN Offer(AfterAddr(c, ip, t), t)
  ELSE AfterAddr(c, ip, t)

Stored(cfgs, gns, ip, t) ==
  [i \in 1 .. Len(cfgs) |->
     IF \E j \in 1 .. i - 1 : Breaks(cfgs[j], gns, ip, t)
     THEN cfgs[i]
     ELSE [cfgs[i] EXCEPT !.win = AfterBoth(cfgs[i], gns, ip, t)]]

\* Mutant: an upload counts as a use of the session.
WithLogAndUse(s, gns, ip, t) ==
  [sessions[s] EXCEPT !.cfgs = Stored(@, gns, ip, t), !.age = 0]

WithLog(s, gns, ip, t) == [sessions[s] EXCEPT !.cfgs = Stored(@, gns, ip, t)]

\* LOG_INFO_REQ.
SaveLog(fd, s, gns, ip, t) ==
  /\ status = "up" /\ conns[fd] = "open"
  /\ IF s \in DOMAIN sessions
     THEN /\ sessions' = [sessions EXCEPT ![s] = WithLog(s, gns, ip, t)]
          /\ SendMsg(Nothing)
     ELSE /\ SendMsg(To(fd, ClearSessionReq(s)))
          /\ UNCHANGED sessions
  /\ UNCHANGED <<status, cliInfo, issued, untilCheck>>

\* HEARTBEAT_MSG, from clients and from the CGI.
SendBackHeartBeat(fd) ==
  /\ status = "up" /\ conns[fd] = "open"
  /\ SendMsg(To(fd, HeartBeat))
  /\ UNCHANGED <<status, cliInfo, sessions, issued, untilCheck>>

----------------------------------------------------------------------------
(* Messages of the CGI *)

\* LOGIN_REQ.
LoginLogic(fd, tag, passwordOk) ==
  /\ status = "up" /\ conns[fd] = "open"
  /\ IF passwordOk
     THEN \E s \in Session \ issued :
            /\ issued' = issued \cup {s}
            /\ sessions' = [r \in DOMAIN sessions \cup {s} |->
                              IF r = s THEN [cfgs |-> << >>, age |-> 0]
                                       ELSE sessions[r]]
            /\ SendMsg(To(fd, LoginResp(tag, {s})))
     ELSE /\ SendMsg(To(fd, LoginResp(tag, {})))
          /\ UNCHANGED <<issued, sessions>>
  /\ UNCHANGED <<status, cliInfo, untilCheck>>

\* Mutant: only a configuration with the same name and address is replaced.
KeptUnlessBoth(s, gns, ip) ==
  {k \in Positions({s}) : CfgAt(k).ip_port # ip \/ CfgAt(k).gns_name # gns}

\* The configurations a request with this name and address leaves alone.
Kept(s, gns, ip) ==
  {k \in Positions({s}) :
     /\ ip = NoName \/ CfgAt(k).ip_port # ip
     /\ gns = NoName \/ CfgAt(k).gns_name # gns}

NewCfgs(s, gns, ip, p) ==
  LET o == InOrder(Kept(s, gns, ip))
  IN Append([i \in DOMAIN o |-> CfgAt(o[i])],
            [gns_name |-> gns, ip_port |-> ip, p |-> p, win |-> EmptyWindow])

\* SendCfgInfo2Clients: by address to one machine, else by name to all.
SendCfgInfo2Clients(s, cfgs, gns, ip) ==
  [fd \in Fd |->
     LET o == InOrder({k \in {s} \X (1 .. Len(cfgs)) :
                         IF ip # NoName
                         THEN cfgs[k[2]].ip_port = ip /\ fd \in GetFdByIPPort(ip) /\ fd > 0
                         ELSE cfgs[k[2]].gns_name = gns /\ fd \in GetFdByGns(gns)})
     IN [i \in DOMAIN o |-> CfgInfoReq(s, cfgs[o[i][2]].p)]]

\* SET_CONF_REQ.
SetConfig(fd, tag, s, gns, ip, p) ==
  /\ status = "up" /\ conns[fd] = "open"
  /\ IF s \in DOMAIN sessions
     THEN LET cfgs == NewCfgs(s, gns, ip, p)
          IN /\ Len(cfgs) <= MaxCfgs
             /\ sessions' = [sessions EXCEPT ![s] = [cfgs |-> cfgs, age |-> 0]]
             /\ SendMsg(Both(SendCfgInfo2Clients(s, cfgs, gns, ip),
                             To(fd, SetConfResp(tag, TRUE))))
     ELSE /\ SendMsg(To(fd, SetConfResp(tag, FALSE)))
          /\ UNCHANGED sessions
  /\ UNCHANGED <<status, cliInfo, issued, untilCheck>>

\* Mutant: the limit is not divided.
WholeShare(cfgs) == MaxGetLogs

\* GetLogByGnsEqually: what each configuration may contribute.
Share(cfgs) == MaxGetLogs \div Len(cfgs)

LogTexts(cfgs) ==
  [i \in 1 .. Len(cfgs) |->
     [gns_name |-> cfgs[i].gns_name, ip_port |-> cfgs[i].ip_port,
      text |-> Fetched(cfgs[i].win, Share(cfgs))]]

Remaining(cfgs) ==
  [i \in 1 .. Len(cfgs) |->
     [cfgs[i] EXCEPT !.win = AfterFetch(@, Share(cfgs))]]

(***************************************************************************)
(* GET_LOG_REQ.  The share is an integer division by the number of         *)
(* configurations: a session that has none stops the process.              *)
(***************************************************************************)
GetLog(fd, tag, s) ==
  /\ status = "up" /\ conns[fd] = "open"
  /\ \/ /\ s \notin DOMAIN sessions
        /\ SendMsg(To(fd, GetLogResp(tag, FALSE, << >>)))
        /\ UNCHANGED <<status, cliInfo, sessions, issued, untilCheck>>
     \/ /\ s \in DOMAIN sessions /\ sessions[s].cfgs = << >>
        /\ Die("SIGFPE")
     \/ /\ s \in DOMAIN sessions /\ sessions[s].cfgs # << >>
        /\ SendMsg(To(fd, GetLogResp(tag, TRUE, LogTexts(sessions[s].cfgs))))
        /\ sessions' = [sessions EXCEPT
                          ![s] = [cfgs |-> Remaining(@.cfgs), age |-> 0]]
        /\ UNCHANGED <<status, cliInfo, issued, untilCheck>>

----------------------------------------------------------------------------
(* Timers *)

Expired == {s \in DOMAIN sessions : sessions[s].age > SessionExpire}

\* Whom the expiry of a configuration is told.
Informed(c) == IF c.ip_port # NoName THEN GetFdByIPPort(c.ip_port)
                                     ELSE GetFdByGns(c.gns_name)

\* Mutants: nothing is erased; the iterator skips what follows an erasure.
NoneErased == sessions
OneErased ==
  [s \in DOMAIN sessions \ {e \in Expired : \A x \in Expired : e <= x} |->
     sessions[s]]

Unexpired == [s \in DOMAIN sessions \ Expired |-> sessions[s]]

CheckSessionExpireTime ==
  /\ status = "up" /\ untilCheck = 0
  /\ untilCheck' = CheckInterval
  /\ sessions' = Unexpired
  /\ SendMsg([fd \in Fd |->
                LET o == InOrder({k \in Positions(Expired) :
                                    fd \in Informed(CfgAt(k))})
                IN [i \in DOMAIN o |-> ClearSessionReq(o[i][1])]])
  /\ UNCHANGED <<status, cliInfo, issued>>

\* Time passes; the loop is never so late that a due timer waits a tick.
Tick ==
  /\ status = "up" /\ untilCheck > 0
  /\ untilCheck' = untilCheck - 1
  /\ sessions' = [s \in DOMAIN sessions |-> [sessions[s] EXCEPT !.age = @ + 1]]
  /\ sent' = Nothing
  /\ UNCHANGED <<status, conns, cliInfo, issued>>

Kill == status = "up" /\ Die("killed")

Restart ==
  /\ status # "up"
  /\ status' = "up"
  /\ sent' = Nothing
  /\ UNCHANGED <<conns, cliInfo, sessions, issued, untilCheck>>

----------------------------------------------------------------------------

Init ==
  /\ status = "up"
  /\ conns = [fd \in Fd |-> "none"]
  /\ cliInfo = NoEntries
  /\ sessions = NoEntries
  /\ issued = {}
  /\ untilCheck = CheckInterval
  /\ sent = Nothing

ConnStep == \E fd \in Fd : AllocateConnection(fd) \/ ReleaseConnection(fd)

ClientMsg ==
  \E fd \in Fd, gns \in Gns, ip \in IpPort :
    \/ UpdateClientInfo(fd, gns, ip)
    \/ \E s \in issued, t \in Text : SaveLog(fd, s, gns, ip, t)

CgiMsg ==
  \E fd \in Fd, tag \in Tag :
    \/ \E ok \in BOOLEAN : LoginLogic(fd, tag, ok)
    \/ \E s \in issued : GetLog(fd, tag, s)
    \/ \E s \in issued, gns \in Gns \cup {NoName},
          ip \in IpPort \cup {NoName}, p \in Param :
         SetConfig(fd, tag, s, gns, ip, p)

TimerStep ==
  \/ CheckSessionExpireTime
  \/ \E idle \in SUBSET Fd : CheckFDExpireTime(idle)

Next ==
  \/ ConnStep
  \/ ClientMsg
  \/ CgiMsg
  \/ \E fd \in Fd : SendBackHeartBeat(fd)
  \/ TimerStep
  \/ Tick
  \/ Kill
  \/ Restart

Spec == Init /\ [][Next]_vars

(***************************************************************************)
(* The clock runs and the loop runs the handler of a timer that is due.    *)
(* Nothing is promised of the peers, nor that a stopped server returns.    *)
(***************************************************************************)
FairSpec == Spec /\ WF_vars(Tick) /\ WF_vars(CheckSessionExpireTime)

----------------------------------------------------------------------------
(* Properties *)

IsPartial(f, A, B) == DOMAIN f \subseteq A /\ f \in [DOMAIN f -> B]

\* Every variable has its type, and the live sessions come from a login.
TypeOK ==
  /\ status \in {"up", "SIGFPE", "SIGSEGV", "killed"}
  /\ conns \in [Fd -> {"none", "open", "null"}]
  /\ IsPartial(cliInfo, Fd, CLIENT_INFO)
  /\ IsPartial(sessions, Session, SESSION_INFO)
  /\ DOMAIN sessions \subseteq issued /\ issued \subseteq Session
  /\ untilCheck \in 0 .. CheckInterval
  /\ sent \in [Fd -> Seq(Msg)]

\* However uploads, fetches and overloads alternate, no configuration holds
\* more than maxPerserveLogs logs and log_idx never leaves its vector, which
\* the erase in SaveLog and the walk in GetLogByGnsEqually both rely on.
WindowsSound ==
  \A s \in DOMAIN sessions : \A i \in 1 .. Len(sessions[s].cfgs) :
    WindowOK(sessions[s].cfgs[i].win)

\* SetConfig overwrites: no two configurations of a session share a name or
\* an address, so an upload is kept at most once by name and once by address.
SelectorsDistinct ==
  \A s \in DOMAIN sessions : \A i, j \in 1 .. Len(sessions[s].cfgs) :
    i # j =>
      LET c == sessions[s].cfgs[i]
          d == sessions[s].cfgs[j]
      IN /\ c.gns_name = d.gns_name => c.gns_name = NoName
         /\ c.ip_port = d.ip_port => c.ip_port = NoName

\* A session nobody asks for is dropped at the first check after it expired:
\* none is ever older than the limit by more than one check interval.
SessionAgeBound ==
  \A s \in DOMAIN sessions :
    sessions[s].age <= SessionExpire + CheckInterval - untilCheck

\* What the server tells a client about a session is true when it is told: a
\* filter belongs to a live session, and a session being cleared is gone.
\* A client that clears a live session would never trace for it again.
MessagesMatchSessions ==
  \A fd \in Fd : \A i \in 1 .. Len(sent[fd]) :
    LET m == sent[fd][i]
    IN /\ m.id = "CFG_INFO_REQ" => m.session \in DOMAIN sessions
       /\ m.id = "CLEAR_SESSION_REQ" => m.session \notin DOMAIN sessions

\* An entry NULL of the connection table, which the next descriptor check
\* dies of, exists only for a descriptor whose client is still listed: closed
\* by the idle check, and sent to afterwards.
NullIsListed == \A fd \in Fd : conns[fd] = "null" => fd \in DOMAIN cliInfo

\* One answer to a browser never carries more than maxGetLogs logs, however
\* many configurations share it; and it leaves none of them out that has
\* logs, unless they are more than maxGetLogs: then no fetch ever gets any.
FetchShares ==
  [][\A fd \in Fd, tag \in Tag, s \in DOMAIN sessions :
       GetLog(fd, tag, s) /\ status' = "up" =>
         LET cfgs == sessions[s].cfgs
             logs == sent'[fd][1].logs
             held == UNION {{i} \X DOMAIN logs[i].text : i \in DOMAIN cfgs}
             given == {i \in DOMAIN cfgs : logs[i].text # << >>}
             full == {i \in DOMAIN cfgs : Unread(cfgs[i].win) # << >>}
         IN /\ Cardinality(held) <= MaxGetLogs
            /\ given = IF Len(cfgs) <= MaxGetLogs THEN full ELSE {}]_vars

Used(s) ==
  \E fd \in Fd, tag \in Tag :
    \/ GetLog(fd, tag, s)
    \/ \E gns \in Gns \cup {NoName}, ip \in IpPort \cup {NoName}, p \in Param :
         SetConfig(fd, tag, s, gns, ip, p)

\* A session that no browser uses any more disappears for good, whatever its
\* clients still upload for it.
IdleSessionsEnd ==
  \A s \in Session :
    <>[][~Used(s)]_vars => <>[](s \notin DOMAIN sessions)

----------------------------------------------------------------------------
(* Statements of the repository that the code does not keep *)

\* README.md:21: "Trace Server maintains configs for each session set by
\* Trace Cgi and logs uploaded by each Trace Client".  A fetch for a session
\* that has no configuration yet divides by zero, and every session is lost.
SessionsMaintained ==
  [][\A s \in DOMAIN sessions \ DOMAIN sessions' :
       status' = "killed" \/ sessions[s].age > SessionExpire]_vars
=============================================================================
