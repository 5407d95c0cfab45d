----------------------------- MODULE CgiGateway -----------------------------
(***************************************************************************)
(* The asynchronous FastCGI gateway (async_cgi/AsyncCommThread.cpp).       *)
(* nginx opens a connection, or keeps one, and sends a request as records: *)
(* begin, parameters, end of input.  The gateway forwards the request to   *)
(* the trace server with the descriptor and the second it began, forgets   *)
(* it, and finds the connection of an answer by these two.  One thread     *)
(* runs every action here.                                                 *)
(*                                                                         *)
(* External: nginx, which multiplexes nothing (fastcgi.h:52-53) and is     *)
(* seen through the records it sends and the answers it gets, and the      *)
(* server, which answers a forwarded request or dies.  Answers on one      *)
(* connection are not kept in order: no handler depends on their order.    *)
(***************************************************************************)
EXTENDS Integers, FiniteSets, Sequences

CONSTANTS Fd,       \* descriptors of connections with nginx
          NReq,     \* bound: browser requests, in the order they are sent
          Known,    \* those whose method is login, setConfig or getLog
          NLinks,   \* bound: connections to the server not closed at a time
          Second,   \* names for the seconds that are remembered
          Timeout,  \* CheckFCGIOvertimeReq's argument, in ticks
          Expired   \* the answer "backend server timeout"

ASSUME CgiAssumption ==
  /\ Fd \subseteq Nat \ {0} /\ NLinks \in Nat \ {0}
  /\ NReq \in Nat /\ Known \subseteq 1 .. NReq /\ Expired \notin 0 .. NReq
  /\ Second \subseteq Nat \ {0}
  /\ IsFiniteSet(Second) /\ Cardinality(Second) > NReq
  /\ Timeout \in Nat

Req == 1 .. NReq
Link == 1 .. NLinks

VARIABLES alive,    \* the process runs
          table,    \* s_ConnMgr.m_mapFdConn: no entry, an entry NULL, or a connection
          codec,    \* m_pCodec of the connection of a descriptor
          pCon,     \* m_pCon: NULL, a block without descriptor, or a connection
          links,    \* the connections to the server
          wire,     \* forwarded and not answered, with the connection taken
          serverUp,
          sec, elapsed,  \* the current second; how long ago a second was
          nginx,    \* the request on a connection and its unread records
          next,     \* the next request to be sent
          asks,     \* history: how often a request was forwarded
          heard     \* history: what the connection of a request received

processVars == <<alive, table, codec>>
serverVars == <<pCon, links, wire, asks>>
timeVars == <<sec, elapsed>>
webVars == <<nginx, next>>
vars == <<processVars, serverVars, serverUp, timeVars, webVars, heard>>

NULL == 0
NoReq == 0
NoFd == -1      \* the descriptor of a block whose connect failed
NoTime == 0

\* What Reset and ResetConnStatus leave of a codec.
Blank == [gotRequest_ |-> FALSE, reqBeginTime_ |-> NoTime, params_ |-> NoReq]
Silent == [req |-> NoReq, left |-> 0]

\* Mutants: the time is kept; the request is kept.
ResetButTime(c) == [Blank EXCEPT !.reqBeginTime_ = c.reqBeginTime_]
ResetTimeOnly(c) == [c EXCEPT !.reqBeginTime_ = NoTime]

\* FastCgiCodec of the connection is reset after an answer.
ResetConnStatus(c) == Blank

----------------------------------------------------------------------------
(* The connection to the server *)

Connected == pCon \in Link

\* What SetupConnection may leave in m_pCon, and of the connections.
CreateProxyConnection ==
  {<<l, [links EXCEPT ![l] = IF serverUp THEN "open" ELSE "dead"]>> :
     l \in {k \in Link : links[k] = "closed" /\ \A j \in 1 .. k - 1 : links[j] # "closed"}}
  \cup IF serverUp THEN {} ELSE {<<NoFd, links>>}

\* A message composed in read_buf may spoil a partly read answer: the gateway
\* is deaf on that connection from then on.
Write(ms) ==
  \/ /\ wire' = wire \cup {[m EXCEPT !.via = pCon] : m \in ms}
     /\ UNCHANGED <<pCon, links>>
  \/ /\ \E m \in wire : m.via = pCon
     /\ links' = [links EXCEPT ![pCon] = "deaf"]
     /\ wire' = {m \in wire : m.via # pCon}
     /\ UNCHANGED pCon

\* Nothing comes back; when the server's end is gone the write may also fail,
\* which releases the connection.
WriteInVain ==
  /\ \/ UNCHANGED <<pCon, links>>
     \/ /\ links[pCon] = "dead"
        /\ pCon' = NULL /\ links' = [links EXCEPT ![pCon] = "closed"]
  /\ UNCHANGED wire

\* Mutant: a block without a descriptor is not released.
SendMsgKeepsBlock(ms) ==
  IF Connected
  THEN /\ IF links[pCon] = "open" THEN Write(ms) ELSE WriteInVain
       /\ asks' = [r \in Req |-> asks[r] + Cardinality({m \in ms : m.req = r})]
  ELSE UNCHANGED <<pCon, links, wire, asks>>

SendMsg(ms) ==
  IF Connected
  THEN /\ IF links[pCon] = "open" THEN Write(ms) ELSE WriteInVain
       /\ asks' = [r \in Req |-> asks[r] + Cardinality({m \in ms : m.req = r})]
  ELSE pCon' = NULL /\ UNCHANGED <<links, wire, asks>>

\* The heartbeat connects when there is no block, then writes; the write to a
\* server that is down may fail, and fails on a block without a descriptor.
SendHeartBeatMsg ==
  /\ alive
  /\ \/ pCon # NULL /\ SendMsg({})
     \/ /\ pCon = NULL
        /\ \/ \E c \in CreateProxyConnection :
                c[1] # NoFd /\ pCon' = c[1] /\ links' = c[2]
           \/ ~serverUp /\ UNCHANGED <<pCon, links>>
        /\ UNCHANGED <<wire, asks>>
  /\ UNCHANGED <<processVars, serverUp, timeVars, webVars, heard>>

\* A connection to the server ended: the server closed it, it has been idle
\* there (nobody sends heartbeats on a forgotten one), or its read buffer is
\* full.  OnNetMsg clears m_pCon, whichever connection it was.
LinkClosed(l) ==
  /\ \/ links[l] \in {"dead", "deaf"}
     \/ links[l] = "open" /\ pCon # l /\ \A m \in wire : m.via # l
  /\ links' = [links EXCEPT ![l] = "closed"]
  /\ wire' = {m \in wire : m.via # l}
  /\ pCon' = NULL
  /\ UNCHANGED <<processVars, asks, serverUp, timeVars, webVars, heard>>

ServerStops ==
  /\ serverUp /\ serverUp' = FALSE
  /\ links' = [l \in Link |-> IF links[l] = "closed" THEN "closed" ELSE "dead"]
  /\ wire' = {}
  /\ UNCHANGED <<processVars, pCon, asks, timeVars, webVars, heard>>

ServerStarts ==
  /\ ~serverUp /\ serverUp' = TRUE
  /\ UNCHANGED <<processVars, serverVars, timeVars, webVars, heard>>

----------------------------------------------------------------------------
(* Connections with nginx and the records of a request *)

\* AllocateConnection: an entry NULL of the descriptor is replaced.
AllocateConnection(fd) ==
  /\ alive /\ table[fd] # "conn"
  /\ table' = [table EXCEPT ![fd] = "conn"]
  /\ UNCHANGED <<alive, codec, serverVars, serverUp, timeVars, webVars, heard>>

Gone(F) ==
  /\ table' = [fd \in Fd |-> IF fd \in F THEN "none" ELSE table[fd]]
  /\ codec' = [fd \in Fd |-> IF fd \in F THEN Blank ELSE codec[fd]]
  /\ nginx' = [fd \in Fd |-> IF fd \in F THEN Silent ELSE nginx[fd]]

\* nginx closes a connection, records of which may never be read.  OnNetMsg
\* clears m_pCon here too: the assertion is compiled out (SConstruct).
ConnectionClosed(fd) ==
  /\ alive /\ table[fd] = "conn"
  /\ Gone({fd})
  /\ pCon' = NULL
  /\ UNCHANGED <<alive, links, wire, asks, serverUp, timeVars, next, heard>>

\* The request whose parameters the codec holds goes to the server.
onRequest(fd, begin) ==
  SendMsg([req : {codec[fd].params_} \cap Known, fd : {fd},
           begin : {begin}, via : {NoFd}])

\* An answer came before the request was complete: to a request that took the
\* descriptor of an abandoned one within the same second.
Early(r) == \E i \in 1 .. Len(heard[r]) : heard[r][i].left > 0

\* nginx sends a request on a new connection, or on one that answered the last
\* request after it was complete.
Ready(fd) ==
  /\ alive /\ table[fd] = "conn" /\ nginx[fd].left = 0
  /\ nginx[fd].req # NoReq =>
       heard[nginx[fd].req] # << >> /\ ~Early(nginx[fd].req)

\* A first record after a complete request repeats that request.
onBeginRequest(fd, r) ==
  LET c == codec[fd]
  IN /\ Ready(fd) /\ r = next
     /\ IF c.gotRequest_ THEN onRequest(fd, c.reqBeginTime_)
                         ELSE UNCHANGED serverVars
     /\ codec' = [codec EXCEPT ![fd] =
          [gotRequest_ |-> FALSE, reqBeginTime_ |-> sec,
           params_ |-> IF c.gotRequest_ THEN NoReq ELSE c.params_]]
     /\ nginx' = [nginx EXCEPT ![fd] = [req |-> r, left |-> 2]]
     /\ next' = next + 1
     /\ UNCHANGED <<alive, table, serverUp, timeVars, heard>>

onParams(fd) ==
  /\ alive /\ nginx[fd].left = 2
  /\ codec' = [codec EXCEPT ![fd].params_ = nginx[fd].req]
  /\ nginx' = [nginx EXCEPT ![fd].left = 1]
  /\ UNCHANGED <<alive, table, serverVars, serverUp, timeVars, next, heard>>

onStdin(fd) ==
  /\ alive /\ nginx[fd].left = 1
  /\ codec' = [codec EXCEPT ![fd].gotRequest_ = TRUE]
  /\ onRequest(fd, codec[fd].reqBeginTime_)
  /\ nginx' = [nginx EXCEPT ![fd].left = 0]
  /\ UNCHANGED <<alive, table, serverUp, timeVars, next, heard>>

----------------------------------------------------------------------------
(* Answers *)

\* nginx receives `what' on fd: for the request it has there, if any, of
\* which `left' records were not read.
Heard(fd, what) ==
  IF nginx[fd].req = NoReq THEN heard
  ELSE [heard EXCEPT ![nginx[fd].req] =
          Append(@, [of |-> what, left |-> nginx[fd].left])]

\* Mutant: only the descriptor is checked.
CheckFd(fd, check_time) == table[fd] = "conn"

CheckConn(fd, check_time) ==
  table[fd] = "conn" /\ codec[fd].reqBeginTime_ = check_time

\* LoginResp, SetConfigResp and GetLogResp.  Looking for the connection makes
\* an entry NULL when the descriptor has none.
Resp(m) ==
  /\ alive /\ m \in wire /\ links[m.via] = "open"
  /\ wire' = wire \ {m}
  /\ table' = [table EXCEPT ![m.fd] = IF @ = "none" THEN "null" ELSE @]
  /\ IF CheckConn(m.fd, m.begin)
     THEN /\ heard' = Heard(m.fd, m.req)
          /\ codec' = [codec EXCEPT ![m.fd] = ResetConnStatus(@)]
     ELSE UNCHANGED <<heard, codec>>
  /\ UNCHANGED <<alive, pCon, links, asks, serverUp, timeVars, webVars>>

\* Mutant: a request is overdue for one tick.
DueNow(c) ==
  /\ c.gotRequest_
  /\ c.reqBeginTime_ = NoTime \/ elapsed[c.reqBeginTime_] = Timeout

Overdue(c) ==
  /\ c.gotRequest_
  /\ c.reqBeginTime_ = NoTime \/ elapsed[c.reqBeginTime_] > Timeout

\* A walk over the map in the order of descriptors up to an entry NULL.
Reached == {fd \in Fd : \A f \in Fd : table[f] = "null" => fd < f}

CheckFCGIOvertimeReq ==
  LET late == {fd \in Reached : Overdue(codec[fd])}
  IN /\ alive /\ late # {}
     /\ codec' = [fd \in Fd |-> IF fd \in late THEN ResetConnStatus(codec[fd])
                                               ELSE codec[fd]]
     /\ heard' = [r \in Req |->
          IF \E fd \in late : nginx[fd].req = r
          THEN Append(heard[r], [of |-> Expired, left |-> 0]) ELSE heard[r]]
     /\ UNCHANGED <<alive, table, serverVars, serverUp, timeVars, webVars>>

\* CheckFDExpireTime(120) closes idle connections: those whose request is
\* pending were answered by the check above long before, or come after an
\* entry NULL.  It follows the entry NULL.
CheckFDExpireTime ==
  \E F \in SUBSET {fd \in Reached : table[fd] = "conn" /\ ~codec[fd].gotRequest_} :
    /\ alive
    /\ IF \E fd \in Fd : table[fd] = "null"
       THEN /\ alive' = FALSE /\ Gone(Fd)
            /\ pCon' = NULL /\ links' = [l \in Link |-> "closed"] /\ wire' = {}
       ELSE Gone(F) /\ UNCHANGED <<alive, pCon, links, wire>>
    /\ UNCHANGED <<asks, serverUp, timeVars, next, heard>>

\* The process is started by hand; OnThreadStarted connects.
OnThreadStarted ==
  /\ ~alive /\ alive' = TRUE
  /\ \E c \in CreateProxyConnection : pCon' = c[1] /\ links' = c[2]
  /\ UNCHANGED <<table, codec, wire, asks, serverUp, timeVars, webVars, heard>>

Remembered == ({codec[fd].reqBeginTime_ : fd \in Fd} \cup {m.begin : m \in wire})
              \ {NoTime}

\* A second passes: the next has the first name nobody remembers.
Tick ==
  LET new == CHOOSE s \in Second \ Remembered :
               \A t \in Second \ Remembered : s <= t
  IN /\ sec' = new
     /\ elapsed' = [s \in Second |->
          IF s \notin Remembered THEN 0
          ELSE IF elapsed[s] > Timeout THEN elapsed[s] ELSE elapsed[s] + 1]
     /\ UNCHANGED <<processVars, serverVars, serverUp, webVars, heard>>

----------------------------------------------------------------------------

CgiInit ==
  /\ alive = TRUE /\ serverUp = TRUE
  /\ table = [fd \in Fd |-> "none"] /\ codec = [fd \in Fd |-> Blank]
  /\ pCon = 1 /\ links = [l \in Link |-> IF l = 1 THEN "open" ELSE "closed"]
  /\ wire = {} /\ asks = [r \in Req |-> 0]
  /\ sec \in Second /\ (\A s \in Second : sec <= s)
  /\ elapsed = [s \in Second |-> 0]
  /\ nginx = [fd \in Fd |-> Silent] /\ next = 1
  /\ heard = [r \in Req |-> << >>]

CgiNext ==
  \/ \E fd \in Fd :
       \/ AllocateConnection(fd) \/ ConnectionClosed(fd)
       \/ onParams(fd) \/ onStdin(fd)
       \/ \E r \in Req : onBeginRequest(fd, r)
  \/ \E m \in wire : Resp(m)
  \/ CheckFCGIOvertimeReq \/ CheckFDExpireTime \/ SendHeartBeatMsg
  \/ OnThreadStarted
  \/ \E l \in Link : LinkClosed(l)
  \/ ServerStops \/ ServerStarts \/ Tick

CgiSpec == CgiInit /\ [][CgiNext]_vars

(***************************************************************************)
(* Time passes, the three timers of OnThreadStarted fire, and the end of a *)
(* connection to the server is noticed: the server closes those that stay  *)
(* idle, after answering what it was asked.  Nothing is owed by nginx.     *)
(***************************************************************************)
CgiFairness ==
  /\ WF_vars(Tick) /\ WF_vars(CheckFCGIOvertimeReq)
  /\ WF_vars(CheckFDExpireTime) /\ WF_vars(SendHeartBeatMsg)
  /\ WF_vars(\E m \in wire : Resp(m))
  /\ WF_vars(\E l \in Link : LinkClosed(l))

FairCgiSpec == CgiSpec /\ CgiFairness

----------------------------------------------------------------------------
(* Properties *)

Told(r, what) == \E i \in 1 .. Len(heard[r]) : heard[r][i].of = what

Steady == {r \in Req : ~Early(r)}

\* A request is forwarded at most once, on kept connections too.
ForwardedOnce == \A r \in Steady : asks[r] <= 1

\* A request is answered at most once, however answers, the timeout and the
\* reuse of descriptors and connections interleave.
AnsweredOnce ==
  \A r \in Steady :
    Cardinality({i \in 1 .. Len(heard[r]) : heard[r][i].of \in Steady \cup {Expired}}) <= 1

\* Once the gateway gave up on a request, no connection gets its answer.
TimeoutsFinal == \A r \in Steady, q \in Req : Told(r, Expired) => ~Told(q, r)

\* A complete request does not stay pending: an answer or the timeout ends
\* it, or the end of its connection or of the gateway does.
EveryRequestEnds ==
  \A fd \in Fd : codec[fd].gotRequest_ ~> ~codec[fd].gotRequest_

\* When the server stays up the gateway has a connection to it, again and
\* again, whatever it forgot.
ServerRegained == <>[](serverUp /\ alive) => []<>Connected

=============================================================================
