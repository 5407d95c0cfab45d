----------------------------- MODULE TraceSystem -----------------------------
(***************************************************************************)
(* The trace server with the C++ trace clients and a browser, over TCP.    *)
(* A slot of Fd is one connection: the server's descriptor, its entry in   *)
(* conns, and the client at the other end.  Either end may go first.  What *)
(* the two ends wrote and the other has not handled is in up and down.     *)
(*                                                                         *)
(* Both ends compose what they send in the read buffer of the connection.  *)
(* When that holds input not handled yet, the input is overwritten.  A     *)
(* message that is as long as the first ones that wait takes their place,  *)
(* and that end handles its own message; after any other one the parser    *)
(* never finds the beginning of a message again, and that end is deaf      *)
(* until its full read buffer closes the connection.                       *)
(***************************************************************************)
EXTENDS TraceServer

CONSTANTS Client, GnsName, SelfAddr, SetId,  \* of TraceClient
          CgiFd,      \* the descriptor of the CGI's connection
          Nobody,     \* the other end is closed
          MaxFlight,  \* bound: messages in flight on a connection, for the
                      \* steps that nobody waits for (not the handlers)
          MaxAsked    \* bound: different configurations ever asked for

ASSUME SystemAssumption ==
  /\ Nobody \notin Client /\ CgiFd \in Fd /\ SetId \subseteq Param
  /\ \A c \in Client : GnsName[c] \in Gns /\ SelfAddr[c] \in IpPort

VARIABLES con, reported, filters, said,  \* of TraceClient
          peer,        \* which client holds the other end of a descriptor
          backlog,     \* connections the server has not accepted yet
          up, down,    \* messages in flight, to and from the server
          deafServer,    \* connections on which the server is deaf
          missedServer,  \* on which its own messages replaced some to it
          deafClient,    \* connections on which the client is deaf
          missedClient,  \* on which its own messages replaced some to it
          asked,  \* history: the configurations browsers ever asked for
          later   \* history: those for an address, by service, asked for
                  \* since one was asked for the whole service

Cl == INSTANCE TraceClient

clientVars == <<con, reported, filters, said>>
serverEnd == <<deafServer, missedServer>>
clientEnd == <<deafClient, missedClient>>
wireVars == <<peer, backlog, up, down, serverEnd, clientEnd>>
history == <<asked, later>>
systemVars == <<vars, clientVars, wireVars, history>>

Links(c) == {fd \in Fd : peer[fd] = c}

\* The server's end of the connection exists.
Alive(fd) == conns[fd] = "open" \/ fd \in backlog

Vacant(fd) == fd # CgiFd /\ conns[fd] # "open" /\ peer[fd] = Nobody

\* The last message of out in the place of the first k of q.
Covered(q, k, out) == <<out[Len(out)]>> \o SubSeq(q, k + 1, Len(q))

----------------------------------------------------------------------------
(* What a client's step does to its connection *)

Open(c, fd) ==
  /\ peer' = [peer EXCEPT ![fd] = c]
  /\ backlog' = backlog \cup {fd}
  /\ up' = [up EXCEPT ![fd] = said'[c]]
  /\ UNCHANGED <<down, serverEnd, clientEnd>>

Close(fd) ==
  /\ peer' = [peer EXCEPT ![fd] = Nobody]
  /\ backlog' = backlog \ {fd}
  /\ up' = [up EXCEPT ![fd] = IF conns[fd] = "open" THEN @ ELSE << >>]
  /\ down' = [down EXCEPT ![fd] = << >>]
  /\ deafClient' = deafClient \ {fd}
  /\ missedClient' = missedClient \ {fd}
  /\ UNCHANGED serverEnd

(***************************************************************************)
(* `rest' is what the client has still to read.  An answer is composed at  *)
(* the front, where the message it answers goes away with what covers it,  *)
(* so only a message of the client's own accord can stay in the place of   *)
(* one that waits.                                                         *)
(***************************************************************************)
Use(c, fd, rest) ==
  /\ up' = [up EXCEPT ![fd] = IF Alive(fd) THEN @ \o said'[c] ELSE @]
  /\ \/ /\ down' = [down EXCEPT ![fd] = rest]
        /\ UNCHANGED clientEnd
     \/ /\ said'[c] # << >> /\ rest # << >>
        /\ down' = [down EXCEPT ![fd] = rest]
        /\ deafClient' = deafClient \cup {fd}
        /\ UNCHANGED missedClient
     \/ /\ said'[c] # << >> /\ rest = down[fd]
        /\ \E k \in 1 .. Len(rest) :
             down' = [down EXCEPT ![fd] = Covered(rest, k, said'[c])]
        /\ missedClient' = missedClient \cup {fd}
        /\ UNCHANGED deafClient
  /\ UNCHANGED <<peer, backlog, serverEnd>>

Over(c, fd, rest) == IF con'[c] = "live" THEN Use(c, fd, rest) ELSE Close(fd)

(***************************************************************************)
(* The wire of a client's step that may connect (k) and write (w).  A      *)
(* block without a descriptor does neither.  With the server down, a       *)
(* connect is refused at once (no descriptor) or later (the write fails).  *)
(* On a connection, a write can only fail when the server's end is gone,   *)
(* and need not fail then.                                                 *)
(***************************************************************************)
Wire(c, k, w) ==
  \/ /\ Links(c) = {} /\ con[c] # "dead" /\ status = "up" /\ k = "live" /\ w
     /\ \E fd \in Fd : Vacant(fd) /\ Open(c, fd)
  \/ /\ Links(c) = {} /\ ~w /\ (con[c] = "dead" \/ status # "up")
     /\ UNCHANGED wireVars
  \/ \E fd \in Links(c) :
       /\ w \/ ~Alive(fd)
       /\ Len(up[fd]) + Len(down[fd]) < MaxFlight
       /\ Over(c, fd, down[fd])

Outcome == {"live", "dead"}

ClientBoots(c) ==
  /\ \E k \in Outcome, w, garbage \in BOOLEAN :
       Cl!Boot(c, garbage, k, w) /\ Wire(c, k, w)
  /\ UNCHANGED <<vars, history>>

ClientReports(c) ==
  /\ \E k \in Outcome, w \in BOOLEAN : Cl!ReportTimer(c, k, w) /\ Wire(c, k, w)
  /\ UNCHANGED <<vars, history>>

ClientBeats(c) ==
  /\ \E k \in Outcome, w \in BOOLEAN : Cl!HeartBeatTimer(c, k, w) /\ Wire(c, k, w)
  /\ UNCHANGED <<vars, history>>

ClientUploads(c, s) ==
  /\ \E t \in Text, w \in BOOLEAN : Cl!UploadLog(c, s, t, w) /\ Wire(c, "live", w)
  /\ UNCHANGED <<vars, history>>

ClientReads(c) ==
  /\ \E fd \in Links(c) :
       /\ down[fd] # << >>
       /\ \/ /\ fd \notin deafClient
             /\ \E t \in Text, w \in BOOLEAN :
                  /\ w \/ ~Alive(fd)
                  /\ Cl!HandleMsg(c, Head(down[fd]), t, w)
             /\ Over(c, fd, Tail(down[fd]))
          \/ /\ fd \in deafClient
             /\ down' = [down EXCEPT ![fd] = Tail(@)]
             /\ UNCHANGED <<clientVars, peer, backlog, up, serverEnd, clientEnd>>
  /\ UNCHANGED <<vars, history>>

\* EPOLLRDHUP, or a read buffer with no room left.
ClientNotices(c) ==
  /\ \E fd \in Links(c) :
       /\ ~Alive(fd) \/ fd \in deafClient
       /\ Cl!ConnectionClosed(c)
       /\ Close(fd)
  /\ UNCHANGED <<vars, history>>

ClientCrashes(c) ==
  /\ Cl!Crash(c)
  /\ IF Links(c) = {} THEN UNCHANGED wireVars ELSE \E fd \in Links(c) : Close(fd)
  /\ UNCHANGED <<vars, history>>

----------------------------------------------------------------------------
(* What a server's step does to the connections *)

Deliver ==
  /\ down' = [fd \in Fd |->
                IF peer[fd] \in Client THEN down[fd] \o sent'[fd] ELSE << >>]
  /\ UNCHANGED <<clientVars, peer, clientEnd>>

Room == \A fd \in Fd : Len(up[fd]) + Len(down'[fd]) <= MaxFlight

\* An answer that is longer than what it answers leaves the server deaf.
Spoil(ins) ==
  /\ \E D \in SUBSET {fd \in Fd : sent'[fd] # << >> /\ ins[fd] # << >>} :
       deafServer' = deafServer \cup D
  /\ UNCHANGED missedServer

\* A message to another connection than the one that is handled, composed
\* over input there (if it has come: it may still be on its way).
Overwrite ==
  LET hit == {fd \in Fd : sent'[fd] # << >> /\ up[fd] # << >>}
  IN \E D \in SUBSET hit : \E M \in SUBSET (hit \ D) : \E k \in [M -> 1 .. MaxFlight] :
       /\ \A fd \in M : k[fd] <= Len(up[fd])
       /\ deafServer' = deafServer \cup D
       /\ missedServer' = missedServer \cup M
       /\ up' = [fd \in Fd |-> IF fd \in M THEN Covered(up[fd], k[fd], sent'[fd])
                                         ELSE up[fd]]

\* The server's end of the connections S is gone.
Forget(S) ==
  /\ up' = [fd \in Fd |-> IF fd \in S THEN << >> ELSE up[fd]]
  /\ deafServer' = deafServer \ S
  /\ missedServer' = missedServer \ S

ServerAccepts(fd) ==
  /\ fd \in backlog
  /\ AllocateConnection(fd)
  /\ backlog' = backlog \ {fd}
  /\ Deliver
  /\ UNCHANGED <<up, serverEnd, history>>

ServerReleases(fd) ==
  /\ fd # CgiFd /\ (peer[fd] = Nobody \/ fd \in deafServer)
  /\ ReleaseConnection(fd)
  /\ Forget({fd})
  /\ Deliver
  /\ UNCHANGED <<backlog, history>>

Handle(fd, m) ==
  \/ m.id = "GNS_INFO_REQ" /\ UpdateClientInfo(fd, m.gns_name, m.ip_port)
  \/ /\ m.id = "LOG_INFO_REQ"
     /\ SaveLog(fd, m.session, m.gns_name, m.ip_port, m.text)
  \/ m.id = "HEARTBEAT_MSG" /\ SendBackHeartBeat(fd)

ServerReads(fd) ==
  /\ up[fd] # << >> /\ conns[fd] = "open"
  /\ up' = [up EXCEPT ![fd] = Tail(@)]
  /\ \/ /\ fd \notin deafServer
        /\ Handle(fd, Head(up[fd]))
        /\ Deliver
        /\ Spoil(up')
     \/ /\ \/ fd \in deafServer
           \/ Head(up[fd]).id \in {"CFG_INFO_REQ", "CLEAR_SESSION_REQ"}
        /\ UNCHANGED <<vars, clientVars, peer, down, serverEnd, clientEnd>>
  /\ UNCHANGED <<backlog, history>>

\* The browser's requests, and what the clients are sent for them.
Ask(s, gns, ip, p) ==
  /\ asked' = asked \cup {<<s, gns, ip, p>>}
  /\ later' = IF ip = NoName
              THEN {a \in later : a[1] # s \/ a[2] # gns}
              ELSE later \cup ({s} \X Gns \X {ip} \X {p})

BrowserSets(s, gns, ip, p) ==
  /\ IF s \in DOMAIN sessions THEN Ask(s, gns, ip, p) ELSE UNCHANGED history
  /\ Cardinality(asked') <= MaxAsked
  /\ \E tag \in Tag : SetConfig(CgiFd, tag, s, gns, ip, p)
  /\ Deliver /\ Room
  /\ Overwrite
  /\ UNCHANGED backlog

CgiConnects ==
  /\ AllocateConnection(CgiFd)
  /\ Deliver
  /\ UNCHANGED <<up, backlog, serverEnd, history>>

BrowserLogsIn ==
  /\ \E tag \in Tag : LoginLogic(CgiFd, tag, TRUE)
  /\ Deliver
  /\ UNCHANGED <<up, backlog, serverEnd, history>>

\* With the process, every connection is gone; what it wrote still arrives.
Drop ==
  /\ Deliver
  /\ backlog' = {}
  /\ Forget(Fd)
  /\ UNCHANGED history

BrowserFetches(s) ==
  /\ \E tag \in Tag : GetLog(CgiFd, tag, s)
  /\ IF status' = "up"
     THEN Deliver /\ UNCHANGED <<up, backlog, serverEnd, history>>
     ELSE Drop

ServerExpires ==
  /\ CheckSessionExpireTime
  /\ Deliver /\ Room
  /\ Overwrite
  /\ UNCHANGED <<backlog, history>>

\* Connections whose client is gone, although the server has not heard so.
\* Nobody else is silent for the 12000 seconds of the idle check: clients and
\* gateway send a heartbeat every 120.
Orphans == {fd \in Fd : fd # CgiFd /\ peer[fd] = Nobody}

\* The server forgets the connections that were idle, but not who they were.
ServerChecksIdle ==
  \E idle \in SUBSET Orphans :
    /\ CheckFDExpireTime(idle)
    /\ IF status' = "up"
       THEN Forget(idle) /\ Deliver /\ UNCHANGED <<backlog, history>>
       ELSE Drop

TimePasses == Tick /\ UNCHANGED <<clientVars, wireVars, history>>

ServerStops == Kill /\ Drop

ServerStarts == Restart /\ UNCHANGED <<clientVars, wireVars, history>>

----------------------------------------------------------------------------

SystemInit ==
  /\ Init /\ Cl!ClientInit
  /\ peer = [fd \in Fd |-> Nobody]
  /\ backlog = {} /\ asked = {} /\ later = {}
  /\ deafServer = {} /\ missedServer = {}
  /\ deafClient = {} /\ missedClient = {}
  /\ up = [fd \in Fd |-> << >>] /\ down = [fd \in Fd |-> << >>]

ClientStep(c) ==
  \/ ClientBoots(c) \/ ClientReports(c) \/ ClientBeats(c)
  \/ ClientReads(c) \/ ClientNotices(c) \/ ClientCrashes(c)
  \/ \E s \in Session : ClientUploads(c, s)

ServerStep ==
  \/ \E fd \in Fd : ServerAccepts(fd) \/ ServerReleases(fd) \/ ServerReads(fd)
  \/ ServerExpires \/ ServerChecksIdle \/ TimePasses \/ ServerStops \/ ServerStarts

BrowserStep ==
  \/ CgiConnects \/ BrowserLogsIn
  \/ \E s \in issued :
       \/ BrowserFetches(s)
       \/ \E gns \in Gns \cup {NoName}, ip \in IpPort \cup {NoName}, p \in Param :
            BrowserSets(s, gns, ip, p)

SystemNext ==
  \/ \E c \in Client : ClientStep(c)
  \/ ServerStep
  \/ BrowserStep

SystemSpec == SystemInit /\ [][SystemNext]_systemVars

(***************************************************************************)
(* Both loops handle what arrives, a connection closed at one end is       *)
(* noticed at the other, the clients' timers fire, and the application     *)
(* keeps tracing, as main.cpp of the client does every ten seconds.  The   *)
(* strong fairness is for steps that the bound MaxFlight may hold up.      *)
(***************************************************************************)
SystemFairness ==
  /\ \A fd \in Fd :
       /\ WF_systemVars(ServerAccepts(fd)) /\ WF_systemVars(ServerReleases(fd))
       /\ WF_systemVars(ServerReads(fd))
  /\ \A c \in Client :
       /\ WF_systemVars(ClientNotices(c)) /\ WF_systemVars(ClientReads(c))
       /\ SF_systemVars(ClientReports(c)) /\ SF_systemVars(ClientBeats(c))
       /\ \A s \in Session : SF_systemVars(ClientUploads(c, s))

FairSystemSpec == SystemSpec /\ SystemFairness

----------------------------------------------------------------------------
(* Properties *)

\* What the server believes of an open connection is what the client at its
\* other end is, however clients crash, reconnect and take over descriptors,
\* and although the idle check leaves behind whom it closed.
ListedAsItIs ==
  \A fd \in DOMAIN cliInfo :
    conns[fd] = "open" /\ peer[fd] \in Client =>
      cliInfo[fd] = [gns_name |-> GnsName[peer[fd]], ip_port |-> SelfAddr[peer[fd]]]

\* A client traces only what some browser asked of its service or machine.
OnlyAsked ==
  \A c \in Client : \A s \in DOMAIN filters[c] :
    \E a \in asked : /\ a[1] = s /\ a[4] = filters[c][s]
                     /\ a[2] = GnsName[c] \/ a[3] = SelfAddr[c]

\* cfg is for the whole service of c, and of a kind that c knows.
ForServiceOf(c, cfg) ==
  cfg.gns_name = GnsName[c] /\ cfg.ip_port = NoName /\ cfg.p \in SetId

\* c reported itself on fd, and everything the server wrote to it is handled.
UpToDate(c, fd) ==
  peer[fd] = c /\ conns[fd] = "open" /\ fd \in DOMAIN cliInfo /\ down[fd] = << >>

\* A client keeps one filter per session.  Filter v is what it has when the
\* last setting for its service is cfg: that of cfg, or one that was asked for
\* its address since.
Right(c, s, cfg, v) ==
  v = cfg.p \/ <<s, GnsName[c], SelfAddr[c], v>> \in later

\* A configuration set for a service is at work in every client of it that
\* has reported itself and kept its place in the stream of messages, in
\* whatever order configurations were set, replaced, reported, cleared and
\* set again: its filter is the client's, unless a later setting for the
\* client's address took its place.
ConfigsAtWork ==
  \A c \in Client, fd \in Fd \ (deafClient \cup missedClient), s \in DOMAIN sessions :
    \A i \in 1 .. Len(sessions[s].cfgs) :
      LET cfg == sessions[s].cfgs[i]
      IN UpToDate(c, fd) /\ ForServiceOf(c, cfg) =>
           s \in DOMAIN filters[c] /\ Right(c, s, cfg, filters[c][s])

\* A running client never drops the filter of a session that is still alive.
LiveFiltersKept ==
  [][\A c \in Client : Cl!Running(c)' =>
       DOMAIN filters[c] \cap DOMAIN sessions' \subseteq DOMAIN filters'[c]]_systemVars

\* Connected, and both ends in step with the stream of messages.
Tuned(c) ==
  \E fd \in Links(c) :
    /\ conns[fd] = "open"
    /\ fd \notin deafServer \cup missedServer \cup deafClient \cup missedClient

\* A client that stays connected ends the tracing of every session that is
\* gone, although the server may have told nobody: its uploads find out.
StaleFiltersEnd ==
  \A c \in Client :
    <>[]Tuned(c) => <>[](DOMAIN filters[c] \subseteq DOMAIN sessions)
=============================================================================
