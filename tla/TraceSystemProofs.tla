------------------------- MODULE TraceSystemProofs -------------------------
(***************************************************************************)
(* Safety of the server, its clients and a browser together, for every set *)
(* of clients, descriptors, names and sessions.  One inductive invariant,  *)
(* SystemInv, carries every property: it says what may be in flight on a   *)
(* connection, in terms of who is at the client's end, of what browsers    *)
(* asked and of which sessions are over.                                   *)
(***************************************************************************)
EXTENDS TraceSystem, TraceServerProofs

\* What client c may write while the sessions of `iss' were issued.
Sayings(c, iss) ==
  {Cl!GnsInfoReq(c), Cl!HeartBeatMsg}
  \cup {Cl!LogInfoReq(c, k[1], k[2]) : k \in iss \X Text}

\* What the server may find of its own, where a client's message was.
Own ==
  [id : {"CFG_INFO_REQ"}, session : Session, p : Param]
  \cup [id : {"CLEAR_SESSION_REQ"}, session : Session]

\* Whose messages may be on their way up a connection.
Writers(fd) == IF peer[fd] \in Client THEN {peer[fd]} ELSE Client
Written(fd) == Own \cup UNION {Sayings(c, issued) : c \in Writers(fd)}

\* What client c may be told when `ask' was asked and `gone' is over.
Concerning(c, ask) == {a \in ask : a[2] = GnsName[c] \/ a[3] = SelfAddr[c]}
Chatter(gone) == {HeartBeat} \cup {ClearSessionReq(s) : s \in gone}
Tellings(c, ask, gone) ==
  Chatter(gone) \cup {CfgInfoReq(a[1], a[4]) : a \in Concerning(c, ask)}

Ended == issued \ DOMAIN sessions

\* What c may find on its connection: its own messages too, after it covered
\* with one what the server had written.
Found(c) == Tellings(c, asked, Ended) \cup Sayings(c, issued)

\* The selectors and filters of a list of configurations.
Rows(cfgs) ==
  {<<cfgs[i].gns_name, cfgs[i].ip_port, cfgs[i].p>> : i \in 1 .. Len(cfgs)}

\* A row that asks the whole service of c for what c can do.
Serves(r, c) == r[1] = GnsName[c] /\ r[2] = NoName /\ r[3] \in SetId

\* A client is at the end of one connection at most, and runs.
Linked ==
  /\ con \in [Client -> {"off", "aborted", "null", "dead", "live"}]
  /\ peer \in [Fd -> Client \cup {Nobody}] /\ peer[CgiFd] = Nobody
  /\ \A fd \in Fd : peer[fd] \in Client => con[peer[fd]] = "live"
  /\ \A fd, e \in Fd : peer[fd] \in Client /\ peer[e] = peer[fd] => e = fd

Filtered ==
  /\ DOMAIN filters = Client
  /\ \A c \in Client : /\ DOMAIN filters[c] \subseteq issued
                       /\ ~Cl!Running(c) => filters[c] = Cl!NoFilters

GoingUp ==
  /\ DOMAIN up = Fd /\ up[CgiFd] = << >>
  /\ \A fd \in Fd : up[fd] \in Seq(Written(fd))

GoingDown ==
  /\ DOMAIN down = Fd
  /\ \A fd \in Fd : /\ peer[fd] \in Client => down[fd] \in Seq(Found(peer[fd]))
                    /\ peer[fd] \notin Client => down[fd] = << >>

\* Every configuration was asked for.
Recorded ==
  /\ IsFiniteSet(DOMAIN sessions)
  /\ asked \subseteq issued \X (Gns \cup {NoName}) \X (IpPort \cup {NoName}) \X Param
  /\ \A s \in DOMAIN sessions : \A r \in Rows(sessions[s].cfgs) :
       <<s, r[1], r[2], r[3]>> \in asked

(***************************************************************************)
(* The filters that c may have for s, when the last setting for its        *)
(* service was p and `lat' was set for addresses since.                    *)
(***************************************************************************)
Fitting(c, s, p, lat) ==
  {v \in SetId : v = p \/ <<s, GnsName[c], SelfAddr[c], v>> \in lat}

Has(c, s, V) == s \in DOMAIN filters[c] /\ filters[c][s] \in V

Sets(m, s, V) == \E v \in V : m = CfgInfoReq(s, v)
Strays(m, s, V) == Sets(m, s, SetId \ V)

\* Whoever reads q ends with a filter of V for s: the last one of q is in V,
\* or none of q is outside of it and `had' says that it had one before.
EndsIn(q, had, s, V) ==
  \E k \in 0 .. Len(q) :
    /\ IF k = 0 THEN had ELSE Sets(q[k], s, V)
    /\ \A j \in k + 1 .. Len(q) : ~Strays(q[j], s, V)

Hears(fd, s, p) ==
  LET c == peer[fd]
      V == Fitting(c, s, p, later)
  IN EndsIn(down[fd], Has(c, s, V), s, V)

AtWork ==
  \A fd \in DOMAIN cliInfo \ (deafClient \cup missedClient), s \in DOMAIN sessions :
    \A r \in Rows(sessions[s].cfgs) :
      conns[fd] = "open" /\ peer[fd] \in Client /\ Serves(r, peer[fd]) =>
        Hears(fd, s, r[3])

SystemInv ==
  /\ IInv /\ AllDistinct /\ Linked /\ Filtered /\ GoingUp /\ GoingDown
  /\ ListedAsItIs /\ Recorded /\ OnlyAsked /\ AtWork

----------------------------------------------------------------------------
(* The filter that the messages of a sequence leave *)

LEMMA SeqMono ==
  ASSUME NEW A, NEW B, A \subseteq B, NEW q \in Seq(A)
  PROVE  q \in Seq(B)
<1>1. /\ Len(q) \in Nat /\ q = [i \in 1 .. Len(q) |-> q[i]]
      /\ \A i \in 1 .. Len(q) : q[i] \in A
  OBVIOUS
<1>2. \A i \in 1 .. Len(q) : q[i] \in B
  BY <1>1
<1> DEFINE n == Len(q)
<1> HIDE DEF n
<1>3. [i \in 1 .. n |-> q[i]] \in Seq(B)
  BY <1>1, <1>2 DEF n
<1>4. QED BY <1>1, <1>3 DEF n

LEMMA EndsMono ==
  ASSUME NEW q, NEW h, NEW had, h => had, NEW s, NEW V, NEW W, V \subseteq W,
         EndsIn(q, h, s, V)
  PROVE  EndsIn(q, had, s, W)
<1>1. \A m : /\ Sets(m, s, V) => Sets(m, s, W)
             /\ Strays(m, s, W) => Strays(m, s, V)
  BY DEF Sets, Strays
<1>2. QED BY <1>1 DEF EndsIn

\* Nothing strays, and the filter was there before or comes.
LEMMA EndsAll ==
  ASSUME NEW q, Len(q) \in Nat, NEW had, NEW s, NEW V,
         \A j \in 1 .. Len(q) : ~Strays(q[j], s, V),
         had \/ \E j \in 1 .. Len(q) : Sets(q[j], s, V)
  PROVE  EndsIn(q, had, s, V)
<1>1. CASE had
  <2>1. 0 \in 0 .. Len(q) /\ \A j \in 0 + 1 .. Len(q) : j \in 1 .. Len(q)
    OBVIOUS
  <2>2. QED BY <1>1, <2>1 DEF EndsIn
<1>2. ASSUME NEW k \in 1 .. Len(q), Sets(q[k], s, V) PROVE EndsIn(q, had, s, V)
  <2>1. k \in 0 .. Len(q) /\ k # 0 /\ \A j \in k + 1 .. Len(q) : j \in 1 .. Len(q)
    OBVIOUS
  <2>2. QED BY <1>2, <2>1 DEF EndsIn
<1>3. QED BY <1>1, <1>2

LEMMA EndsEmpty ==
  ASSUME NEW q, q = << >>, NEW had, NEW s, NEW V
  PROVE  EndsIn(q, had, s, V) <=> had
<1>1. Len(q) = 0 /\ 0 .. Len(q) = {0} /\ \A j : j \notin 0 + 1 .. Len(q)
  OBVIOUS
<1>2. QED BY <1>1 DEF EndsIn

\* Reading q and then r.
LEMMA EndsConcat ==
  ASSUME NEW T, NEW q \in Seq(T), NEW r \in Seq(T), NEW had, NEW s, NEW V,
         EndsIn(r, EndsIn(q, had, s, V), s, V)
  PROVE  EndsIn(q \o r, had, s, V)
<1> DEFINE c == q \o r
           n == Len(q)
           m == Len(r)
<1>1. /\ n \in Nat /\ m \in Nat /\ Len(c) = n + m
      /\ \A i \in 1 .. n : c[i] = q[i]
      /\ \A i \in n + 1 .. n + m : i - n \in 1 .. m /\ c[i] = r[i - n]
      /\ \A i \in 1 .. m : c[n + i] = r[i]
  OBVIOUS
<1>2. PICK k \in 0 .. m :
        /\ IF k = 0 THEN EndsIn(q, had, s, V) ELSE Sets(r[k], s, V)
        /\ \A j \in k + 1 .. m : ~Strays(r[j], s, V)
  BY DEF EndsIn
<1> HIDE DEF c, n, m
<1>3. CASE k = 0
  <2>1. PICK l \in 0 .. n :
          /\ IF l = 0 THEN had ELSE Sets(q[l], s, V)
          /\ \A j \in l + 1 .. n : ~Strays(q[j], s, V)
    BY <1>2, <1>3 DEF EndsIn, n
  <2>2. l \in 0 .. Len(c) /\ (l = 0 \/ c[l] = q[l])
    BY <1>1
  <2>3. ASSUME NEW j \in l + 1 .. Len(c) PROVE ~Strays(c[j], s, V)
    <3>1. CASE j <= n
      <4>1. j \in l + 1 .. n /\ c[j] = q[j]
        BY <1>1, <3>1
      <4>2. QED BY <2>1, <4>1
    <3>2. CASE ~(j <= n)
      <4>1. j - n \in k + 1 .. m /\ c[j] = r[j - n]
        BY <1>1, <1>3, <3>2
      <4>2. QED BY <1>2, <4>1
    <3>3. QED BY <3>1, <3>2
  <2>4. IF l = 0 THEN had ELSE Sets(c[l], s, V)
    BY <2>1, <2>2
  <2>5. EndsIn(c, had, s, V)
    BY <2>2, <2>3, <2>4 DEF EndsIn
  <2>6. QED BY <2>5 DEF c
<1>4. CASE k # 0
  <2> DEFINE l == n + k
  <2>1. l \in 0 .. Len(c) /\ l # 0 /\ c[l] = r[k]
    BY <1>1, <1>4
  <2>2. Sets(r[k], s, V)
    BY <1>2, <1>4
  <2>3. ASSUME NEW j \in l + 1 .. Len(c) PROVE ~Strays(c[j], s, V)
    <3>1. j - n \in k + 1 .. m /\ c[j] = r[j - n]
      BY <1>1
    <3>2. QED BY <1>2, <3>1
  <2> HIDE DEF l
  <2>4. IF l = 0 THEN had ELSE Sets(c[l], s, V)
    BY <2>1, <2>2
  <2>5. EndsIn(c, had, s, V)
    BY <2>1, <2>3, <2>4 DEF EndsIn
  <2>6. QED BY <2>5 DEF c
<1>5. QED BY <1>3, <1>4

\* Reading the first message of q.
LEMMA EndsTail ==
  ASSUME NEW T, NEW q \in Seq(T), q # << >>, NEW h, NEW had, NEW s, NEW V,
         EndsIn(q, h, s, V),
         Sets(Head(q), s, V) \/ (h /\ ~Strays(Head(q), s, V)) => had
  PROVE  EndsIn(Tail(q), had, s, V)
<1> DEFINE r == Tail(q)
           n == Len(q)
<1>1. /\ n \in Nat \ {0} /\ Len(r) = n - 1 /\ Head(q) = q[1]
      /\ \A i \in 1 .. n - 1 : r[i] = q[i + 1]
  OBVIOUS
<1>2. PICK k \in 0 .. n : /\ IF k = 0 THEN h ELSE Sets(q[k], s, V)
                          /\ \A j \in k + 1 .. n : ~Strays(q[j], s, V)
  BY DEF EndsIn
<1> HIDE DEF r, n
<1>3. CASE k \in {0, 1}
  <2>1. ASSUME NEW j \in 0 + 1 .. Len(r) PROVE ~Strays(r[j], s, V)
    <3>1. j \in 1 .. n - 1 /\ j + 1 \in k + 1 .. n
      BY <1>1, <1>3
    <3>2. r[j] = q[j + 1]
      BY <1>1, <3>1
    <3>3. QED BY <1>2, <3>1, <3>2
  <2>2. had
    <3>1. CASE k = 0
      <4>1. 1 \in k + 1 .. n
        BY <1>1, <3>1
      <4>2. QED BY <1>1, <1>2, <3>1, <4>1
    <3>2. CASE k = 1
      BY <1>1, <1>2, <3>2
    <3>3. QED BY <1>3, <3>1, <3>2
  <2>3. 0 \in 0 .. Len(r)
    BY <1>1
  <2>4. EndsIn(r, had, s, V)
    BY <2>1, <2>2, <2>3 DEF EndsIn
  <2>5. QED BY <2>4 DEF r
<1>4. CASE k \notin {0, 1}
  <2> DEFINE l == k - 1
  <2>1. l \in 0 .. Len(r) /\ l # 0 /\ r[l] = q[k]
    BY <1>1, <1>4
  <2>2. Sets(q[k], s, V)
    BY <1>2, <1>4
  <2>3. \A j \in l + 1 .. Len(r) : ~Strays(r[j], s, V)
    <3>1. \A j \in l + 1 .. Len(r) : j + 1 \in k + 1 .. n /\ r[j] = q[j + 1]
      BY <1>1, <1>4
    <3>2. QED BY <1>2, <3>1
  <2> HIDE DEF l
  <2>4. IF l = 0 THEN had ELSE Sets(r[l], s, V)
    BY <2>1, <2>2
  <2>5. EndsIn(r, had, s, V)
    BY <2>1, <2>3, <2>4 DEF EndsIn
  <2>6. QED BY <2>5 DEF r
<1>5. QED BY <1>3, <1>4

\* One message in the place of the first ones.
LEMMA CoveredIn ==
  ASSUME NEW T, NEW q \in Seq(T), NEW k \in 1 .. Len(q), NEW out,
         out[Len(out)] \in T
  PROVE  Covered(q, k, out) \in Seq(T)
<1> DEFINE m == out[Len(out)]
           r == SubSeq(q, k + 1, Len(q))
<1>1. r \in Seq(T)
  <2>1. k + 1 \in Nat /\ Len(q) \in Nat /\ 1 <= k + 1
    OBVIOUS
  <2>2. QED BY <2>1, SubSeqType
<1>2. m \in T
  OBVIOUS
<1> HIDE DEF m, r
<1>3. <<m>> \o r \in Seq(T)
  BY <1>1, <1>2
<1>4. QED BY <1>3 DEF Covered, m, r

----------------------------------------------------------------------------
(* A step of the system is a step of the server *)

LEMMA HeadSaid ==
  ASSUME GoingUp, NEW fd \in Fd, up[fd] # << >>
  PROVE  /\ Tail(up[fd]) \in Seq(Written(fd))
         /\ \/ Head(up[fd]) \in Own
            \/ \E c \in Client : /\ peer[fd] \in Client => c = peer[fd]
                                 /\ Head(up[fd]) \in Sayings(c, issued)
<1>1. up[fd] \in Seq(Written(fd))
  BY DEF GoingUp
<1>2. Head(up[fd]) \in Written(fd) /\ Tail(up[fd]) \in Seq(Written(fd))
  <2> HIDE DEF Written
  <2>1. QED BY <1>1
<1>3. QED BY <1>2 DEF Written, Writers

LEMMA Handled ==
  ASSUME NEW fd \in Fd, NEW c \in Client, NEW m \in Sayings(c, issued), Handle(fd, m)
  PROVE  \/ UpdateClientInfo(fd, GnsName[c], SelfAddr[c])
         \/ \E s \in issued, t \in Text : SaveLog(fd, s, GnsName[c], SelfAddr[c], t)
         \/ SendBackHeartBeat(fd)
<1>1. CASE m = Cl!GnsInfoReq(c)
  <2>1. m.id = "GNS_INFO_REQ" /\ m.gns_name = GnsName[c] /\ m.ip_port = SelfAddr[c]
    BY <1>1 DEF Cl!GnsInfoReq
  <2>2. QED BY <2>1 DEF Handle
<1>2. CASE m = Cl!HeartBeatMsg
  <2>1. m.id = "HEARTBEAT_MSG"
    BY <1>2 DEF Cl!HeartBeatMsg
  <2>2. QED BY <2>1 DEF Handle
<1>3. ASSUME NEW s \in issued, NEW t \in Text, m = Cl!LogInfoReq(c, s, t)
      PROVE  SaveLog(fd, s, GnsName[c], SelfAddr[c], t)
  <2>1. /\ m.id = "LOG_INFO_REQ" /\ m.session = s /\ m.gns_name = GnsName[c]
        /\ m.ip_port = SelfAddr[c] /\ m.text = t
    BY <1>3 DEF Cl!LogInfoReq
  <2>2. QED BY <2>1 DEF Handle
<1>4. QED BY <1>1, <1>2, <1>3 DEF Sayings

\* What the server handles is a message of the client that wrote it.
LEMMA ReadIsServer ==
  ASSUME GoingUp, NEW fd \in Fd, up[fd] # << >>, Handle(fd, Head(up[fd]))
  PROVE  \E c \in Client :
           /\ peer[fd] \in Client => c = peer[fd]
           /\ \/ UpdateClientInfo(fd, GnsName[c], SelfAddr[c])
              \/ \E s \in issued, t \in Text : SaveLog(fd, s, GnsName[c], SelfAddr[c], t)
              \/ SendBackHeartBeat(fd)
<1>1. Head(up[fd]).id \in {"GNS_INFO_REQ", "LOG_INFO_REQ", "HEARTBEAT_MSG"}
  BY DEF Handle
<1>2. Head(up[fd]) \notin Own
  BY <1>1 DEF Own
<1>3. PICK c \in Client : /\ peer[fd] \in Client => c = peer[fd]
                          /\ Head(up[fd]) \in Sayings(c, issued)
  BY <1>2, HeadSaid
<1>4. QED BY <1>3, Handled

LEMMA StepIsServer == GoingUp /\ [SystemNext]_systemVars => [Next]_vars
<1> SUFFICES ASSUME GoingUp, [SystemNext]_systemVars PROVE [Next]_vars
  OBVIOUS
<1>1. ASSUME NEW c \in Client, ClientStep(c) PROVE UNCHANGED vars
  BY <1>1 DEF ClientStep, ClientBoots, ClientReports, ClientBeats, ClientReads,
              ClientNotices, ClientCrashes, ClientUploads
<1>2. ASSUME NEW fd \in Fd, ServerAccepts(fd) \/ ServerReleases(fd) PROVE Next
  BY <1>2 DEF ServerAccepts, ServerReleases, Next, ConnStep
<1>3. ASSUME NEW fd \in Fd, ServerReads(fd) PROVE [Next]_vars
  <2>1. CASE UNCHANGED vars
    BY <2>1
  <2>2. CASE up[fd] # << >> /\ Handle(fd, Head(up[fd]))
    <3>1. PICK c \in Client :
            \/ UpdateClientInfo(fd, GnsName[c], SelfAddr[c])
            \/ \E s \in issued, t \in Text : SaveLog(fd, s, GnsName[c], SelfAddr[c], t)
            \/ SendBackHeartBeat(fd)
      BY <2>2, ReadIsServer
    <3>2. GnsName[c] \in Gns /\ SelfAddr[c] \in IpPort
      BY SystemAssumption
    <3>3. QED BY <3>1, <3>2 DEF Next, ClientMsg
  <2>3. QED BY <1>3, <2>1, <2>2 DEF ServerReads
<1>4. CASE ServerExpires \/ ServerChecksIdle \/ TimePasses \/ ServerStops \/ ServerStarts
  <2>1. Orphans \subseteq Fd
    BY DEF Orphans
  <2>2. QED
    BY <1>4, <2>1 DEF ServerExpires, ServerChecksIdle, TimePasses, ServerStops, ServerStarts,
                      Next, TimerStep
<1>5. CASE BrowserStep
  <2>1. CgiFd \in Fd /\ TRUE \in BOOLEAN
    BY SystemAssumption
  <2>2. CASE CgiConnects \/ BrowserLogsIn
    BY <2>1, <2>2 DEF CgiConnects, BrowserLogsIn, Next, ConnStep, CgiMsg
  <2>3. ASSUME NEW s \in issued, BrowserFetches(s) PROVE Next
    BY <2>1, <2>3 DEF BrowserFetches, Next, CgiMsg
  <2>4. ASSUME NEW s \in issued, NEW gns \in Gns \cup {NoName},
               NEW ip \in IpPort \cup {NoName}, NEW p \in Param, BrowserSets(s, gns, ip, p)
        PROVE  Next
    BY <2>1, <2>4 DEF BrowserSets, Next, CgiMsg
  <2>5. QED BY <1>5, <2>2, <2>3, <2>4 DEF BrowserStep
<1>6. CASE UNCHANGED systemVars
  BY <1>6 DEF systemVars
<1>7. QED BY <1>1, <1>2, <1>3, <1>4, <1>5, <1>6 DEF SystemNext, ServerStep

----------------------------------------------------------------------------
(* What a step of the server does to the sessions and their configurations *)

\* No configuration of the next state is new.
RowsKept ==
  \A s \in DOMAIN sessions' : \A r \in Rows(sessions'[s].cfgs) :
    s \in DOMAIN sessions /\ r \in Rows(sessions[s].cfgs)

LEMMA SameRows ==
  ASSUME NEW a, NEW b, Len(b) = Len(a),
         \A i \in 1 .. Len(a) : /\ b[i].gns_name = a[i].gns_name
                                /\ b[i].ip_port = a[i].ip_port /\ b[i].p = a[i].p
  PROVE  Rows(b) = Rows(a)
BY DEF Rows

LEMMA WinReplaced ==
  ASSUME NEW c \in SoundCFG, NEW w
  PROVE  LET d == [c EXCEPT !.win = w]
         IN  d.gns_name = c.gns_name /\ d.ip_port = c.ip_port /\ d.p = c.p
BY DEF SoundCFG, CFG

LEMMA StoredRows ==
  ASSUME NEW cfgs \in Seq(SoundCFG), NEW gns, NEW ip, NEW t \in Text
  PROVE  Rows(Stored(cfgs, gns, ip, t)) = Rows(cfgs)
<1> DEFINE st == Stored(cfgs, gns, ip, t)
<1>1. Len(st) = Len(cfgs)
  BY StoredOK
<1>2. ASSUME NEW i \in 1 .. Len(cfgs)
      PROVE  /\ st[i].gns_name = cfgs[i].gns_name
             /\ st[i].ip_port = cfgs[i].ip_port /\ st[i].p = cfgs[i].p
  <2> DEFINE c == cfgs[i]
             w == AfterBoth(c, gns, ip, t)
  <2>1. c \in SoundCFG
    OBVIOUS
  <2>2. st[i] = c \/ st[i] = [c EXCEPT !.win = w]
    BY DEF Stored
  <2> HIDE DEF c, w, st
  <2> DEFINE d == [c EXCEPT !.win = w]
  <2>3. d.gns_name = c.gns_name /\ d.ip_port = c.ip_port /\ d.p = c.p
    BY <2>1, WinReplaced
  <2> HIDE DEF d
  <2>4. st[i].gns_name = c.gns_name /\ st[i].ip_port = c.ip_port /\ st[i].p = c.p
    BY <2>2, <2>3 DEF d
  <2>5. QED BY <2>4 DEF c
<1> HIDE DEF st
<1>3. Rows(st) = Rows(cfgs)
  BY <1>1, <1>2, SameRows
<1>4. QED BY <1>3 DEF st

LEMMA RemainingRows ==
  ASSUME NEW cfgs \in Seq(SoundCFG), cfgs # << >>
  PROVE  Rows(Remaining(cfgs)) = Rows(cfgs)
<1> DEFINE rest == Remaining(cfgs)
<1>1. Len(rest) = Len(cfgs)
  BY RemainingOK
<1>2. ASSUME NEW i \in 1 .. Len(cfgs)
      PROVE  /\ rest[i].gns_name = cfgs[i].gns_name
             /\ rest[i].ip_port = cfgs[i].ip_port /\ rest[i].p = cfgs[i].p
  <2> DEFINE c == cfgs[i]
             w == AfterFetch(c.win, Share(cfgs))
  <2>1. c \in SoundCFG
    OBVIOUS
  <2>2. rest[i] = [c EXCEPT !.win = w]
    BY DEF Remaining
  <2> HIDE DEF rest, c, w
  <2>3. rest[i].gns_name = c.gns_name /\ rest[i].ip_port = c.ip_port /\ rest[i].p = c.p
    BY <2>1, <2>2, WinReplaced
  <2>4. QED BY <2>3 DEF c
<1> HIDE DEF rest
<1>3. Rows(rest) = Rows(cfgs)
  BY <1>1, <1>2, SameRows
<1>4. QED BY <1>3 DEF rest

\* One session's configurations were replaced by some with the same rows.
LEMMA OneSame ==
  ASSUME NEW s \in DOMAIN sessions, NEW r, sessions' = [sessions EXCEPT ![s] = r],
         Rows(r.cfgs) = Rows(sessions[s].cfgs)
  PROVE  RowsKept
<1>1. \A q \in DOMAIN sessions' : q \in DOMAIN sessions
        /\ sessions'[q] = IF q = s THEN r ELSE sessions[q]
  OBVIOUS
<1>2. QED BY <1>1 DEF RowsKept

LEMMA SaveLogRows ==
  ASSUME IInv, NEW fd \in Fd, NEW s \in issued, NEW gns, NEW ip, NEW t \in Text,
         SaveLog(fd, s, gns, ip, t)
  PROVE  RowsKept
<1>1. CASE s \in DOMAIN sessions
  <2> DEFINE r == WithLog(s, gns, ip, t)
             cfgs == sessions[s].cfgs
  <2>1. sessions' = [sessions EXCEPT ![s] = r]
    BY <1>1 DEF SaveLog
  <2>2. cfgs \in Seq(SoundCFG) /\ sessions[s] \in [cfgs : Seq(SoundCFG), age : Nat]
    BY <1>1, SoundSession DEF IInv
  <2>3. r.cfgs = Stored(cfgs, gns, ip, t)
    BY <2>2 DEF WithLog
  <2>4. Rows(r.cfgs) = Rows(cfgs)
    BY <2>2, <2>3, StoredRows
  <2> HIDE DEF r
  <2>5. QED BY <1>1, <2>1, <2>4, OneSame
<1>2. CASE s \notin DOMAIN sessions
  BY <1>2 DEF SaveLog, RowsKept
<1>3. QED BY <1>1, <1>2

LEMMA GetLogRows ==
  ASSUME IInv, NEW fd \in Fd, NEW tag \in Tag, NEW s \in issued, GetLog(fd, tag, s)
  PROVE  RowsKept
<1>1. CASE s \notin DOMAIN sessions
  BY <1>1 DEF GetLog, RowsKept
<1>2. CASE s \in DOMAIN sessions /\ sessions[s].cfgs = << >>
  BY <1>2 DEF GetLog, Die, NoEntries, RowsKept
<1>3. CASE s \in DOMAIN sessions /\ sessions[s].cfgs # << >>
  <2> DEFINE cfgs == sessions[s].cfgs
             r == [cfgs |-> Remaining(cfgs), age |-> 0]
  <2>1. sessions' = [sessions EXCEPT ![s] = r]
    BY <1>3 DEF GetLog
  <2>2. cfgs \in Seq(SoundCFG)
    BY <1>3, SoundSession DEF IInv
  <2>3. Rows(r.cfgs) = Rows(cfgs)
    BY <1>3, <2>2, RemainingRows
  <2> HIDE DEF r
  <2>4. QED BY <1>3, <2>1, <2>3, OneSame
<1>4. QED BY <1>1, <1>2, <1>3

LEMMA LoginRows ==
  ASSUME NEW fd \in Fd, NEW tag \in Tag, NEW ok \in BOOLEAN, LoginLogic(fd, tag, ok)
  PROVE  RowsKept
<1>1. Rows(<< >>) = {}
  BY DEF Rows
<1>2. CASE ok = FALSE
  BY <1>2 DEF LoginLogic, RowsKept
<1>3. CASE ok = TRUE
  <2>1. PICK s \in Session \ issued :
          sessions' = [r \in DOMAIN sessions \cup {s} |->
                         IF r = s THEN [cfgs |-> << >>, age |-> 0] ELSE sessions[r]]
    BY <1>3 DEF LoginLogic
  <2>2. \A r \in DOMAIN sessions' : \/ Rows(sessions'[r].cfgs) = {}
                                    \/ /\ r \in DOMAIN sessions
                                       /\ sessions'[r] = sessions[r]
    BY <1>1, <2>1
  <2>3. QED BY <2>2 DEF RowsKept
<1>4. QED BY <1>2, <1>3

LEMMA TimerRows ==
  ASSUME IInv, CheckSessionExpireTime \/ Tick
  PROVE  RowsKept
<1>1. CASE CheckSessionExpireTime
  BY <1>1 DEF CheckSessionExpireTime, Unexpired, RowsKept
<1>2. CASE Tick
  <2>1. \A s \in DOMAIN sessions' :
          s \in DOMAIN sessions /\ sessions'[s] = [sessions[s] EXCEPT !.age = @ + 1]
    BY <1>2 DEF Tick
  <2>2. \A s \in DOMAIN sessions' : sessions'[s].cfgs = sessions[s].cfgs
    BY <2>1, SoundSession DEF IInv
  <2>3. QED BY <2>1, <2>2 DEF RowsKept
<1>3. QED BY <1>1, <1>2

\* A setting adds the row it asks for, and no other.
LEMMA NewRows ==
  ASSUME Sound, NEW s \in DOMAIN sessions,
         NEW gns \in Gns \cup {NoName}, NEW ip \in IpPort \cup {NoName},
         NEW p \in Param
  PROVE  LET cfgs == NewCfgs(s, gns, ip, p)
             n == Len(cfgs)
         IN  /\ n \in Nat \ {0}
             /\ cfgs[n].gns_name = gns /\ cfgs[n].ip_port = ip /\ cfgs[n].p = p
             /\ Rows(cfgs) \subseteq Rows(sessions[s].cfgs) \cup {<<gns, ip, p>>}
<1> DEFINE K == Kept(s, gns, ip)
           o == InOrder(K)
           cfgs == NewCfgs(s, gns, ip, p)
           new == [gns_name |-> gns, ip_port |-> ip, p |-> p, win |-> EmptyWindow]
           row(c) == <<c.gns_name, c.ip_port, c.p>>
<1>1. /\ Len(o) \in Nat /\ Len(cfgs) = Len(o) + 1
      /\ \A i \in 1 .. Len(o) : o[i] \in K /\ cfgs[i] = CfgAt(o[i])
      /\ cfgs[Len(o) + 1] = new
  BY NewCfgsOK
<1>2. ASSUME NEW k \in K PROVE row(CfgAt(k)) \in Rows(sessions[s].cfgs)
  <2>1. k \in Positions({s})
    BY DEF Kept
  <2>2. k[1] = s /\ k[2] \in 1 .. Len(sessions[s].cfgs)
    BY <2>1, PositionsOK
  <2>3. QED BY <2>2 DEF CfgAt, Rows
<1>3. new.gns_name = gns /\ new.ip_port = ip /\ new.p = p
  OBVIOUS
<1> HIDE DEF o, K, new, cfgs
<1>4. ASSUME NEW i \in 1 .. Len(cfgs)
      PROVE  row(cfgs[i]) \in Rows(sessions[s].cfgs) \cup {<<gns, ip, p>>}
  <2>1. CASE i <= Len(o)
    BY <1>1, <1>2, <2>1
  <2>2. CASE ~(i <= Len(o))
    <3>1. cfgs[i] = new
      BY <1>1, <2>2
    <3>2. QED BY <1>3, <3>1
  <2>3. QED BY <2>1, <2>2
<1>5. Rows(cfgs) \subseteq Rows(sessions[s].cfgs) \cup {<<gns, ip, p>>}
  BY <1>4 DEF Rows
<1>6. /\ Len(cfgs) \in Nat \ {0} /\ cfgs[Len(cfgs)].gns_name = gns
      /\ cfgs[Len(cfgs)].ip_port = ip /\ cfgs[Len(cfgs)].p = p
  BY <1>1, <1>3
<1>7. QED BY <1>5, <1>6 DEF cfgs

\* At most one session is new, and it was never issued before.
OneFresh ==
  /\ issued \subseteq issued'
  /\ \E s : DOMAIN sessions' \subseteq DOMAIN sessions \cup ({s} \ issued)

LEMMA Fresh == [Next]_vars => OneFresh
<1> SUFFICES ASSUME [Next]_vars PROVE OneFresh
  OBVIOUS
<1>1. ASSUME UNCHANGED issued, DOMAIN sessions' \subseteq DOMAIN sessions PROVE OneFresh
  BY <1>1 DEF OneFresh
<1>2. ASSUME NEW cause, Die(cause) PROVE OneFresh
  BY <1>1, <1>2 DEF Die, NoEntries
<1>3. CASE ConnStep
  BY <1>1, <1>3 DEF ConnStep, AllocateConnection, ReleaseConnection
<1>4. CASE ClientMsg
  <2>1. ASSUME NEW fd \in Fd, NEW s, NEW gns, NEW ip, NEW t, SaveLog(fd, s, gns, ip, t)
        PROVE  UNCHANGED issued /\ DOMAIN sessions' = DOMAIN sessions
    BY <2>1 DEF SaveLog
  <2>2. ASSUME NEW fd \in Fd, NEW gns, NEW ip, UpdateClientInfo(fd, gns, ip)
        PROVE  UNCHANGED <<issued, sessions>>
    BY <2>2 DEF UpdateClientInfo
  <2>3. QED BY <1>1, <1>4, <2>1, <2>2 DEF ClientMsg
<1>5. CASE CgiMsg
  <2>1. ASSUME NEW fd \in Fd, NEW tag \in Tag, NEW ok \in BOOLEAN, LoginLogic(fd, tag, ok)
        PROVE  OneFresh
    <3>1. CASE ok = FALSE
      BY <1>1, <2>1, <3>1 DEF LoginLogic
    <3>2. CASE ok = TRUE
      <4>1. PICK s \in Session \ issued :
              /\ issued' = issued \cup {s}
              /\ DOMAIN sessions' = DOMAIN sessions \cup {s}
        BY <2>1, <3>2 DEF LoginLogic
      <4>2. QED BY <4>1 DEF OneFresh
    <3>3. QED BY <3>1, <3>2
  <2>2. ASSUME NEW fd \in Fd, NEW tag \in Tag, NEW s \in issued, GetLog(fd, tag, s)
        PROVE  OneFresh
    BY <1>1, <1>2, <2>2 DEF GetLog
  <2>3. ASSUME NEW fd \in Fd, NEW tag \in Tag, NEW s \in issued, NEW gns, NEW ip, NEW p,
               SetConfig(fd, tag, s, gns, ip, p)
        PROVE  UNCHANGED issued /\ DOMAIN sessions' = DOMAIN sessions
    BY <2>3 DEF SetConfig
  <2>4. QED BY <1>1, <1>5, <2>1, <2>2, <2>3 DEF CgiMsg
<1>6. ASSUME NEW fd \in Fd, SendBackHeartBeat(fd) PROVE OneFresh
  BY <1>1, <1>6 DEF SendBackHeartBeat
<1>7. CASE CheckSessionExpireTime
  BY <1>1, <1>7 DEF CheckSessionExpireTime, Unexpired
<1>8. ASSUME NEW idle \in SUBSET Fd, CheckFDExpireTime(idle) PROVE OneFresh
  BY <1>1, <1>2, <1>8 DEF CheckFDExpireTime
<1>9. CASE Tick
  BY <1>1, <1>9 DEF Tick
<1>10. CASE Kill \/ Restart \/ UNCHANGED vars
  BY <1>1, <1>2, <1>10 DEF Kill, Restart, vars
<1>11. QED
  BY <1>3, <1>4, <1>5, <1>6, <1>7, <1>8, <1>9, <1>10 DEF Next, TimerStep

\* A session that is over stays so, and there are finitely many others.
LEMMA OverStays ==
  ASSUME IInv, Recorded, [Next]_vars
  PROVE  /\ issued \subseteq issued' /\ Ended \subseteq Ended'
         /\ IsFiniteSet(DOMAIN sessions')
         /\ DOMAIN sessions' \cap issued \subseteq DOMAIN sessions
<1>1. PICK s : DOMAIN sessions' \subseteq DOMAIN sessions \cup ({s} \ issued)
  BY Fresh DEF OneFresh
<1>2. issued \subseteq issued'
  BY Fresh DEF OneFresh
<1>3. IsFiniteSet(DOMAIN sessions \cup {s})
  BY FS_AddElement DEF Recorded
<1>4. DOMAIN sessions' \in SUBSET (DOMAIN sessions \cup {s})
  BY <1>1
<1>5. IsFiniteSet(DOMAIN sessions')
  BY <1>3, <1>4, FS_Subset
<1>6. QED BY <1>1, <1>2, <1>5 DEF Ended

----------------------------------------------------------------------------
(* What a step of the server tells the clients *)

\* Each client is told only what it may be told in the next state.
Told ==
  \A fd \in Fd : peer[fd] \in Client =>
    sent'[fd] \in Seq(Tellings(peer[fd], asked', Ended'))

\* No client is told a configuration.
OnlyChatter ==
  \A fd \in Fd : peer[fd] \in Client => sent'[fd] \in Seq(Chatter(Ended'))

LEMMA ChatterTold ==
  ASSUME OnlyChatter
  PROVE  Told
<1>1. \A c : Chatter(Ended') \subseteq Tellings(c, asked', Ended')
  BY DEF Tellings
<1> DEFINE A == Chatter(Ended')
<1> HIDE DEF A
<1>2. ASSUME NEW fd \in Fd, peer[fd] \in Client
      PROVE  sent'[fd] \in Seq(Tellings(peer[fd], asked', Ended'))
  <2> DEFINE B == Tellings(peer[fd], asked', Ended')
  <2>1. A \subseteq B /\ sent'[fd] \in Seq(A)
    BY <1>1, <1>2 DEF OnlyChatter, A
  <2> HIDE DEF B
  <2>2. sent'[fd] \in Seq(B)
    BY <2>1, SeqMono
  <2>3. QED BY <2>2 DEF B
<1>3. QED BY <1>2 DEF Told

LEMMA NoneTold ==
  ASSUME sent' = Nothing \/ SendMsg(Nothing)
  PROVE  OnlyChatter
<1>1. \A fd \in Fd : sent'[fd] = << >>
  BY DEF Nothing, SendMsg
<1>2. ASSUME NEW T PROVE << >> \in Seq(T)
  OBVIOUS
<1>3. QED BY <1>1, <1>2 DEF OnlyChatter

LEMMA OneTold ==
  ASSUME NEW fd \in Fd, NEW m, SendMsg(To(fd, m)),
         peer[fd] \in Client => m \in Chatter(Ended')
  PROVE  OnlyChatter
<1>1. \A e \in Fd : To(fd, m)[e] = IF e = fd THEN <<m>> ELSE << >>
  BY DEF To, Nothing
<1>2. \A e \in Fd : sent'[e] = << >> \/ (e = fd /\ sent'[e] = <<m>>)
  BY <1>1 DEF SendMsg
<1>3. ASSUME NEW T, m \in T PROVE <<m>> \in Seq(T)
  BY <1>3
<1>4. ASSUME NEW T PROVE << >> \in Seq(T)
  OBVIOUS
<1>5. QED BY <1>2, <1>3, <1>4 DEF OnlyChatter

\* Messages made of the positions of a set, in order.
LEMMA WalkIn ==
  ASSUME NEW S, NEW T, NEW f, f = [i \in DOMAIN InOrder(S) |-> f[i]],
         \A i \in 1 .. Len(InOrder(S)) : f[i] \in T
  PROVE  f \in Seq(T) /\ Len(f) = Len(InOrder(S))
<1> DEFINE o == InOrder(S)
<1>1. Len(o) \in Nat /\ DOMAIN o = 1 .. Len(o)
  BY InOrderOK
<1> HIDE DEF o
<1>2. f \in [1 .. Len(o) -> T]
  BY <1>1 DEF o
<1>3. QED BY <1>1, <1>2 DEF o

\* What was asked of a client may be told to it.
LEMMA MayTell ==
  ASSUME NEW c \in Client, NEW ask, NEW gone, NEW s, NEW r, NEW p,
         <<s, r[1], r[2], p>> \in ask, r[1] = GnsName[c] \/ r[2] = SelfAddr[c]
  PROVE  CfgInfoReq(s, p) \in Tellings(c, ask, gone)
<1> DEFINE a == <<s, r[1], r[2], p>>
<1>1. a \in Concerning(c, ask) /\ a[1] = s /\ a[4] = p
  BY DEF Concerning
<1>2. QED BY <1>1 DEF Tellings

\* The positions of finitely many sessions are finitely many.
LEMMA PositionsFinite ==
  ASSUME IInv, Recorded
  PROVE  /\ IsFiniteSet(Positions(DOMAIN sessions))
         /\ Positions(DOMAIN sessions) \in SUBSET (Nat \X Nat)
<1> DEFINE P(s) == {s} \X (1 .. Len(sessions[s].cfgs))
           f == [s \in DOMAIN sessions |-> P(s)]
           T == {P(s) : s \in DOMAIN sessions}
<1>1. \A s \in DOMAIN sessions : Len(sessions[s].cfgs) \in Nat /\ s \in Nat
  BY SoundSession, ServerAssumption DEF IInv
<1>2. IsFiniteSet(T)
  <2>1. f \in Surjection(DOMAIN sessions, T)
    BY DEF Surjection
  <2> HIDE DEF f, T
  <2>2. QED BY <2>1, FS_Surjection DEF Recorded
<1>3. ASSUME NEW s \in DOMAIN sessions PROVE IsFiniteSet(P(s))
  <2> DEFINE n == Len(sessions[s].cfgs)
  <2>1. n \in Int /\ 1 \in Int
    BY <1>1
  <2> HIDE DEF n
  <2>2. IsFiniteSet(1 .. n) /\ IsFiniteSet({s})
    BY <2>1, FS_Interval, FS_Singleton
  <2>3. IsFiniteSet({s} \X (1 .. n))
    BY <2>2, FS_Product
  <2>4. QED BY <2>3 DEF n
<1>4. IsFiniteSet(UNION T)
  <2>1. \A t \in T : IsFiniteSet(t)
    BY <1>3
  <2> HIDE DEF T
  <2>2. QED BY <1>2, <2>1, FS_UNION
<1>5. Positions(DOMAIN sessions) = UNION T
  BY DEF Positions
<1>6. UNION T \in SUBSET (Nat \X Nat)
  BY <1>1
<1>7. QED BY <1>4, <1>5, <1>6

\* The row of a position was asked for.
LEMMA PositionAsked ==
  ASSUME Recorded, NEW k \in Positions(DOMAIN sessions)
  PROVE  LET c == CfgAt(k) IN <<k[1], c.gns_name, c.ip_port, c.p>> \in asked
<1>1. k[1] \in DOMAIN sessions /\ k[2] \in 1 .. Len(sessions[k[1]].cfgs)
  BY PositionsOK
<1> DEFINE c == CfgAt(k)
           r == <<c.gns_name, c.ip_port, c.p>>
<1>2. r \in Rows(sessions[k[1]].cfgs)
  BY <1>1 DEF Rows, CfgAt
<1>3. <<k[1], r[1], r[2], r[3]>> \in asked
  BY <1>1, <1>2 DEF Recorded
<1>4. QED BY <1>3

\* A name that configurations are for tells them apart.
LEMMA NamedOnce ==
  ASSUME NEW cfgs, Distinct(cfgs), NEW r \in Rows(cfgs), NEW q \in Rows(cfgs),
         r[1] = q[1], r[1] # NoName
  PROVE  r = q
<1> DEFINE row(i) == <<cfgs[i].gns_name, cfgs[i].ip_port, cfgs[i].p>>
<1>1. PICK i \in 1 .. Len(cfgs) : r = row(i)
  BY DEF Rows
<1>2. PICK j \in 1 .. Len(cfgs) : q = row(j)
  BY DEF Rows
<1>3. i = j
  BY <1>1, <1>2 DEF Distinct
<1>4. QED BY <1>1, <1>2, <1>3

\* p is the one filter that q has for s.
OnlyTells(q, s, p) ==
  /\ Len(q) \in Nat
  /\ \A j \in 1 .. Len(q) : \A v : q[j] = CfgInfoReq(s, v) => v = p
  /\ \E j \in 1 .. Len(q) : q[j] = CfgInfoReq(s, p)

LEMMA OnlyTellsEnds ==
  ASSUME NEW q, NEW s, NEW V, NEW p \in V, OnlyTells(q, s, p), NEW had
  PROVE  EndsIn(q, had, s, V)
<1>1. \A j \in 1 .. Len(q) : ~Strays(q[j], s, V)
  BY DEF OnlyTells, Strays, Sets
<1>2. \E j \in 1 .. Len(q) : Sets(q[j], s, V)
  BY DEF OnlyTells, Sets
<1>3. QED BY <1>1, <1>2, EndsAll DEF OnlyTells

\* A client that reports is told what is configured for its service, all of it.
LEMMA ReplayTold ==
  ASSUME IInv, AllDistinct, Recorded, asked \subseteq asked', NEW fd \in Fd,
         NEW gns \in Gns, NEW ip, UpdateClientInfo(fd, gns, ip),
         peer[fd] \in Client => GnsName[peer[fd]] = gns
  PROVE  /\ Told
         /\ \A e \in Fd \ {fd} : sent'[e] = << >>
         /\ \A s \in DOMAIN sessions : \A r \in Rows(sessions[s].cfgs) :
              r[1] = gns => OnlyTells(sent'[fd], s, r[3])
<1> DEFINE S == {k \in Positions(DOMAIN sessions) : CfgAt(k).gns_name = gns}
           o == InOrder(S)
           f == [i \in DOMAIN o |-> CfgInfoReq(o[i][1], CfgAt(o[i]).p)]
           row(k) == <<CfgAt(k).gns_name, CfgAt(k).ip_port, CfgAt(k).p>>
<1>1. \A e \in Fd : sent'[e] = IF e = fd THEN f ELSE << >>
  BY DEF UpdateClientInfo, SendMsg, Nothing
<1>2. /\ Len(o) \in Nat /\ DOMAIN o = 1 .. Len(o)
      /\ \A i \in 1 .. Len(o) : o[i] \in S
  BY InOrderOK
<1>3. IsFiniteSet(S) /\ S \in SUBSET (Nat \X Nat)
  <2>1. S \in SUBSET Positions(DOMAIN sessions)
    OBVIOUS
  <2> HIDE DEF S
  <2>2. QED BY <2>1, PositionsFinite, FS_Subset
<1>4. \A k \in S : \E i \in 1 .. Len(o) : o[i] = k
  <2> HIDE DEF S
  <2>1. QED BY <1>3, InOrderCovers
<1>5. ASSUME peer[fd] \in Client PROVE f \in Seq(Tellings(peer[fd], asked', Ended'))
  <2> DEFINE T == Tellings(peer[fd], asked', Ended')
  <2>1. ASSUME NEW k \in S PROVE CfgInfoReq(k[1], CfgAt(k).p) \in T
    <3> DEFINE c == CfgAt(k)
               r == <<c.gns_name, c.ip_port>>
    <3>1. <<k[1], r[1], r[2], c.p>> \in asked' /\ r[1] = GnsName[peer[fd]]
      BY <1>5, PositionAsked
    <3>2. QED BY <1>5, <3>1, MayTell
  <2> HIDE DEF T
  <2>2. \A i \in 1 .. Len(o) : f[i] \in T
    BY <1>2, <2>1
  <2>3. f = [i \in DOMAIN o |-> f[i]]
    OBVIOUS
  <2> HIDE DEF f, S
  <2>4. f \in Seq(T)
    BY <2>2, <2>3, WalkIn
  <2>5. QED BY <2>4 DEF T
<1>6. Told
  <2> HIDE DEF f
  <2>1. ASSUME NEW T PROVE << >> \in Seq(T)
    OBVIOUS
  <2>2. QED BY <1>1, <1>5, <2>1 DEF Told
<1>7. ASSUME NEW k \in S
      PROVE  /\ k[1] \in DOMAIN sessions /\ row(k) \in Rows(sessions[k[1]].cfgs)
             /\ row(k)[1] = gns /\ row(k)[3] = CfgAt(k).p
  <2>1. k[1] \in DOMAIN sessions /\ k[2] \in 1 .. Len(sessions[k[1]].cfgs)
    BY PositionsOK
  <2>2. QED BY <2>1 DEF Rows, CfgAt
<1>8. ASSUME NEW s \in DOMAIN sessions, NEW r \in Rows(sessions[s].cfgs), r[1] = gns
      PROVE  OnlyTells(f, s, r[3])
  <2>1. Distinct(sessions[s].cfgs) /\ gns # NoName
    BY ServerAssumption DEF AllDistinct
  <2>2. /\ Len(f) = Len(o)
        /\ \A j \in 1 .. Len(o) : f[j] = CfgInfoReq(o[j][1], CfgAt(o[j]).p)
    BY <1>2
  <2>3. ASSUME NEW j \in 1 .. Len(o), NEW v, f[j] = CfgInfoReq(s, v)
        PROVE  v = r[3]
    <3> DEFINE k == o[j]
    <3>1. k \in S /\ f[j] = CfgInfoReq(k[1], CfgAt(k).p)
      BY <1>2, <2>2
    <3> HIDE DEF k, f, S
    <3>2. k[1] = s /\ CfgAt(k).p = v
      BY <2>3, <3>1 DEF CfgInfoReq
    <3>3. row(k) \in Rows(sessions[s].cfgs) /\ row(k)[1] = gns /\ row(k)[3] = v
      BY <1>7, <3>1, <3>2
    <3> HIDE DEF row
    <3>4. QED BY <1>8, <2>1, <3>3, NamedOnce
  <2>4. \E j \in 1 .. Len(o) : f[j] = CfgInfoReq(s, r[3])
    <3>1. PICK i \in 1 .. Len(sessions[s].cfgs) :
            /\ r = <<sessions[s].cfgs[i].gns_name, sessions[s].cfgs[i].ip_port,
                     sessions[s].cfgs[i].p>>
      BY DEF Rows
    <3> DEFINE k == <<s, i>>
    <3>2. k \in S /\ k[1] = s /\ CfgAt(k).p = r[3]
      BY <1>8, <3>1 DEF Positions, CfgAt
    <3> HIDE DEF S, k, f
    <3>3. PICK j \in 1 .. Len(o) : o[j] = k
      BY <1>4, <3>2
    <3>4. QED BY <2>2, <3>2, <3>3
  <2> HIDE DEF f, o
  <2>5. QED BY <1>2, <2>2, <2>3, <2>4 DEF OnlyTells
<1>9. sent'[fd] = f /\ \A e \in Fd \ {fd} : sent'[e] = << >>
  BY <1>1
<1> HIDE DEF f
<1>10. QED BY <1>6, <1>8, <1>9

\* The positions of one session, in order.
LEMMA PairsInOrder ==
  ASSUME NEW s \in Nat, NEW n \in Nat, NEW A, A \subseteq {s} \X (1 .. n)
  PROVE  /\ Len(InOrder(A)) \in Nat /\ DOMAIN InOrder(A) = 1 .. Len(InOrder(A))
         /\ \A i \in 1 .. Len(InOrder(A)) : InOrder(A)[i] \in A
         /\ \A k \in A : \E i \in 1 .. Len(InOrder(A)) : InOrder(A)[i] = k
<1>1. n \in Int /\ 1 \in Int
  OBVIOUS
<1>2. IsFiniteSet(1 .. n) /\ IsFiniteSet({s})
  BY <1>1, FS_Interval, FS_Singleton
<1>3. IsFiniteSet({s} \X (1 .. n))
  BY <1>2, FS_Product
<1>4. {s} \X (1 .. n) \in SUBSET (Nat \X Nat)
  OBVIOUS
<1>5. IsFiniteSet(A) /\ A \in SUBSET (Nat \X Nat)
  BY <1>3, <1>4, FS_Subset
<1>6. \A k \in A : \E i \in 1 .. Len(InOrder(A)) : InOrder(A)[i] = k
  BY <1>5, InOrderCovers
<1>7. QED BY <1>6, InOrderOK

(***************************************************************************)
(* A setting for a service is told to its listed clients, all of them, one *)
(* for an address only to a client that has the address; and nothing else  *)
(* is told than the filter that was set.                                   *)
(***************************************************************************)
SettingSent(s, gns, ip, p) ==
  \A fd \in Fd \ {CgiFd} :
    /\ sent'[fd] \in Seq({CfgInfoReq(s, p)})
    /\ sent'[fd] # << >> =>
         /\ fd \in DOMAIN cliInfo /\ conns[fd] = "open"
         /\ IF ip = NoName THEN cliInfo[fd].gns_name = gns ELSE cliInfo[fd].ip_port = ip
    /\ /\ ip = NoName /\ fd \in DOMAIN cliInfo /\ conns[fd] = "open"
       /\ cliInfo[fd].gns_name = gns
       => sent'[fd] # << >>

LEMMA SettingIsSent ==
  ASSUME IInv, AllDistinct,
         NEW tag \in Tag, NEW s \in issued, NEW gns \in Gns \cup {NoName},
         NEW ip \in IpPort \cup {NoName}, NEW p \in Param,
         s \in DOMAIN sessions, SetConfig(CgiFd, tag, s, gns, ip, p)
  PROVE  SettingSent(s, gns, ip, p)
<1> DEFINE cfgs == NewCfgs(s, gns, ip, p)
           n == Len(cfgs)
           told(fd) == SendCfgInfo2Clients(s, cfgs, gns, ip)[fd]
           S(fd) == {k \in {s} \X (1 .. Len(cfgs)) :
                       IF ip # NoName
                       THEN cfgs[k[2]].ip_port = ip /\ fd \in GetFdByIPPort(ip) /\ fd > 0
                       ELSE cfgs[k[2]].gns_name = gns /\ fd \in GetFdByGns(gns)}
           o(fd) == InOrder(S(fd))
           f(fd) == [i \in DOMAIN o(fd) |-> CfgInfoReq(s, cfgs[o(fd)[i][2]].p)]
           m == SetConfResp(tag, TRUE)
           M == CfgInfoReq(s, p)
<1>1. SendMsg(Both(SendCfgInfo2Clients(s, cfgs, gns, ip), To(CgiFd, m)))
  BY DEF SetConfig
<1>2. s \in Nat
  BY SoundSession, ServerAssumption DEF IInv
<1>3. /\ n \in Nat \ {0}
      /\ cfgs[n].gns_name = gns /\ cfgs[n].ip_port = ip /\ cfgs[n].p = p
  <2>1. Sound
    BY DEF IInv
  <2>2. /\ n \in Nat \ {0}
        /\ cfgs[n].gns_name = gns /\ cfgs[n].ip_port = ip /\ cfgs[n].p = p
        /\ Rows(cfgs) \subseteq Rows(sessions[s].cfgs) \cup {<<gns, ip, p>>}
    BY <2>1, NewRows
  <2>3. QED BY <2>2
<1>4. Distinct(cfgs)
  BY NewCfgsDistinct DEF IInv, AllDistinct
<1> HIDE DEF cfgs, m
<1>5. ASSUME NEW fd \in Fd, NEW k \in S(fd)
      PROVE  /\ cfgs[k[2]].p = p /\ fd \in DOMAIN cliInfo
             /\ IF ip = NoName THEN cliInfo[fd].gns_name = gns ELSE cliInfo[fd].ip_port = ip
  <2>1. k[2] \in 1 .. n /\ n \in 1 .. n
    BY <1>3
  <2>2. CASE ip # NoName
    <3>1. cfgs[k[2]].ip_port = ip /\ fd \in GetFdByIPPort(ip)
      BY <2>2
    <3>2. k[2] = n
      BY <1>3, <1>4, <2>1, <2>2, <3>1 DEF Distinct
    <3>3. QED BY <1>3, <2>2, <3>1, <3>2 DEF GetFdByIPPort
  <2>3. CASE ip = NoName
    <3>1. /\ cfgs[k[2]].gns_name = gns /\ fd \in DOMAIN cliInfo
          /\ cliInfo[fd].gns_name = gns
      BY <2>3 DEF GetFdByGns
    <3>2. cliInfo[fd] \in CLIENT_INFO
      BY <3>1 DEF IInv, OtherTypes, IsPartial
    <3>3. gns # NoName
      BY <3>1, <3>2, ServerAssumption DEF CLIENT_INFO
    <3>4. k[2] = n
      BY <1>3, <1>4, <2>1, <3>1, <3>3 DEF Distinct
    <3>5. QED BY <1>3, <2>3, <3>1, <3>4
  <2>4. QED BY <2>2, <2>3
<1>6. \A fd \in Fd : told(fd) = f(fd)
  BY DEF SendCfgInfo2Clients
<1>7. ASSUME NEW fd \in Fd
      PROVE  /\ Len(o(fd)) \in Nat /\ DOMAIN o(fd) = 1 .. Len(o(fd))
             /\ \A i \in 1 .. Len(o(fd)) : o(fd)[i] \in S(fd)
             /\ \A k \in S(fd) : \E i \in 1 .. Len(o(fd)) : o(fd)[i] = k
  <2> DEFINE A == S(fd)
  <2>1. A \subseteq {s} \X (1 .. n)
    OBVIOUS
  <2>2. n \in Nat
    BY <1>3
  <2> HIDE DEF A, n
  <2>3. /\ Len(InOrder(A)) \in Nat /\ DOMAIN InOrder(A) = 1 .. Len(InOrder(A))
        /\ \A i \in 1 .. Len(InOrder(A)) : InOrder(A)[i] \in A
        /\ \A k \in A : \E i \in 1 .. Len(InOrder(A)) : InOrder(A)[i] = k
    BY <1>2, <2>1, <2>2, PairsInOrder
  <2> HIDE DEF S
  <2>4. QED BY <2>3 DEF A
<1>8. ASSUME NEW fd \in Fd
      PROVE  /\ f(fd) \in Seq({M})
             /\ f(fd) # << >> <=> S(fd) # {}
  <2> DEFINE q == o(fd)
             A == S(fd)
             g == f(fd)
  <2>1. /\ Len(q) \in Nat /\ DOMAIN q = 1 .. Len(q)
        /\ \A i \in 1 .. Len(q) : q[i] \in A
        /\ \A k \in A : \E i \in 1 .. Len(q) : q[i] = k
    <3> HIDE DEF S
    <3>1. QED BY <1>7
  <2>2. \A k \in A : CfgInfoReq(s, cfgs[k[2]].p) = M
    <3> HIDE DEF S, M
    <3>1. \A k \in A : cfgs[k[2]].p = p
      BY <1>5
    <3>2. QED BY <3>1 DEF M
  <2>3. g = [i \in 1 .. Len(q) |-> CfgInfoReq(s, cfgs[q[i][2]].p)]
    <3>1. g = [i \in DOMAIN q |-> CfgInfoReq(s, cfgs[q[i][2]].p)]
      OBVIOUS
    <3> HIDE DEF g, q
    <3>2. QED BY <2>1, <3>1
  <2> HIDE DEF A, q, g, M
  <2>4. \A i \in 1 .. Len(q) : CfgInfoReq(s, cfgs[q[i][2]].p) = M
    BY <2>1, <2>2
  <2>5. g = [i \in 1 .. Len(q) |-> M]
    BY <2>3, <2>4
  <2>6. g \in Seq({M}) /\ Len(g) = Len(q)
    BY <2>1, <2>5
  <2>7. g # << >> <=> Len(q) # 0
    BY <2>1, <2>6
  <2>8. Len(q) # 0 <=> A # {}
    BY <2>1
  <2> HIDE DEF f, S
  <2>9. QED BY <2>6, <2>7, <2>8 DEF g, A
<1>9. ASSUME NEW fd \in Fd \ {CgiFd}
      PROVE  sent'[fd] = IF conns[fd] = "open" THEN f(fd) ELSE << >>
  <2>2. To(CgiFd, m)[fd] = << >>
    BY DEF To, Nothing
  <2>3. f(fd) \o << >> = f(fd)
    <3> DEFINE g == f(fd)
    <3> HIDE DEF f, M, S
    <3>1. g \in Seq({M})
      BY <1>8
    <3> HIDE DEF g
    <3>2. g \o << >> = g
      BY <3>1
    <3>3. QED BY <3>2 DEF g
  <2>4. sent'[fd] = IF conns[fd] = "open" THEN told(fd) \o To(CgiFd, m)[fd] ELSE << >>
    BY <1>1 DEF SendMsg, Both
  <2> HIDE DEF f, told
  <2>5. QED BY <1>6, <2>2, <2>3, <2>4
<1>10. ASSUME NEW fd \in Fd \ {CgiFd}
       PROVE  /\ sent'[fd] \in Seq({M})
              /\ sent'[fd] # << >> => conns[fd] = "open" /\ S(fd) # {}
              /\ conns[fd] = "open" /\ S(fd) # {} => sent'[fd] # << >>
  <2> DEFINE A == S(fd)
             g == f(fd)
  <2>1. g \in Seq({M}) /\ (g # << >> <=> A # {})
    <3> HIDE DEF f, M, S
    <3>1. QED BY <1>8
  <2>2. sent'[fd] = IF conns[fd] = "open" THEN g ELSE << >>
    <3> HIDE DEF f
    <3>1. QED BY <1>9
  <2> HIDE DEF g, A, M
  <2>3. sent'[fd] \in Seq({M})
    <3>1. \A U : << >> \in Seq(U)
      OBVIOUS
    <3>2. QED BY <2>1, <2>2, <3>1
  <2>4. /\ sent'[fd] # << >> => conns[fd] = "open" /\ A # {}
        /\ conns[fd] = "open" /\ A # {} => sent'[fd] # << >>
    BY <2>1, <2>2
  <2>5. QED BY <2>3, <2>4 DEF A
<1>11. ASSUME NEW fd \in DOMAIN cliInfo, ip = NoName, cliInfo[fd].gns_name = gns
       PROVE  S(fd) # {}
  <2>1. <<s, n>> \in {s} \X (1 .. Len(cfgs)) /\ <<s, n>>[2] = n
    BY <1>3
  <2>2. <<s, n>> \in S(fd)
    BY <1>3, <1>11, <2>1 DEF GetFdByGns
  <2>3. QED BY <2>2
<1> HIDE DEF S, f, o, M
<1>12. QED BY <1>5, <1>10, <1>11 DEF SettingSent, M

LEMMA SettingTold ==
  ASSUME Linked, ListedAsItIs, NEW s, NEW gns, NEW ip, NEW p, SettingSent(s, gns, ip, p),
         <<s, gns, ip, p>> \in asked'
  PROVE  Told
<1> DEFINE m == CfgInfoReq(s, p)
           r == <<gns, ip>>
<1>1. ASSUME NEW fd \in Fd, peer[fd] \in Client
      PROVE  sent'[fd] \in Seq(Tellings(peer[fd], asked', Ended'))
  <2>4. fd \in Fd \ {CgiFd}
    BY <1>1, SystemAssumption DEF Linked
  <2> DEFINE T == Tellings(peer[fd], asked', Ended')
             q == sent'[fd]
  <2>1. CASE q = << >>
    <3> HIDE DEF T, q
    <3>1. ASSUME NEW U PROVE << >> \in Seq(U)
      OBVIOUS
    <3>2. q \in Seq(T)
      BY <2>1, <3>1
    <3>3. QED BY <3>2 DEF T, q
  <2>2. CASE q # << >>
    <3>1. r[1] = GnsName[peer[fd]] \/ r[2] = SelfAddr[peer[fd]]
      BY <1>1, <2>2, <2>4 DEF SettingSent, ListedAsItIs
    <3>2. <<s, r[1], r[2], p>> \in asked'
      OBVIOUS
    <3>3. m \in T
      BY <1>1, <3>1, <3>2, MayTell
    <3>4. q \in Seq({m}) /\ {m} \subseteq T
      BY <2>4, <3>3 DEF SettingSent
    <3> HIDE DEF m, T, q
    <3>5. q \in Seq(T)
      BY <3>4, SeqMono
    <3>6. QED BY <3>5 DEF T, q
  <2>3. QED BY <2>1, <2>2
<1>2. QED BY <1>1 DEF Told

----------------------------------------------------------------------------
(* What a step of the server leaves as it is *)

LEMMA ServerKeeps ==
  ASSUME SystemInv, [Next]_vars, UNCHANGED <<clientVars, peer>>, asked \subseteq asked'
  PROVE  /\ IInv' /\ AllDistinct' /\ Linked' /\ Filtered' /\ OnlyAsked'
         /\ issued \subseteq issued' /\ Ended \subseteq Ended'
<1>1. IInv' /\ AllDistinct'
  BY IInvNext, DistinctNext DEF SystemInv
<1>2. Linked'
  BY DEF SystemInv, Linked, clientVars
<1>3. issued \subseteq issued' /\ Ended \subseteq Ended'
  BY OverStays DEF SystemInv
<1>4. Filtered'
  BY <1>3 DEF SystemInv, Filtered, clientVars, Cl!Running
<1>5. OnlyAsked'
  BY DEF SystemInv, OnlyAsked, clientVars
<1>6. QED BY <1>1, <1>2, <1>3, <1>4, <1>5

LEMMA MoreWritten ==
  ASSUME issued \subseteq issued', peer' = peer, NEW fd \in Fd
  PROVE  Written(fd) \subseteq Written(fd)'
<1>1. \A c : Sayings(c, issued) \subseteq Sayings(c, issued')
  BY DEF Sayings
<1>2. Writers(fd)' = Writers(fd)
  BY DEF Writers
<1>3. QED BY <1>1, <1>2 DEF Written

\* What is on its way up stays, is read, is lost, or is covered by a message
\* of the server's own.
UpDrains ==
  /\ DOMAIN up' = Fd
  /\ \A fd \in Fd : \/ up'[fd] = up[fd] \/ up'[fd] = << >>
                    \/ up[fd] # << >> /\ up'[fd] = Tail(up[fd])
                    \/ /\ up[fd] # << >> /\ sent'[fd][Len(sent'[fd])] \in Own
                       /\ \E k \in 1 .. Len(up[fd]) :
                            up'[fd] = Covered(up[fd], k, sent'[fd])

LEMMA UpKept ==
  ASSUME GoingUp, issued \subseteq issued', peer' = peer, UpDrains
  PROVE  GoingUp'
<1>1. ASSUME NEW fd \in Fd PROVE up'[fd] \in Seq(Written(fd)')
  <2> DEFINE W == Written(fd)
  <2>1. up[fd] \in Seq(W) /\ Own \subseteq W
    BY DEF GoingUp, Written
  <2>2. up'[fd] \in Seq(W)
    <3>1. CASE up'[fd] = up[fd]
      BY <2>1, <3>1
    <3>2. CASE up'[fd] = << >>
      <4>1. \A T : << >> \in Seq(T)
        OBVIOUS
      <4>2. QED BY <3>2, <4>1
    <3>3. CASE up[fd] # << >> /\ up'[fd] = Tail(up[fd])
      BY <3>3, HeadSaid
    <3>4. ASSUME NEW k \in 1 .. Len(up[fd]), sent'[fd][Len(sent'[fd])] \in Own,
                 up'[fd] = Covered(up[fd], k, sent'[fd])
          PROVE  up'[fd] \in Seq(W)
      <4> DEFINE q == up[fd]
                 out == sent'[fd]
      <4>1. q \in Seq(W) /\ k \in 1 .. Len(q) /\ out[Len(out)] \in W
        BY <2>1, <3>4
      <4>2. up'[fd] = Covered(q, k, out)
        BY <3>4
      <4> HIDE DEF W, q, out
      <4>3. QED BY <4>1, <4>2, CoveredIn
    <3>5. QED BY <3>1, <3>2, <3>3, <3>4 DEF UpDrains
  <2>3. W \subseteq Written(fd)'
    BY MoreWritten
  <2> HIDE DEF W
  <2>4. QED BY <2>2, <2>3, SeqMono
<1>2. up'[CgiFd] = << >>
  <2>1. up[CgiFd] = << >> /\ CgiFd \in Fd
    BY SystemAssumption DEF GoingUp
  <2>2. QED BY <2>1 DEF UpDrains
<1>3. QED BY <1>1, <1>2 DEF GoingUp, UpDrains

\* What covers messages that wait for the server is one of its own requests.
LEMMA OverwriteDrains ==
  ASSUME GoingUp, Overwrite,
         \A fd \in Fd : up[fd] # << >> /\ sent'[fd] # << >> =>
                          sent'[fd][Len(sent'[fd])] \in Own
  PROVE  UpDrains
<1> DEFINE hit == {fd \in Fd : sent'[fd] # << >> /\ up[fd] # << >>}
<1>1. PICK D \in SUBSET hit : \E M \in SUBSET (hit \ D) : \E k \in [M -> 1 .. MaxFlight] :
        /\ \A fd \in M : k[fd] <= Len(up[fd])
        /\ up' = [fd \in Fd |-> IF fd \in M THEN Covered(up[fd], k[fd], sent'[fd])
                                            ELSE up[fd]]
  BY DEF Overwrite
<1> DEFINE covers(M, k) ==
             /\ \A fd \in M : k[fd] <= Len(up[fd])
             /\ up' = [fd \in Fd |-> IF fd \in M THEN Covered(up[fd], k[fd], sent'[fd])
                                                 ELSE up[fd]]
<1>6. PICK M \in SUBSET (hit \ D) : \E k \in [M -> 1 .. MaxFlight] : covers(M, k)
  BY <1>1
<1>2. PICK k \in [M -> 1 .. MaxFlight] : covers(M, k)
  BY <1>6
<1>3. ASSUME NEW fd \in M
      PROVE  /\ up[fd] # << >> /\ sent'[fd][Len(sent'[fd])] \in Own
             /\ k[fd] \in 1 .. Len(up[fd])
  <2>1. fd \in hit
    OBVIOUS
  <2>2. up[fd] \in Seq(Written(fd))
    BY <2>1 DEF GoingUp
  <2>3. Len(up[fd]) \in Nat
    BY <2>2
  <2>4. k[fd] \in 1 .. MaxFlight
    OBVIOUS
  <2>5. QED BY <1>2, <2>1, <2>3, <2>4
<1> HIDE DEF hit
<1>4. /\ DOMAIN up' = Fd
      /\ \A fd \in Fd : \/ up'[fd] = up[fd]
                        \/ fd \in M /\ up'[fd] = Covered(up[fd], k[fd], sent'[fd])
  BY <1>2
<1>5. QED BY <1>3, <1>4 DEF UpDrains

LEMMA MoreTellings ==
  ASSUME NEW c, NEW a, NEW b, NEW x, NEW y, a \subseteq b, x \subseteq y
  PROVE  Tellings(c, a, x) \subseteq Tellings(c, b, y)
<1>1. Concerning(c, a) \subseteq Concerning(c, b)
  BY DEF Concerning
<1>2. Chatter(x) \subseteq Chatter(y)
  BY DEF Chatter
<1>3. QED BY <1>1, <1>2 DEF Tellings

LEMMA MoreFound ==
  ASSUME NEW c, issued \subseteq issued', Ended \subseteq Ended', asked \subseteq asked'
  PROVE  Found(c) \subseteq Found(c)' /\ Tellings(c, asked', Ended') \subseteq Found(c)'
<1>1. Tellings(c, asked, Ended) \subseteq Tellings(c, asked', Ended')
  BY MoreTellings
<1>2. Sayings(c, issued) \subseteq Sayings(c, issued')
  BY DEF Sayings
<1>3. QED BY <1>1, <1>2 DEF Found

\* What is told is on its way down, behind what was.
LEMMA DownKept ==
  ASSUME GoingDown, Told, issued \subseteq issued', Ended \subseteq Ended',
         asked \subseteq asked', peer' = peer, Deliver
  PROVE  /\ GoingDown'
         /\ \A fd \in Fd : peer[fd] \in Client =>
              /\ down'[fd] = down[fd] \o sent'[fd]
              /\ \E T : down[fd] \in Seq(T) /\ sent'[fd] \in Seq(T)
<1>1. \A fd \in Fd : down'[fd] = IF peer[fd] \in Client THEN down[fd] \o sent'[fd]
                                                       ELSE << >>
  BY DEF Deliver
<1>2. ASSUME NEW fd \in Fd, peer[fd] \in Client
      PROVE  /\ down'[fd] \in Seq(Found(peer[fd])')
             /\ \E T : down[fd] \in Seq(T) /\ sent'[fd] \in Seq(T)
  <2> DEFINE T == Found(peer[fd])'
             A == Found(peer[fd])
             B == Tellings(peer[fd], asked', Ended')
             p == down[fd]
             q == sent'[fd]
  <2>1. A \subseteq T /\ B \subseteq T
    BY MoreFound
  <2>2. p \in Seq(A) /\ q \in Seq(B)
    BY <1>2 DEF GoingDown, Told
  <2>3. down'[fd] = p \o q
    BY <1>1, <1>2
  <2> HIDE DEF T, A, B, p, q
  <2>4. p \in Seq(T) /\ q \in Seq(T)
    BY <2>1, <2>2, SeqMono
  <2>5. p \o q \in Seq(T)
    BY <2>4
  <2>6. QED BY <2>3, <2>4, <2>5 DEF T, p, q
<1>4. GoingDown'
  <2>1. DOMAIN down' = Fd
    BY DEF Deliver
  <2>2. QED BY <1>1, <1>2, <2>1 DEF GoingDown
<1>5. QED BY <1>1, <1>2, <1>4

LEMMA RecordedKept ==
  ASSUME IInv, Recorded, [Next]_vars, RowsKept, asked' = asked
  PROVE  Recorded'
<1>1. issued \subseteq issued' /\ IsFiniteSet(DOMAIN sessions')
  BY OverStays
<1>2. asked' \subseteq issued' \X (Gns \cup {NoName}) \X (IpPort \cup {NoName}) \X Param
  BY <1>1 DEF Recorded
<1>3. \A s \in DOMAIN sessions' : \A r \in Rows(sessions'[s].cfgs) :
        <<s, r[1], r[2], r[3]>> \in asked'
  <2> SUFFICES ASSUME NEW s \in DOMAIN sessions', NEW r \in Rows(sessions'[s].cfgs)
               PROVE  <<s, r[1], r[2], r[3]>> \in asked'
    OBVIOUS
  <2>1. s \in DOMAIN sessions /\ r \in Rows(sessions[s].cfgs)
    BY DEF RowsKept
  <2>2. QED BY <2>1 DEF Recorded
<1>4. QED BY <1>1, <1>2, <1>3 DEF Recorded

LEMMA DownSame ==
  ASSUME GoingDown, issued \subseteq issued', Ended \subseteq Ended',
         asked \subseteq asked', peer' = peer, down' = down
  PROVE  GoingDown'
<1>1. ASSUME NEW fd \in Fd, peer[fd] \in Client
      PROVE  down[fd] \in Seq(Found(peer[fd])')
  <2> DEFINE S == Found(peer[fd])
             T == Found(peer[fd])'
  <2>1. S \subseteq T
    BY MoreFound
  <2>2. down[fd] \in Seq(S)
    BY <1>1 DEF GoingDown
  <2> HIDE DEF S, T
  <2>3. down[fd] \in Seq(T)
    BY <2>1, <2>2, SeqMono
  <2>4. QED BY <2>3 DEF T
<1>2. QED BY <1>1 DEF GoingDown

(***************************************************************************)
(* What the clients are told in a step leaves each listed one with a right *)
(* filter for every row that serves it: the messages of the step end in    *)
(* one, or leave the one that it would have had without them.              *)
(***************************************************************************)
Heeded ==
  \A fd \in DOMAIN cliInfo' \ (deafClient' \cup missedClient'), s \in DOMAIN sessions' :
    \A r \in Rows(sessions'[s].cfgs) :
      conns'[fd] = "open" /\ peer[fd] \in Client /\ Serves(r, peer[fd]) =>
        LET V == Fitting(peer[fd], s, r[3], later)
            W == Fitting(peer[fd], s, r[3], later')
        IN EndsIn(sent'[fd], V \subseteq W /\ Hears(fd, s, r[3]), s, W)

LEMMA HeededKeeps ==
  ASSUME GoingDown, Told, issued \subseteq issued', Ended \subseteq Ended',
         asked \subseteq asked', Deliver, DOMAIN cliInfo' \subseteq Fd, Heeded
  PROVE  AtWork'
<1>1. peer' = peer /\ filters' = filters
  BY DEF Deliver, clientVars
<1>2. SUFFICES ASSUME NEW fd \in DOMAIN cliInfo' \ (deafClient' \cup missedClient'),
                      NEW s \in DOMAIN sessions', NEW r \in Rows(sessions'[s].cfgs),
                      conns'[fd] = "open", peer[fd] \in Client, Serves(r, peer[fd])
               PROVE  Hears(fd, s, r[3])'
  BY <1>1 DEF AtWork, Serves
<1> DEFINE c == peer[fd]
           V == Fitting(c, s, r[3], later)
           W == Fitting(c, s, r[3], later')
           q == down[fd]
           out == sent'[fd]
<1>3. EndsIn(out, V \subseteq W /\ Hears(fd, s, r[3]), s, W)
  BY <1>2 DEF Heeded
<1>4. V \subseteq W /\ Hears(fd, s, r[3]) => EndsIn(q, Has(c, s, W), s, W)
  <2> SUFFICES ASSUME V \subseteq W, Hears(fd, s, r[3]) PROVE EndsIn(q, Has(c, s, W), s, W)
    OBVIOUS
  <2>1. EndsIn(q, Has(c, s, V), s, V)
    BY DEF Hears
  <2>2. Has(c, s, V) => Has(c, s, W)
    BY DEF Has
  <2> HIDE DEF V, W, c, q
  <2>3. QED BY <2>1, <2>2, EndsMono
<1>5. /\ down'[fd] = q \o out
      /\ \E T : q \in Seq(T) /\ out \in Seq(T)
  BY <1>1, <1>2, DownKept
<1>6. Hears(fd, s, r[3])' <=> EndsIn(down'[fd], Has(c, s, W), s, W)
  <2> DEFINE X == Fitting(peer'[fd], s, r[3], later')
             had == s \in DOMAIN filters'[peer'[fd]] /\ filters'[peer'[fd]][s] \in X
  <2>1. Hears(fd, s, r[3])' <=> EndsIn(down'[fd], had, s, X)
    BY DEF Hears, Fitting, EndsIn, Has, Sets, Strays
  <2>2. X = W /\ (had <=> Has(c, s, W))
    BY <1>1 DEF Has
  <2> HIDE DEF X, had, W, c
  <2>3. QED BY <2>1, <2>2 DEF EndsIn
<1> HIDE DEF c, V, W, q, out
<1>7. EndsIn(out, EndsIn(q, Has(c, s, W), s, W), s, W)
  <2>1. W \subseteq W
    OBVIOUS
  <2>2. QED BY <1>3, <1>4, <2>1, EndsMono
<1>8. EndsIn(q \o out, Has(c, s, W), s, W)
  BY <1>5, <1>7, EndsConcat
<1>9. QED BY <1>5, <1>6, <1>8

\* Nobody new is listed, and no descriptor that is listed is opened.
ListKept ==
  /\ DOMAIN cliInfo' \subseteq DOMAIN cliInfo
  /\ \A fd \in DOMAIN cliInfo' : /\ cliInfo'[fd] = cliInfo[fd]
                                 /\ conns'[fd] = "open" => conns[fd] = "open"

\* Messages that are no configurations change no filter.
LEMMA ChatterEnds ==
  ASSUME NEW q \in Seq(Chatter(Ended')), NEW had, had, NEW s, NEW V
  PROVE  EndsIn(q, had, s, V)
<1>1. ASSUME NEW m \in Chatter(Ended'), NEW v PROVE m # CfgInfoReq(s, v)
  BY DEF Chatter, HeartBeat, ClearSessionReq, CfgInfoReq
<1> DEFINE T == Chatter(Ended')
<1> HIDE DEF T
<1>2. Len(q) \in Nat /\ \A j \in 1 .. Len(q) : q[j] \in T
  BY DEF T
<1>3. \A j \in 1 .. Len(q) : ~Strays(q[j], s, V)
  BY <1>1, <1>2 DEF Strays, Sets, T
<1>4. QED BY <1>2, <1>3, EndsAll

LEMMA AtWorkKept ==
  ASSUME SystemInv, RowsKept, ListKept, UNCHANGED <<clientVars, peer, clientEnd, later>>
  PROVE  /\ OnlyChatter => Heeded
         /\ down' = down => AtWork'
<1>1. /\ peer' = peer /\ filters' = filters /\ later' = later
      /\ deafClient' = deafClient /\ missedClient' = missedClient
  BY DEF clientVars, clientEnd
<1>2. DOMAIN cliInfo \subseteq Fd
  BY DEF SystemInv, IInv, OtherTypes, IsPartial
<1>3. ASSUME NEW fd \in DOMAIN cliInfo' \ (deafClient' \cup missedClient'),
             NEW s \in DOMAIN sessions', NEW r \in Rows(sessions'[s].cfgs),
             conns'[fd] = "open", peer[fd] \in Client, Serves(r, peer[fd])
      PROVE  fd \in Fd /\ Hears(fd, s, r[3])
  <2>1. s \in DOMAIN sessions /\ r \in Rows(sessions[s].cfgs)
    BY DEF RowsKept
  <2>2. /\ fd \in DOMAIN cliInfo \ (deafClient \cup missedClient)
        /\ conns[fd] = "open"
    BY <1>1, <1>3 DEF ListKept
  <2>3. QED BY <1>2, <1>3, <2>1, <2>2 DEF SystemInv, AtWork
<1>4. ASSUME OnlyChatter PROVE Heeded
  <2> SUFFICES ASSUME NEW fd \in DOMAIN cliInfo' \ (deafClient' \cup missedClient'),
                      NEW s \in DOMAIN sessions', NEW r \in Rows(sessions'[s].cfgs),
                      conns'[fd] = "open", peer[fd] \in Client, Serves(r, peer[fd])
               PROVE  LET V == Fitting(peer[fd], s, r[3], later)
                          W == Fitting(peer[fd], s, r[3], later')
                      IN EndsIn(sent'[fd], V \subseteq W /\ Hears(fd, s, r[3]), s, W)
    BY DEF Heeded
  <2> DEFINE V == Fitting(peer[fd], s, r[3], later)
             W == Fitting(peer[fd], s, r[3], later')
  <2>1. fd \in Fd /\ V \subseteq W /\ Hears(fd, s, r[3])
    BY <1>1, <1>3
  <2> HIDE DEF V, W
  <2>2. sent'[fd] \in Seq(Chatter(Ended'))
    BY <1>4, <2>1 DEF OnlyChatter
  <2>3. EndsIn(sent'[fd], V \subseteq W /\ Hears(fd, s, r[3]), s, W)
    BY <2>1, <2>2, ChatterEnds
  <2>4. QED BY <2>3 DEF V, W
<1>5. ASSUME down' = down PROVE AtWork'
  <2>1. ASSUME NEW fd, NEW s, NEW p PROVE Hears(fd, s, p)' <=> Hears(fd, s, p)
    BY <1>1, <1>5 DEF Hears, Fitting, Has, EndsIn, Sets, Strays
  <2>2. QED BY <1>1, <1>3, <2>1 DEF AtWork, Serves
<1>6. QED BY <1>4, <1>5

LEMMA ListedKept ==
  ASSUME ListedAsItIs, ListKept, peer' = peer
  PROVE  ListedAsItIs'
BY DEF ListKept, ListedAsItIs

(***************************************************************************)
(* A step of the server that lists nobody new, sets nothing and tells no   *)
(* configurations keeps the invariant.                                     *)
(***************************************************************************)
LEMMA QuietStep ==
  ASSUME SystemInv, [Next]_vars, RowsKept, ListKept, UpDrains,
         UNCHANGED <<clientVars, peer, clientEnd, history>>,
         (Deliver /\ OnlyChatter) \/ down' = down
  PROVE  SystemInv'
<1>1. peer' = peer /\ asked' = asked /\ later' = later
  BY DEF history
<1>2. /\ IInv' /\ AllDistinct' /\ Linked' /\ Filtered' /\ OnlyAsked'
      /\ issued \subseteq issued' /\ Ended \subseteq Ended'
  BY <1>1, ServerKeeps
<1>3. GoingUp'
  BY <1>1, <1>2, UpKept DEF SystemInv
<1>4. DOMAIN cliInfo' \subseteq Fd
  BY DEF SystemInv, IInv, OtherTypes, IsPartial, ListKept
<1>5. GoingDown' /\ AtWork'
  <2>1. CASE Deliver /\ OnlyChatter
    <3>1. Told /\ Heeded
      BY <1>1, <2>1, ChatterTold, AtWorkKept
    <3>2. QED BY <1>1, <1>2, <1>4, <2>1, <3>1, DownKept, HeededKeeps DEF SystemInv
  <2>2. CASE down' = down
    BY <1>1, <1>2, <2>2, DownSame, AtWorkKept DEF SystemInv
  <2>3. QED BY <2>1, <2>2
<1>6. ListedAsItIs'
  BY <1>1, ListedKept DEF SystemInv
<1>7. Recorded'
  BY <1>1, RecordedKept DEF SystemInv
<1>8. QED BY <1>2, <1>3, <1>5, <1>6, <1>7 DEF SystemInv

\* Writing lists nobody and closes nothing.
LEMMA SendingKeeps ==
  ASSUME SystemInv, NEW out, SendMsg(out), cliInfo' = cliInfo
  PROVE  ListKept
<1>1. DOMAIN cliInfo \subseteq Fd
  BY DEF SystemInv, IInv, OtherTypes, IsPartial
<1>2. QED BY <1>1 DEF ListKept, SendMsg

LEMMA ConnectionKeeps ==
  ASSUME SystemInv, NEW fd \in Fd, AllocateConnection(fd) \/ ReleaseConnection(fd)
  PROVE  ListKept /\ RowsKept /\ OnlyChatter
<1>1. DOMAIN cliInfo \subseteq Fd /\ conns \in [Fd -> {"none", "open", "null"}]
  BY DEF SystemInv, IInv, OtherTypes, IsPartial, Tables
<1>2. cliInfo' = Without(fd) /\ (\A e \in Fd : e # fd => conns'[e] = conns[e])
  BY <1>1 DEF AllocateConnection, ReleaseConnection
<1>3. /\ DOMAIN cliInfo' = DOMAIN cliInfo \ {fd}
      /\ \A e \in DOMAIN cliInfo' : cliInfo'[e] = cliInfo[e]
  BY <1>2 DEF Without
<1>4. ListKept
  BY <1>1, <1>2, <1>3 DEF ListKept
<1>5. RowsKept
  BY DEF AllocateConnection, ReleaseConnection, RowsKept
<1>6. OnlyChatter
  BY NoneTold DEF AllocateConnection, ReleaseConnection
<1>7. QED BY <1>4, <1>5, <1>6

\* Nothing is left of a process that died.
LEMMA DyingKeeps ==
  ASSUME NEW cause, Die(cause)
  PROVE  ListKept /\ RowsKept /\ OnlyChatter
<1>1. OnlyChatter
  BY NoneTold DEF Die
<1>2. QED BY <1>1 DEF Die, NoEntries, ListKept, RowsKept

----------------------------------------------------------------------------
(* The steps of the server and the browser *)

\* No message, or a message to the CGI, is nothing told to a client.
LEMMA CgiTold ==
  ASSUME Linked, NEW m, SendMsg(To(CgiFd, m))
  PROVE  OnlyChatter
<1>1. CgiFd \in Fd /\ peer[CgiFd] \notin Client
  BY SystemAssumption DEF Linked
<1>2. QED BY <1>1, OneTold

\* A session that a client is told to clear is over.
LEMMA ClearTold ==
  ASSUME NEW fd \in Fd, NEW s \in issued, s \notin DOMAIN sessions,
         UNCHANGED <<sessions, issued>>, SendMsg(To(fd, ClearSessionReq(s)))
  PROVE  OnlyChatter
<1>1. s \in Ended'
  BY DEF Ended
<1>2. ClearSessionReq(s) \in Chatter(Ended')
  BY <1>1 DEF Chatter
<1>3. QED BY <1>2, OneTold

LEMMA LastIn ==
  ASSUME NEW T, NEW q \in Seq(T), q # << >>
  PROVE  q[Len(q)] \in T
OBVIOUS

\* What is told of an expiry, to anyone: sessions to clear that are over.
LEMMA ExpiryTold ==
  ASSUME IInv, CheckSessionExpireTime
  PROVE  /\ OnlyChatter
         /\ \A fd \in Fd : sent'[fd] # << >> => sent'[fd][Len(sent'[fd])] \in Own
<1> DEFINE S(fd) == {k \in Positions(Expired) : fd \in Informed(CfgAt(k))}
           f(fd) == [i \in DOMAIN InOrder(S(fd)) |-> ClearSessionReq(InOrder(S(fd))[i][1])]
           Clears == {ClearSessionReq(s) : s \in Ended'}
<1>1. \A fd \in Fd : sent'[fd] = IF conns[fd] = "open" THEN f(fd) ELSE << >>
  BY DEF CheckSessionExpireTime, SendMsg
<1>2. Expired \subseteq Ended' /\ Ended' \subseteq Session
  <2>1. Expired \subseteq issued /\ issued \subseteq Session
    BY DEF Expired, IInv, OtherTypes
  <2>2. DOMAIN sessions' = DOMAIN sessions \ Expired /\ issued' = issued
    BY DEF CheckSessionExpireTime, Unexpired
  <2>3. QED BY <2>1, <2>2 DEF Ended
<1>3. ASSUME NEW fd \in Fd PROVE f(fd) \in Seq(Clears)
  <2> DEFINE T == Clears
             A == S(fd)
             g == f(fd)
  <2>1. ASSUME NEW k \in A PROVE ClearSessionReq(k[1]) \in T
    <3>1. k[1] \in Expired
      BY PositionsOK
    <3>2. QED BY <1>2, <3>1
  <2>2. \A i \in 1 .. Len(InOrder(A)) : InOrder(A)[i] \in A
    BY InOrderOK
  <2>3. DOMAIN InOrder(A) = 1 .. Len(InOrder(A))
    BY InOrderOK
  <2> HIDE DEF T, S, Clears
  <2>4. \A i \in 1 .. Len(InOrder(A)) : g[i] \in T
    BY <2>1, <2>2, <2>3
  <2>5. g = [i \in DOMAIN InOrder(A) |-> g[i]]
    OBVIOUS
  <2> HIDE DEF A, g
  <2>6. g \in Seq(T)
    BY <2>4, <2>5, WalkIn
  <2>7. QED BY <2>6 DEF T, g
<1>4. Clears \subseteq Chatter(Ended') /\ Clears \subseteq Own
  <2>1. Clears \subseteq Chatter(Ended')
    BY DEF Chatter
  <2>2. Clears \subseteq Own
    BY <1>2 DEF Own, ClearSessionReq
  <2>3. QED BY <2>1, <2>2
<1> HIDE DEF f, Clears
<1>5. ASSUME NEW T PROVE << >> \in Seq(T)
  OBVIOUS
<1>6. ASSUME NEW fd \in Fd PROVE sent'[fd] \in Seq(Clears)
  BY <1>1, <1>3, <1>5
<1>7. ASSUME NEW fd \in Fd PROVE sent'[fd] \in Seq(Chatter(Ended'))
  BY <1>4, <1>6, SeqMono
<1>8. ASSUME NEW fd \in Fd, sent'[fd] # << >> PROVE sent'[fd][Len(sent'[fd])] \in Own
  BY <1>4, <1>6, <1>8, LastIn
<1>9. QED BY <1>7, <1>8 DEF OnlyChatter

\* The server's end of some connections goes.
LEMMA ForgetDrains ==
  ASSUME GoingUp, NEW S, Forget(S)
  PROVE  UpDrains
BY DEF Forget, UpDrains, GoingUp

\* Every action of the server but those that report, set or restart.
LEMMA ConnectionStep ==
  ASSUME SystemInv, [Next]_vars,
         CgiConnects \/ \E fd \in Fd : ServerAccepts(fd) \/ ServerReleases(fd)
  PROVE  SystemInv'
<1>1. DOMAIN up = Fd
  BY DEF SystemInv, GoingUp
<1>2. CASE CgiConnects
  <2>1. ListKept /\ RowsKept /\ OnlyChatter
    BY <1>2, ConnectionKeeps, SystemAssumption DEF CgiConnects
  <2>2. UpDrains
    BY <1>1, <1>2 DEF CgiConnects, UpDrains
  <2>3. QED BY <1>2, <2>1, <2>2, QuietStep DEF CgiConnects, Deliver
<1>3. ASSUME NEW fd \in Fd, ServerAccepts(fd) PROVE SystemInv'
  <2>1. ListKept /\ RowsKept /\ OnlyChatter
    BY <1>3, ConnectionKeeps DEF ServerAccepts
  <2>2. UpDrains
    BY <1>1, <1>3 DEF ServerAccepts, UpDrains
  <2>3. QED BY <1>3, <2>1, <2>2, QuietStep DEF ServerAccepts, Deliver
<1>4. ASSUME NEW fd \in Fd, ServerReleases(fd) PROVE SystemInv'
  <2>1. ListKept /\ RowsKept /\ OnlyChatter
    BY <1>4, ConnectionKeeps DEF ServerReleases
  <2>2. UpDrains
    BY <1>4, ForgetDrains DEF ServerReleases, SystemInv
  <2>3. QED BY <1>4, <2>1, <2>2, QuietStep DEF ServerReleases, Deliver
<1>5. QED BY <1>2, <1>3, <1>4

LEMMA DropStep ==
  ASSUME SystemInv, [Next]_vars, NEW cause, Die(cause), Drop
  PROVE  SystemInv'
<1>1. ListKept /\ RowsKept /\ OnlyChatter
  BY DyingKeeps
<1>2. UpDrains
  BY ForgetDrains DEF Drop, SystemInv
<1>3. QED BY <1>1, <1>2, QuietStep DEF Drop, Deliver

LEMMA TimerSteps ==
  ASSUME SystemInv, [Next]_vars, ServerExpires \/ TimePasses \/ ServerStarts
  PROVE  SystemInv'
<1>1. DOMAIN up = Fd
  BY DEF SystemInv, GoingUp
<1>2. CASE ServerExpires
  <2>1. CheckSessionExpireTime /\ cliInfo' = cliInfo
    BY <1>2 DEF ServerExpires, CheckSessionExpireTime
  <2>2. ListKept
    BY <2>1, SendingKeeps DEF CheckSessionExpireTime
  <2>3. RowsKept
    BY <2>1, TimerRows DEF SystemInv
  <2>4. /\ OnlyChatter
        /\ \A fd \in Fd : sent'[fd] # << >> => sent'[fd][Len(sent'[fd])] \in Own
    BY <2>1, ExpiryTold DEF SystemInv
  <2>5. UpDrains
    BY <1>2, <2>4, OverwriteDrains DEF ServerExpires, SystemInv
  <2>6. QED BY <1>2, <2>2, <2>3, <2>4, <2>5, QuietStep DEF ServerExpires, Deliver
<1>3. CASE TimePasses
  <2>1. RowsKept
    BY <1>3, TimerRows DEF TimePasses, SystemInv
  <2>2. ListKept
    BY <1>3 DEF TimePasses, Tick, ListKept
  <2>3. UpDrains
    BY <1>1, <1>3 DEF TimePasses, wireVars, UpDrains
  <2>4. QED BY <1>3, <2>1, <2>2, <2>3, QuietStep DEF TimePasses, wireVars
<1>4. CASE ServerStarts
  <2>1. RowsKept
    BY <1>4 DEF ServerStarts, Restart, RowsKept
  <2>2. ListKept
    BY <1>4 DEF ServerStarts, Restart, ListKept
  <2>3. UpDrains
    BY <1>1, <1>4 DEF ServerStarts, wireVars, UpDrains
  <2>4. QED BY <1>4, <2>1, <2>2, <2>3, QuietStep DEF ServerStarts, wireVars
<1>5. QED BY <1>2, <1>3, <1>4

\* The idle check closes connections and leaves whom it knew of there listed.
LEMMA IdleCheckStep ==
  ASSUME SystemInv, [Next]_vars, ServerChecksIdle
  PROVE  SystemInv'
<1>1. PICK idle \in SUBSET Orphans :
        /\ CheckFDExpireTime(idle)
        /\ IF status' = "up"
           THEN Forget(idle) /\ Deliver /\ UNCHANGED <<backlog, history>>
           ELSE Drop
  BY DEF ServerChecksIdle
<1>2. CASE status' # "up"
  <2>1. Die("SIGSEGV")
    BY <1>1, <1>2 DEF CheckFDExpireTime
  <2>2. QED BY <1>1, <1>2, <2>1, DropStep
<1>3. CASE status' = "up"
  <2>1. /\ conns' = [fd \in Fd |-> IF fd \in idle THEN "none" ELSE conns[fd]]
        /\ sent' = Nothing /\ UNCHANGED <<cliInfo, sessions>>
    BY <1>1, <1>3 DEF CheckFDExpireTime, Die
  <2>2. DOMAIN cliInfo \subseteq Fd
    BY DEF SystemInv, IInv, OtherTypes, IsPartial
  <2>3. ListKept /\ RowsKept /\ OnlyChatter
    BY <2>1, <2>2, NoneTold DEF ListKept, RowsKept
  <2>4. UpDrains
    BY <1>1, <1>3, ForgetDrains DEF SystemInv
  <2>5. QED BY <1>1, <1>3, <2>3, <2>4, QuietStep DEF Deliver
<1>4. QED BY <1>2, <1>3

LEMMA LoginAndFetch ==
  ASSUME SystemInv, [Next]_vars, BrowserLogsIn \/ \E s \in issued : BrowserFetches(s)
  PROVE  SystemInv'
<1>1. DOMAIN up = Fd
  BY DEF SystemInv, GoingUp
<1>2. CgiFd \in Fd /\ TRUE \in BOOLEAN
  BY SystemAssumption
<1>3. CASE BrowserLogsIn
  <2>1. PICK tag \in Tag : LoginLogic(CgiFd, tag, TRUE)
    BY <1>3 DEF BrowserLogsIn
  <2>2. cliInfo' = cliInfo /\ \E m : SendMsg(To(CgiFd, m))
    BY <2>1 DEF LoginLogic
  <2>3. ListKept /\ OnlyChatter
    BY <2>2, SendingKeeps, CgiTold DEF SystemInv
  <2>4. RowsKept
    BY <1>2, <2>1, LoginRows
  <2>5. UpDrains
    BY <1>1, <1>3 DEF BrowserLogsIn, UpDrains
  <2>6. QED BY <1>3, <2>3, <2>4, <2>5, QuietStep DEF BrowserLogsIn, Deliver
<1>4. ASSUME NEW s \in issued, BrowserFetches(s) PROVE SystemInv'
  <2>1. PICK tag \in Tag : GetLog(CgiFd, tag, s)
    BY <1>4 DEF BrowserFetches
  <2>2. CASE status' # "up"
    <3>1. Die("SIGFPE")
      BY <2>1, <2>2 DEF GetLog
    <3>2. QED BY <1>4, <2>2, <3>1, DropStep DEF BrowserFetches
  <2>3. CASE status' = "up"
    <3>1. cliInfo' = cliInfo /\ \E m : SendMsg(To(CgiFd, m))
      BY <2>1, <2>3 DEF GetLog, Die
    <3>2. ListKept /\ OnlyChatter
      BY <3>1, SendingKeeps, CgiTold DEF SystemInv
    <3>3. RowsKept
      BY <1>2, <2>1, GetLogRows DEF SystemInv
    <3>4. UpDrains
      BY <1>1, <1>4, <2>3 DEF BrowserFetches, UpDrains
    <3>5. QED BY <1>4, <2>3, <3>2, <3>3, <3>4, QuietStep DEF BrowserFetches, Deliver
  <2>4. QED BY <2>2, <2>3
<1>5. QED BY <1>3, <1>4

\* The steps that read a message that asks for nothing to be listed.
LEMMA PlainReads ==
  ASSUME SystemInv, [Next]_vars, NEW fd \in Fd, ServerReads(fd),
         \/ UNCHANGED <<vars, clientVars, peer, down, clientEnd>>
         \/ /\ Deliver /\ UNCHANGED clientEnd
            /\ \/ SendBackHeartBeat(fd)
               \/ \E s \in issued, t \in Text, gns, ip \in Gns \cup IpPort :
                    SaveLog(fd, s, gns, ip, t)
  PROVE  SystemInv'
<1>1. UpDrains /\ UNCHANGED history
  BY DEF ServerReads, UpDrains, SystemInv, GoingUp
<1>2. CASE UNCHANGED <<vars, clientVars, peer, down, clientEnd>>
  <2>1. RowsKept /\ ListKept
    BY <1>2 DEF vars, RowsKept, ListKept
  <2>2. QED BY <1>1, <1>2, <2>1, QuietStep
<1>3. CASE /\ Deliver /\ UNCHANGED clientEnd
           /\ \/ SendBackHeartBeat(fd)
              \/ \E s \in issued, t \in Text, gns, ip \in Gns \cup IpPort :
                   SaveLog(fd, s, gns, ip, t)
  <2>1. Deliver /\ UNCHANGED <<clientVars, peer, clientEnd>>
    BY <1>3 DEF Deliver
  <2>2. CASE SendBackHeartBeat(fd)
    <3>1. ListKept
      BY <2>2, SendingKeeps DEF SendBackHeartBeat
    <3>2. RowsKept
      BY <2>2 DEF SendBackHeartBeat, RowsKept
    <3>3. HeartBeat \in Chatter(Ended')
      BY DEF Chatter
    <3>4. OnlyChatter
      BY <2>2, <3>3, OneTold DEF SendBackHeartBeat
    <3>5. QED BY <1>1, <2>1, <3>1, <3>2, <3>4, QuietStep
  <2>3. ASSUME NEW s \in issued, NEW t \in Text, NEW gns, NEW ip, SaveLog(fd, s, gns, ip, t)
        PROVE  SystemInv'
    <3>1. ListKept
      BY <2>3, SendingKeeps DEF SaveLog
    <3>2. RowsKept
      BY <2>3, SaveLogRows DEF SystemInv
    <3>3. OnlyChatter
      <4>1. CASE s \in DOMAIN sessions
        BY <2>3, <4>1, NoneTold DEF SaveLog
      <4>2. CASE s \notin DOMAIN sessions
        BY <2>3, <4>2, ClearTold DEF SaveLog
      <4>3. QED BY <4>1, <4>2
    <3>4. QED BY <1>1, <2>1, <3>1, <3>2, <3>3, QuietStep
  <2>4. QED BY <1>3, <2>2, <2>3
<1>4. QED BY <1>2, <1>3

(***************************************************************************)
(* A client reports.  From now on it is listed, as it is; whatever asks    *)
(* its service for something is on its way to it.                          *)
(***************************************************************************)
LEMMA ReportRead ==
  ASSUME SystemInv, [Next]_vars, NEW fd \in Fd, ServerReads(fd),
         Deliver, UNCHANGED clientEnd,
         NEW who \in Client, peer[fd] \in Client => who = peer[fd],
         UpdateClientInfo(fd, GnsName[who], SelfAddr[who])
  PROVE  SystemInv'
<1> DEFINE gns == GnsName[who]
           ip == SelfAddr[who]
<1>1. /\ UNCHANGED <<clientVars, peer, clientEnd, asked, later>>
      /\ UNCHANGED <<sessions, issued>>
      /\ cliInfo' = [e \in DOMAIN cliInfo \cup {fd} |->
                       IF e = fd THEN [gns_name |-> gns, ip_port |-> ip] ELSE cliInfo[e]]
      /\ \A e \in Fd : conns'[e] = "open" => conns[e] = "open"
  BY DEF ServerReads, Deliver, UpdateClientInfo, history, SendMsg
<1>2. /\ IInv' /\ AllDistinct' /\ Linked' /\ Filtered' /\ OnlyAsked'
      /\ issued \subseteq issued' /\ Ended \subseteq Ended'
  BY <1>1, ServerKeeps
<1>3. UpDrains
  BY DEF ServerReads, UpDrains, SystemInv, GoingUp
<1>4. GoingUp'
  BY <1>1, <1>2, <1>3, UpKept DEF SystemInv
<1>5. /\ Told
      /\ \A e \in Fd \ {fd} : sent'[e] = << >>
      /\ \A s \in DOMAIN sessions : \A r \in Rows(sessions[s].cfgs) :
           r[1] = gns => OnlyTells(sent'[fd], s, r[3])
  BY <1>1, ReplayTold, SystemAssumption DEF SystemInv
<1>6. GoingDown'
  BY <1>1, <1>2, <1>5, DownKept DEF SystemInv
<1>7. DOMAIN cliInfo \subseteq Fd /\ DOMAIN cliInfo' = DOMAIN cliInfo \cup {fd}
  BY <1>1 DEF SystemInv, IInv, OtherTypes, IsPartial
<1>8. ListedAsItIs'
  BY <1>1, <1>7 DEF SystemInv, ListedAsItIs
<1>9. Recorded'
  <2>1. RowsKept
    BY <1>1 DEF RowsKept
  <2>2. QED BY <1>1, <2>1, RecordedKept DEF SystemInv
<1>10. Heeded
  <2> SUFFICES ASSUME NEW e \in DOMAIN cliInfo' \ (deafClient' \cup missedClient'),
                      NEW s \in DOMAIN sessions', NEW r \in Rows(sessions'[s].cfgs),
                      conns'[e] = "open", peer[e] \in Client, Serves(r, peer[e])
               PROVE  LET V == Fitting(peer[e], s, r[3], later)
                          W == Fitting(peer[e], s, r[3], later')
                      IN EndsIn(sent'[e], V \subseteq W /\ Hears(e, s, r[3]), s, W)
    BY DEF Heeded
  <2> DEFINE V == Fitting(peer[e], s, r[3], later)
             W == Fitting(peer[e], s, r[3], later')
             had == V \subseteq W /\ Hears(e, s, r[3])
  <2>1. s \in DOMAIN sessions /\ r \in Rows(sessions[s].cfgs) /\ e \in Fd
    BY <1>1, <1>7
  <2>2. EndsIn(sent'[e], had, s, W)
    <3>1. CASE e = fd
      <4>1. r[1] = gns /\ r[3] \in W
        BY <3>1 DEF Serves, Fitting
      <4>2. OnlyTells(sent'[e], s, r[3])
        BY <1>5, <2>1, <3>1, <4>1
      <4> HIDE DEF W, had
      <4>3. QED BY <4>1, <4>2, OnlyTellsEnds
    <3>2. CASE e # fd
      <4>1. /\ e \in DOMAIN cliInfo \ (deafClient \cup missedClient)
            /\ conns[e] = "open"
        BY <1>1, <1>7, <2>1, <3>2 DEF clientEnd
      <4>2. had
        BY <1>1, <2>1, <4>1 DEF SystemInv, AtWork
      <4>3. sent'[e] = << >>
        BY <1>5, <2>1, <3>2
      <4> HIDE DEF W, had
      <4>4. QED BY <4>2, <4>3, EndsEmpty
    <3>3. QED BY <3>1, <3>2
  <2>3. QED BY <2>2
<1>11. AtWork'
  BY <1>1, <1>2, <1>5, <1>7, <1>10, HeededKeeps DEF SystemInv
<1>12. QED BY <1>2, <1>4, <1>6, <1>8, <1>9, <1>11 DEF SystemInv

LEMMA ReadStep ==
  ASSUME SystemInv, [Next]_vars, NEW fd \in Fd, ServerReads(fd)
  PROVE  SystemInv'
<1>1. \/ UNCHANGED <<vars, clientVars, peer, down, clientEnd>>
      \/ up[fd] # << >> /\ Handle(fd, Head(up[fd])) /\ Deliver /\ UNCHANGED clientEnd
  BY DEF ServerReads, Deliver
<1>2. CASE UNCHANGED <<vars, clientVars, peer, down, clientEnd>>
  BY <1>2, PlainReads
<1>3. CASE up[fd] # << >> /\ Handle(fd, Head(up[fd])) /\ Deliver /\ UNCHANGED clientEnd
  <2>1. PICK c \in Client :
          /\ peer[fd] \in Client => c = peer[fd]
          /\ \/ UpdateClientInfo(fd, GnsName[c], SelfAddr[c])
             \/ \E s \in issued, t \in Text : SaveLog(fd, s, GnsName[c], SelfAddr[c], t)
             \/ SendBackHeartBeat(fd)
    BY <1>3, ReadIsServer DEF SystemInv
  <2>2. GnsName[c] \in Gns /\ SelfAddr[c] \in IpPort
    BY SystemAssumption
  <2>3. CASE UpdateClientInfo(fd, GnsName[c], SelfAddr[c])
    BY <1>3, <2>1, <2>3, ReportRead
  <2>4. CASE ~UpdateClientInfo(fd, GnsName[c], SelfAddr[c])
    <3>1. \/ SendBackHeartBeat(fd)
          \/ \E s \in issued, t \in Text, x, y \in Gns \cup IpPort :
               SaveLog(fd, s, x, y, t)
      BY <2>1, <2>2, <2>4
    <3>2. QED BY <1>3, <3>1, PlainReads
  <2>5. QED BY <2>3, <2>4
<1>4. QED BY <1>1, <1>2, <1>3

(***************************************************************************)
(* A browser sets a configuration of a live session.  Clients that it      *)
(* serves and that are listed are sent it, and nothing else than it; any   *)
(* other row was there before, and what is sent cannot stray from it: a    *)
(* setting for an address is a later one.                                  *)
(***************************************************************************)
LEMMA SettingHeeded ==
  ASSUME SystemInv, NEW s \in issued, NEW gns \in Gns \cup {NoName},
         NEW ip \in IpPort \cup {NoName}, NEW p \in Param,
         SettingSent(s, gns, ip, p), Ask(s, gns, ip, p), AllDistinct',
         UNCHANGED <<peer, clientEnd, cliInfo>>,
         \A fd \in Fd : conns'[fd] = "open" => conns[fd] = "open",
         DOMAIN sessions' = DOMAIN sessions,
         \A q \in DOMAIN sessions \ {s} : sessions'[q] = sessions[q],
         <<gns, ip, p>> \in Rows(sessions'[s].cfgs),
         Rows(sessions'[s].cfgs) \subseteq Rows(sessions[s].cfgs) \cup {<<gns, ip, p>>}
  PROVE  Heeded
<1> DEFINE new == <<gns, ip, p>>
           M == CfgInfoReq(s, p)
<1>1. /\ peer' = peer /\ cliInfo' = cliInfo
      /\ deafClient' = deafClient /\ missedClient' = missedClient
  BY DEF clientEnd
<1>2. SUFFICES ASSUME NEW fd \in DOMAIN cliInfo' \ (deafClient' \cup missedClient'),
                      NEW q \in DOMAIN sessions', NEW r \in Rows(sessions'[q].cfgs),
                      conns'[fd] = "open", peer[fd] \in Client, Serves(r, peer[fd])
               PROVE  LET V == Fitting(peer[fd], q, r[3], later)
                          W == Fitting(peer[fd], q, r[3], later')
                      IN EndsIn(sent'[fd], V \subseteq W /\ Hears(fd, q, r[3]), q, W)
  BY DEF Heeded
<1> DEFINE c == peer[fd]
           V == Fitting(c, q, r[3], later)
           W == Fitting(c, q, r[3], later')
           out == sent'[fd]
           had == V \subseteq W /\ Hears(fd, q, r[3])
<1> SUFFICES EndsIn(out, had, q, W)
  OBVIOUS
<1>3. /\ fd \in Fd \ {CgiFd} /\ fd \in DOMAIN cliInfo \ (deafClient \cup missedClient)
      /\ conns[fd] = "open"
      /\ cliInfo[fd].gns_name = GnsName[c] /\ cliInfo[fd].ip_port = SelfAddr[c]
  <2>1. DOMAIN cliInfo \subseteq Fd /\ peer[CgiFd] \notin Client
    BY SystemAssumption DEF SystemInv, IInv, OtherTypes, IsPartial, Linked
  <2>2. QED BY <1>1, <1>2, <2>1 DEF SystemInv, ListedAsItIs
<1>4. GnsName[c] # NoName /\ r[1] = GnsName[c] /\ r[2] = NoName /\ r[3] \in SetId
  BY <1>2, SystemAssumption, ServerAssumption DEF Serves
<1>5. /\ Len(out) \in Nat /\ (out # << >> => Len(out) # 0)
      /\ \A j \in 1 .. Len(out) : out[j] = M
  <2>1. out \in Seq({M})
    BY <1>3 DEF SettingSent
  <2> HIDE DEF out, M
  <2>2. QED BY <2>1
<1>6. ASSUME NEW x, NEW v, M = CfgInfoReq(x, v) PROVE x = s /\ v = p
  BY <1>6 DEF CfgInfoReq
<1>7. ASSUME r \in Rows(sessions[q].cfgs), V \subseteq W,
             \A v \in SetId \ W : M # CfgInfoReq(q, v)
      PROVE  EndsIn(out, had, q, W)
  <2>1. had
    BY <1>1, <1>2, <1>3, <1>7 DEF SystemInv, AtWork
  <2>2. ~Strays(M, q, W)
    BY <1>7 DEF Strays, Sets
  <2> HIDE DEF had, W, out, M
  <2>3. QED BY <1>5, <2>1, <2>2, EndsAll
<1>8. CASE q # s
  <2>1. r \in Rows(sessions[q].cfgs)
    BY <1>8
  <2>2. V \subseteq W
    BY <1>8 DEF Fitting, Ask
  <2>3. QED BY <1>6, <1>7, <1>8, <2>1, <2>2
<1>9. CASE q = s /\ ip = NoName
  <2>1. CASE gns = r[1]
    <3>1. new[1] = r[1] /\ new[3] = p /\ Distinct(sessions'[s].cfgs)
      BY <1>9, <2>1 DEF AllDistinct
    <3>2. r = new
      <4> HIDE DEF new
      <4>1. new \in Rows(sessions'[s].cfgs)
        BY DEF new
      <4>2. QED BY <1>4, <1>9, <3>1, <4>1, NamedOnce
    <3>3. r[3] = p /\ p \in W
      BY <1>4, <3>1, <3>2 DEF Fitting
    <3>4. out # << >>
      BY <1>3, <1>4, <1>9, <2>1 DEF SettingSent
    <3>5. OnlyTells(out, s, p)
      <4>1. 1 \in 1 .. Len(out)
        BY <1>5, <3>4
      <4>2. QED BY <1>5, <1>6, <4>1 DEF OnlyTells
    <3> HIDE DEF out, W, had
    <3>6. QED BY <1>9, <3>3, <3>5, OnlyTellsEnds
  <2>2. CASE gns # r[1]
    <3>1. r # new
      BY <2>2
    <3>2. r \in Rows(sessions[q].cfgs)
      BY <1>9, <3>1
    <3>3. V \subseteq W
      BY <1>4, <1>9, <2>2 DEF Fitting, Ask
    <3>4. had
      BY <1>1, <1>2, <1>3, <3>2, <3>3 DEF SystemInv, AtWork
    <3>5. out = << >>
      BY <1>3, <1>4, <1>9, <2>2 DEF SettingSent
    <3> HIDE DEF out, W, had
    <3>6. QED BY <3>4, <3>5, EndsEmpty
  <2>3. QED BY <2>1, <2>2
<1>10. CASE q = s /\ ip # NoName
  <2>1. r # new /\ new[2] = ip
    BY <1>4, <1>10
  <2>2. r \in Rows(sessions[q].cfgs)
    BY <1>10, <2>1
  <2>3. later' = later \cup ({s} \X Gns \X {ip} \X {p})
    BY <1>10 DEF Ask
  <2>4. V \subseteq W
    BY <2>3 DEF Fitting
  <2>5. CASE out = << >>
    <3>1. had
      BY <1>1, <1>2, <1>3, <2>2, <2>4 DEF SystemInv, AtWork
    <3> HIDE DEF out, W, had
    <3>2. QED BY <2>5, <3>1, EndsEmpty
  <2>6. CASE out # << >>
    <3>1. SelfAddr[c] = ip
      BY <1>3, <1>10, <2>6 DEF SettingSent
    <3>2. GnsName[c] \in Gns
      BY <1>2, SystemAssumption
    <3>3. <<s, GnsName[c], SelfAddr[c], p>> \in later'
      BY <2>3, <3>1, <3>2
    <3>4. p \in SetId => p \in W
      BY <1>10, <3>3 DEF Fitting
    <3>5. \A v \in SetId \ W : M # CfgInfoReq(q, v)
      BY <1>6, <3>4
    <3>6. QED BY <1>7, <2>2, <2>4, <3>5
  <2>7. QED BY <2>5, <2>6
<1>11. QED BY <1>8, <1>9, <1>10

LEMMA SettingStep ==
  ASSUME SystemInv, [Next]_vars, NEW s \in issued, NEW gns \in Gns \cup {NoName},
         NEW ip \in IpPort \cup {NoName}, NEW p \in Param,
         BrowserSets(s, gns, ip, p), s \in DOMAIN sessions
  PROVE  SystemInv'
<1> DEFINE cfgs == NewCfgs(s, gns, ip, p)
           old == sessions[s].cfgs
<1>1. PICK tag \in Tag : SetConfig(CgiFd, tag, s, gns, ip, p)
  BY DEF BrowserSets
<1>2. /\ Deliver /\ UNCHANGED <<clientVars, peer, clientEnd>>
      /\ Ask(s, gns, ip, p) /\ asked' = asked \cup {<<s, gns, ip, p>>}
      /\ cliInfo' = cliInfo /\ issued' = issued
      /\ \A fd \in Fd : conns'[fd] = "open" => conns[fd] = "open"
  <2>1. Ask(s, gns, ip, p) /\ Deliver
    BY DEF BrowserSets
  <2>2. QED BY <1>1, <2>1 DEF Deliver, SetConfig, Ask, SendMsg
<1>3. /\ IInv' /\ AllDistinct' /\ Linked' /\ Filtered' /\ OnlyAsked'
      /\ issued \subseteq issued' /\ Ended \subseteq Ended'
  BY <1>2, ServerKeeps
<1>4. SettingSent(s, gns, ip, p)
  BY <1>1, SettingIsSent DEF SystemInv
<1>5. Told
  BY <1>2, <1>4, SettingTold DEF SystemInv
<1>6. GoingUp'
  <2>1. up[CgiFd] = << >>
    BY DEF SystemInv, GoingUp
  <2>2. CfgInfoReq(s, p) \in Own
    BY DEF Own, CfgInfoReq, SystemInv, IInv, OtherTypes
  <2>3. ASSUME NEW fd \in Fd, up[fd] # << >>, sent'[fd] # << >>
        PROVE  sent'[fd][Len(sent'[fd])] \in Own
    <3>1. sent'[fd] \in Seq({CfgInfoReq(s, p)})
      BY <1>4, <2>1, <2>3 DEF SettingSent
    <3>2. sent'[fd][Len(sent'[fd])] \in {CfgInfoReq(s, p)}
      BY <2>3, <3>1, LastIn
    <3>3. QED BY <2>2, <3>2
  <2>4. UpDrains
    BY <2>3, OverwriteDrains DEF BrowserSets, SystemInv
  <2>5. QED BY <1>2, <1>3, <2>4, UpKept DEF SystemInv
<1>7. GoingDown'
  BY <1>2, <1>3, <1>5, DownKept DEF SystemInv
<1>8. ListedAsItIs'
  <2>1. ListKept
    BY <1>1, <1>2, SendingKeeps DEF SetConfig
  <2>2. QED BY <1>2, <2>1, ListedKept DEF SystemInv
<1>9. /\ DOMAIN sessions' = DOMAIN sessions /\ sessions'[s].cfgs = cfgs
      /\ \A q \in DOMAIN sessions \ {s} : sessions'[q] = sessions[q]
  BY <1>1 DEF SetConfig
<1>10. LET n == Len(cfgs)
       IN /\ n \in Nat \ {0}
          /\ cfgs[n].gns_name = gns /\ cfgs[n].ip_port = ip /\ cfgs[n].p = p
          /\ Rows(cfgs) \subseteq Rows(old) \cup {<<gns, ip, p>>}
  BY NewRows DEF SystemInv, IInv
<1> HIDE DEF cfgs
<1>11. <<gns, ip, p>> \in Rows(cfgs)
  <2>1. Len(cfgs) \in 1 .. Len(cfgs)
    BY <1>10
  <2>2. QED BY <1>10, <2>1 DEF Rows
<1>12. Recorded'
  <2>1. IsFiniteSet(DOMAIN sessions')
    BY OverStays DEF SystemInv
  <2>2. asked' \subseteq issued' \X (Gns \cup {NoName}) \X (IpPort \cup {NoName}) \X Param
    BY <1>2 DEF SystemInv, Recorded
  <2>3. ASSUME NEW q \in DOMAIN sessions', NEW r \in Rows(sessions'[q].cfgs)
        PROVE  <<q, r[1], r[2], r[3]>> \in asked'
    <3>1. \/ q \in DOMAIN sessions /\ r \in Rows(sessions[q].cfgs)
          \/ q = s /\ r = <<gns, ip, p>>
      BY <1>9, <1>10
    <3>2. CASE q \in DOMAIN sessions /\ r \in Rows(sessions[q].cfgs)
      <4>1. <<q, r[1], r[2], r[3]>> \in asked
        BY <3>2 DEF SystemInv, Recorded
      <4>2. QED BY <1>2, <4>1
    <3>3. CASE q = s /\ r = <<gns, ip, p>>
      BY <1>2, <3>3
    <3>4. QED BY <3>1, <3>2, <3>3
  <2>4. QED BY <2>1, <2>2, <2>3 DEF Recorded
<1>13. AtWork'
  <2>1. Heeded
    BY <1>2, <1>3, <1>4, <1>9, <1>10, <1>11, SettingHeeded
  <2>2. DOMAIN cliInfo' \subseteq Fd
    BY <1>2 DEF SystemInv, IInv, OtherTypes, IsPartial
  <2>3. asked \subseteq asked'
    BY <1>2
  <2>4. QED BY <1>2, <1>3, <1>5, <2>1, <2>2, <2>3, HeededKeeps DEF SystemInv
<1>14. QED BY <1>3, <1>6, <1>7, <1>8, <1>12, <1>13 DEF SystemInv

LEMMA SetStep ==
  ASSUME SystemInv, [Next]_vars, NEW s \in issued, NEW gns \in Gns \cup {NoName},
         NEW ip \in IpPort \cup {NoName}, NEW p \in Param, BrowserSets(s, gns, ip, p)
  PROVE  SystemInv'
<1>1. CASE s \in DOMAIN sessions
  BY <1>1, SettingStep
<1>2. CASE s \notin DOMAIN sessions
  <2>1. PICK tag \in Tag : SetConfig(CgiFd, tag, s, gns, ip, p)
    BY DEF BrowserSets
  <2>2. PICK m : SendMsg(To(CgiFd, m))
    BY <1>2, <2>1 DEF SetConfig
  <2>3. cliInfo' = cliInfo /\ UNCHANGED sessions
    BY <1>2, <2>1 DEF SetConfig
  <2>4. ListKept /\ OnlyChatter /\ RowsKept
    BY <2>2, <2>3, SendingKeeps, CgiTold DEF SystemInv, RowsKept
  <2>5. UpDrains
    <3>1. up[CgiFd] = << >>
      BY DEF SystemInv, GoingUp
    <3>2. \A fd \in Fd \ {CgiFd} : sent'[fd] = << >>
      BY <2>2 DEF SendMsg, To, Nothing
    <3>3. QED BY <3>1, <3>2, OverwriteDrains DEF BrowserSets, SystemInv
  <2>6. QED BY <1>2, <2>4, <2>5, QuietStep DEF BrowserSets, Deliver
<1>3. QED BY <1>1, <1>2

\* Every step of the server and of the browser keeps the invariant.
LEMMA ServerSide ==
  ASSUME SystemInv, [Next]_vars, ServerStep \/ BrowserStep
  PROVE  SystemInv'
<1>1. CASE ServerStep
  <2>1. ASSUME NEW fd \in Fd, ServerReads(fd) PROVE SystemInv'
    BY <2>1, ReadStep
  <2>2. CASE \E fd \in Fd : ServerAccepts(fd) \/ ServerReleases(fd)
    BY <2>2, ConnectionStep
  <2>3. CASE ServerExpires \/ TimePasses \/ ServerStarts
    BY <2>3, TimerSteps
  <2>4. CASE ServerChecksIdle
    BY <2>4, IdleCheckStep
  <2>5. CASE ServerStops
    BY <2>5, DropStep DEF ServerStops, Kill
  <2>6. QED BY <1>1, <2>1, <2>2, <2>3, <2>4, <2>5 DEF ServerStep
<1>2. CASE BrowserStep
  <2>1. ASSUME NEW s \in issued, NEW gns \in Gns \cup {NoName},
               NEW ip \in IpPort \cup {NoName}, NEW p \in Param, BrowserSets(s, gns, ip, p)
        PROVE  SystemInv'
    BY <2>1, SetStep
  <2>2. CASE CgiConnects
    BY <2>2, ConnectionStep
  <2>3. CASE BrowserLogsIn \/ \E s \in issued : BrowserFetches(s)
    BY <2>3, LoginAndFetch
  <2>4. QED BY <1>2, <2>1, <2>2, <2>3 DEF BrowserStep
<1>3. QED BY <1>1, <1>2

----------------------------------------------------------------------------
(* The steps of a client *)

States == {"off", "aborted", "null", "dead", "live"}

\* A step of c is its own, and its filters are for what was asked of it.
Moves(c) ==
  /\ con' \in [Client -> States] /\ DOMAIN filters' = Client
  /\ \A d \in Client \ {c} : con'[d] = con[d] /\ filters'[d] = filters[d]
  /\ con'[c] \in {"off", "aborted"} => filters'[c] = Cl!NoFilters
  /\ \A s \in DOMAIN filters'[c] :
       \E a \in asked : /\ a[1] = s /\ a[4] = filters'[c][s]
                        /\ a[2] = GnsName[c] \/ a[3] = SelfAddr[c]

\* It reaches one descriptor, which is its own before and after or nobody's.
Touches(c, fd) ==
  /\ \A e \in Fd \ {fd} :
       /\ peer[e] # c /\ peer'[e] = peer[e] /\ up'[e] = up[e] /\ down'[e] = down[e]
       /\ e \in deafClient \cup missedClient => e \in deafClient' \cup missedClient'
  /\ peer' \in [Fd -> Client \cup {Nobody}] /\ DOMAIN up' = Fd /\ DOMAIN down' = Fd
  /\ peer'[fd] \in {c, Nobody}
  /\ up'[fd] \in Seq(Written(fd)') /\ (fd = CgiFd => up'[fd] = << >>)
  /\ peer'[fd] = Nobody => down'[fd] = << >>
  /\ peer'[fd] = c =>
       /\ con'[c] = "live" /\ fd # CgiFd
       /\ fd \in DOMAIN cliInfo /\ conns[fd] = "open" => peer[fd] = c
       /\ down'[fd] \in Seq(Found(c))
       /\ fd \in DOMAIN cliInfo \ (deafClient' \cup missedClient') /\ conns[fd] = "open" =>
            \A s \in DOMAIN sessions : \A r \in Rows(sessions[s].cfgs) :
              Serves(r, c) => Hears(fd, s, r[3])'

LEMMA TouchKeeps ==
  ASSUME SystemInv, UNCHANGED <<vars, history>>, NEW c \in Client, NEW fd \in Fd,
         Moves(c), Touches(c, fd)
  PROVE  SystemInv'
<1>1. /\ conns' = conns /\ cliInfo' = cliInfo /\ sessions' = sessions
      /\ issued' = issued /\ asked' = asked /\ later' = later /\ Ended' = Ended
  BY DEF vars, history, Ended
<1>2. IInv' /\ AllDistinct'
  BY <1>1, IInvNext DEF SystemInv, AllDistinct
<1>3. Linked'
  <2>1. con' \in [Client -> {"off", "aborted", "null", "dead", "live"}]
    BY DEF Moves, States
  <2>2. peer' \in [Fd -> Client \cup {Nobody}]
    BY DEF Touches
  <2>3. peer'[CgiFd] = Nobody
    BY SystemAssumption DEF Touches, SystemInv, Linked
  <2>4. ASSUME NEW e \in Fd, peer'[e] \in Client PROVE con'[peer'[e]] = "live"
    <3>1. CASE e = fd
      BY <2>4, <3>1, SystemAssumption DEF Touches
    <3>2. CASE e # fd
      <4>1. peer'[e] = peer[e] /\ peer[e] # c /\ con[peer[e]] = "live"
        BY <2>4, <3>2 DEF Touches, SystemInv, Linked
      <4>2. QED BY <2>4, <4>1 DEF Moves
    <3>3. QED BY <3>1, <3>2
  <2>5. ASSUME NEW e \in Fd, NEW g \in Fd, peer'[e] \in Client, peer'[g] = peer'[e]
        PROVE  g = e
    <3>1. \A h \in Fd \ {fd} : peer'[h] = peer[h] /\ peer[h] # c
      BY DEF Touches
    <3>2. peer'[fd] \in {c, Nobody} /\ Nobody \notin Client
      BY SystemAssumption DEF Touches
    <3>3. CASE e = fd \/ g = fd
      BY <2>5, <3>1, <3>2, <3>3
    <3>4. CASE e # fd /\ g # fd
      BY <2>5, <3>1, <3>4 DEF SystemInv, Linked
    <3>5. QED BY <3>3, <3>4
  <2>6. QED BY <2>1, <2>2, <2>3, <2>4, <2>5 DEF Linked
<1>4. OnlyAsked'
  <2>1. ASSUME NEW d \in Client, NEW s \in DOMAIN filters'[d]
        PROVE  \E a \in asked : /\ a[1] = s /\ a[4] = filters'[d][s]
                                /\ a[2] = GnsName[d] \/ a[3] = SelfAddr[d]
    <3>1. CASE d = c
      BY <3>1 DEF Moves
    <3>2. CASE d # c
      <4>1. filters'[d] = filters[d]
        BY <3>2 DEF Moves
      <4>2. QED BY <4>1 DEF SystemInv, OnlyAsked
    <3>3. QED BY <3>1, <3>2
  <2>2. QED BY <1>1, <2>1 DEF OnlyAsked
<1>5. Filtered'
  <2>1. ASSUME NEW d \in Client PROVE DOMAIN filters'[d] \subseteq issued
    <3>1. \A a \in asked : a[1] \in issued
      BY DEF SystemInv, Recorded
    <3>2. QED BY <1>1, <1>4, <3>1 DEF OnlyAsked
  <2>2. ASSUME NEW d \in Client, con'[d] \notin {"null", "dead", "live"}
        PROVE  filters'[d] = Cl!NoFilters
    <3>1. CASE d = c
      BY <2>2, <3>1 DEF Moves, States
    <3>2. CASE d # c
      BY <2>2, <3>2 DEF Moves, SystemInv, Filtered, Cl!Running
    <3>3. QED BY <3>1, <3>2
  <2>3. Cl!NoFilters' = Cl!NoFilters
    BY DEF Cl!NoFilters
  <2>4. DOMAIN filters' = Client
    BY DEF Moves
  <2>5. QED BY <1>1, <2>1, <2>2, <2>3, <2>4 DEF Filtered, Cl!Running
<1>6. GoingUp'
  <2>1. ASSUME NEW e \in Fd PROVE up'[e] \in Seq(Written(e)')
    <3>1. CASE e = fd
      BY <3>1 DEF Touches
    <3>2. CASE e # fd
      <4>1. up'[e] = up[e] /\ peer'[e] = peer[e]
        BY <3>2 DEF Touches
      <4>2. Written(e)' = Written(e)
        BY <1>1, <4>1 DEF Written, Writers
      <4>3. QED BY <4>1, <4>2 DEF SystemInv, GoingUp
    <3>3. QED BY <3>1, <3>2
  <2>2. up'[CgiFd] = << >>
    BY SystemAssumption DEF Touches, SystemInv, GoingUp
  <2>3. QED BY <2>1, <2>2 DEF GoingUp, Touches
<1>7. GoingDown'
  <2>1. ASSUME NEW e \in Fd
        PROVE  /\ peer'[e] \in Client => down'[e] \in Seq(Found(peer'[e]))
               /\ peer'[e] \notin Client => down'[e] = << >>
    <3>1. CASE e = fd
      BY <3>1, SystemAssumption DEF Touches
    <3>2. CASE e # fd
      <4>1. down'[e] = down[e] /\ peer'[e] = peer[e]
        BY <3>2 DEF Touches
      <4>2. QED BY <4>1 DEF SystemInv, GoingDown
    <3>3. QED BY <3>1, <3>2
  <2>2. \A d : Found(d)' = Found(d)
    BY <1>1 DEF Found
  <2>3. ASSUME NEW e \in Fd, peer'[e] \in Client
        PROVE  down'[e] \in Seq(Found(peer[e])')
    <3>1. Found(peer'[e]) = Found(peer[e])'
      BY <1>1 DEF Found
    <3>2. QED BY <2>1, <2>3, <3>1
  <2>4. QED BY <2>1, <2>3 DEF GoingDown, Touches
<1>8. DOMAIN cliInfo \subseteq Fd
  BY DEF SystemInv, IInv, OtherTypes, IsPartial
<1>9. ListedAsItIs'
  <2>1. \A e \in DOMAIN cliInfo :
          conns[e] = "open" /\ peer'[e] \in Client => peer'[e] = peer[e]
    BY <1>8, SystemAssumption DEF Touches
  <2>2. QED BY <1>1, <2>1 DEF SystemInv, ListedAsItIs
<1>10. Recorded'
  BY <1>1 DEF SystemInv, Recorded
<1>11. AtWork'
  <2>1. ASSUME NEW e \in DOMAIN cliInfo \ (deafClient' \cup missedClient'),
               NEW s \in DOMAIN sessions, NEW r \in Rows(sessions[s].cfgs),
               conns[e] = "open", peer'[e] \in Client, Serves(r, peer'[e])
        PROVE  Hears(e, s, r[3])'
    <3>1. e \in Fd
      BY <1>8
    <3>2. CASE e = fd
      <4>1. peer'[e] = c
        BY <2>1, <3>2, SystemAssumption DEF Touches
      <4>2. QED BY <2>1, <3>2, <4>1 DEF Touches
    <3>3. CASE e # fd
      <4>1. /\ peer'[e] = peer[e] /\ peer[e] # c /\ down'[e] = down[e]
            /\ e \notin deafClient \cup missedClient
        BY <3>1, <3>3 DEF Touches
      <4>2. filters'[peer[e]] = filters[peer[e]]
        BY <2>1, <4>1 DEF Moves
      <4>3. Hears(e, s, r[3])
        BY <2>1, <4>1 DEF SystemInv, AtWork
      <4>4. Hears(e, s, r[3])' <=> Hears(e, s, r[3])
        BY <1>1, <4>1, <4>2 DEF Hears, Fitting, Has, EndsIn, Sets, Strays
      <4>5. QED BY <4>3, <4>4
    <3>4. QED BY <3>2, <3>3
  <2>2. QED BY <1>1, <2>1 DEF AtWork, Serves
<1>12. QED
  BY <1>2, <1>3, <1>4, <1>5, <1>6, <1>7, <1>9, <1>10, <1>11 DEF SystemInv

\* What c wrote may be on its way up, behind what was.
LEMMA SaidUp ==
  ASSUME GoingUp, NEW c \in Client, NEW fd \in Fd, peer[fd] = c, peer' = peer,
         issued' = issued, said'[c] \in Seq(Sayings(c, issued))
  PROVE  up[fd] \o said'[c] \in Seq(Written(fd)')
<1> DEFINE W == Sayings(c, issued)
           T == Written(fd)
           q == up[fd]
           r == said'[c]
<1>1. W \subseteq T /\ Written(fd)' = T
  BY DEF Written, Writers
<1>2. q \in Seq(T) /\ r \in Seq(W)
  BY DEF GoingUp
<1> HIDE DEF W, T, q, r
<1>3. r \in Seq(T)
  BY <1>1, <1>2, SeqMono
<1>4. q \o r \in Seq(T)
  BY <1>2, <1>3
<1>5. QED BY <1>1, <1>4 DEF q, r

\* A connection belongs to one client, which has no other.
LEMMA OneLink ==
  ASSUME Linked, NEW c \in Client, NEW fd \in Links(c)
  PROVE  /\ fd \in Fd /\ peer[fd] = c /\ fd # CgiFd /\ con[c] = "live"
         /\ \A e \in Fd \ {fd} : peer[e] # c
BY SystemAssumption DEF Linked, Links

LEMMA OpenStep ==
  ASSUME SystemInv, UNCHANGED <<vars, history>>, NEW c \in Client, Moves(c),
         said'[c] \in Seq(Sayings(c, issued)), con'[c] = "live",
         Links(c) = {}, NEW fd \in Fd, Vacant(fd), Open(c, fd)
  PROVE  SystemInv'
<1>1. /\ peer' = [peer EXCEPT ![fd] = c] /\ up' = [up EXCEPT ![fd] = said'[c]]
      /\ UNCHANGED <<down, deafClient, missedClient>> /\ issued' = issued
  BY DEF Open, vars, clientEnd
<1>2. /\ peer \in [Fd -> Client \cup {Nobody}] /\ DOMAIN up = Fd /\ DOMAIN down = Fd
  BY DEF SystemInv, Linked, GoingUp, GoingDown
<1>3. peer'[fd] = c /\ up'[fd] = said'[c] /\ down'[fd] = << >> /\ fd # CgiFd
  BY <1>1, <1>2, SystemAssumption DEF Vacant, SystemInv, GoingDown
<1>4. \A e \in Fd \ {fd} :
        peer[e] # c /\ peer'[e] = peer[e] /\ up'[e] = up[e] /\ down'[e] = down[e]
  BY <1>1, <1>2 DEF Links
<1>5. conns[fd] # "open"
  BY DEF Vacant
<1>6. up'[fd] \in Seq(Written(fd)')
  <2> DEFINE W == Sayings(c, issued)
             T == Written(fd)'
             q == up'[fd]
  <2>1. W \subseteq T
    BY <1>1, <1>3 DEF Written, Writers
  <2>2. q \in Seq(W)
    BY <1>3
  <2> HIDE DEF W, T, q
  <2>3. q \in Seq(T)
    BY <2>1, <2>2, SeqMono
  <2>4. QED BY <2>3 DEF T, q
<1>7. ASSUME NEW T PROVE << >> \in Seq(T)
  OBVIOUS
<1>8. c # Nobody
  BY SystemAssumption
<1>9. peer' \in [Fd -> Client \cup {Nobody}] /\ DOMAIN up' = Fd /\ DOMAIN down' = Fd
  BY <1>1, <1>2
<1>10. Touches(c, fd)
  BY <1>1, <1>3, <1>4, <1>5, <1>6, <1>7, <1>8, <1>9 DEF Touches
<1>11. QED BY <1>10, TouchKeeps

LEMMA IdleStep ==
  ASSUME SystemInv, UNCHANGED <<vars, history, wireVars>>, NEW c \in Client, Moves(c),
         Links(c) = {}
  PROVE  SystemInv'
<1>1. CgiFd \in Fd /\ peer[CgiFd] = Nobody /\ Nobody # c /\ Nobody \notin Client
  BY SystemAssumption DEF SystemInv, Linked
<1>2. UNCHANGED <<peer, up, down, deafClient, missedClient, issued>>
  BY DEF wireVars, vars, clientEnd
<1>3. Written(CgiFd)' = Written(CgiFd)
  BY <1>2 DEF Written, Writers
<1>4. /\ up'[CgiFd] \in Seq(Written(CgiFd)') /\ down'[CgiFd] = << >>
      /\ up'[CgiFd] = << >>
  BY <1>1, <1>2, <1>3 DEF SystemInv, GoingUp, GoingDown
<1>5. /\ peer' \in [Fd -> Client \cup {Nobody}] /\ DOMAIN up' = Fd /\ DOMAIN down' = Fd
  BY <1>2 DEF SystemInv, Linked, GoingUp, GoingDown
<1>6. \A e \in Fd \ {CgiFd} : peer[e] # c
  BY DEF Links
<1>7. Touches(c, CgiFd)
  BY <1>1, <1>2, <1>4, <1>5, <1>6 DEF Touches
<1>8. QED BY <1>1, <1>7, TouchKeeps

LEMMA CloseStep ==
  ASSUME SystemInv, UNCHANGED <<vars, history>>, NEW c \in Client, Moves(c),
         NEW fd \in Links(c), Close(fd)
  PROVE  SystemInv'
<1>1. /\ peer' = [peer EXCEPT ![fd] = Nobody]
      /\ up' = [up EXCEPT ![fd] = IF conns[fd] = "open" THEN @ ELSE << >>]
      /\ down' = [down EXCEPT ![fd] = << >>] /\ deafClient' = deafClient \ {fd}
      /\ missedClient' = missedClient \ {fd} /\ issued' = issued
  BY DEF Close, vars
<1>2. /\ peer \in [Fd -> Client \cup {Nobody}] /\ DOMAIN up = Fd /\ DOMAIN down = Fd
  BY DEF SystemInv, Linked, GoingUp, GoingDown
<1>3. /\ fd \in Fd /\ peer[fd] = c /\ fd # CgiFd /\ \A e \in Fd \ {fd} : peer[e] # c
      /\ c # Nobody /\ Nobody \notin Client
  BY OneLink, SystemAssumption DEF SystemInv
<1>4. peer'[fd] = Nobody /\ down'[fd] = << >> /\ (up'[fd] = up[fd] \/ up'[fd] = << >>)
  BY <1>1, <1>2, <1>3
<1>5. \A e \in Fd \ {fd} :
        /\ peer'[e] = peer[e] /\ up'[e] = up[e] /\ down'[e] = down[e]
        /\ e \in deafClient \cup missedClient => e \in deafClient' \cup missedClient'
  BY <1>1, <1>2
<1>6. up'[fd] \in Seq(Written(fd)')
  <2>1. Written(fd) \subseteq Written(fd)'
    BY <1>1, <1>3, <1>4 DEF Written, Writers
  <2>2. up[fd] \in Seq(Written(fd))
    BY <1>3 DEF SystemInv, GoingUp
  <2>3. ASSUME NEW T PROVE << >> \in Seq(T)
    OBVIOUS
  <2>4. QED BY <1>4, <2>1, <2>2, <2>3, SeqMono
<1>7. peer' \in [Fd -> Client \cup {Nobody}] /\ DOMAIN up' = Fd /\ DOMAIN down' = Fd
  BY <1>1, <1>2
<1>8. Touches(c, fd)
  BY <1>3, <1>4, <1>5, <1>6, <1>7 DEF Touches
<1>9. QED BY <1>3, <1>8, TouchKeeps

\* The client goes on with its connection: what it leaves unread is `rest'.
LEMMA UseStep ==
  ASSUME SystemInv, UNCHANGED <<vars, history>>, NEW c \in Client, Moves(c),
         said'[c] \in Seq(Sayings(c, issued)), con'[c] = "live",
         NEW fd \in Links(c), NEW rest \in Seq(Found(c)), Use(c, fd, rest),
         fd \notin deafClient =>
           \A s \in DOMAIN sessions, V \in SUBSET SetId :
             EndsIn(down[fd], Has(c, s, V), s, V) => EndsIn(rest, Has(c, s, V)', s, V)
  PROVE  SystemInv'
<1>1. /\ up' = [up EXCEPT ![fd] = IF Alive(fd) THEN @ \o said'[c] ELSE @]
      /\ \/ down' = [down EXCEPT ![fd] = rest]
         \/ /\ said'[c] # << >> /\ fd \in missedClient'
            /\ \E k \in 1 .. Len(rest) :
                 down' = [down EXCEPT ![fd] = Covered(rest, k, said'[c])]
      /\ peer' = peer /\ deafClient \subseteq deafClient'
      /\ missedClient \subseteq missedClient' /\ issued' = issued
  BY DEF Use, vars, clientEnd
<1>2. /\ peer \in [Fd -> Client \cup {Nobody}] /\ DOMAIN up = Fd /\ DOMAIN down = Fd
  BY DEF SystemInv, Linked, GoingUp, GoingDown
<1>3. /\ fd \in Fd /\ peer[fd] = c /\ fd # CgiFd /\ \A e \in Fd \ {fd} : peer[e] # c
      /\ c # Nobody
  BY OneLink, SystemAssumption DEF SystemInv
<1>4. /\ peer'[fd] = c /\ (up'[fd] = up[fd] \/ up'[fd] = up[fd] \o said'[c])
      /\ \/ down'[fd] = rest
         \/ /\ said'[c] # << >> /\ fd \in missedClient'
            /\ \E k \in 1 .. Len(rest) : down'[fd] = Covered(rest, k, said'[c])
  BY <1>1, <1>2, <1>3
<1>5. \A e \in Fd \ {fd} :
        /\ peer'[e] = peer[e] /\ up'[e] = up[e] /\ down'[e] = down[e]
        /\ e \in deafClient \cup missedClient => e \in deafClient' \cup missedClient'
  BY <1>1, <1>2
<1>6. up'[fd] \in Seq(Written(fd)')
  <2>1. Written(fd)' = Written(fd)
    BY <1>1 DEF Written, Writers
  <2>2. up[fd] \in Seq(Written(fd))
    BY <1>3 DEF SystemInv, GoingUp
  <2>3. up[fd] \o said'[c] \in Seq(Written(fd)')
    BY <1>1, <1>3, SaidUp DEF SystemInv
  <2>4. QED BY <1>4, <2>1, <2>2, <2>3
<1>7. peer' \in [Fd -> Client \cup {Nobody}] /\ DOMAIN up' = Fd /\ DOMAIN down' = Fd
  BY <1>1, <1>2
<1>8. ASSUME fd \in DOMAIN cliInfo \ (deafClient' \cup missedClient'), conns[fd] = "open",
             NEW s \in DOMAIN sessions, NEW r \in Rows(sessions[s].cfgs), Serves(r, c)
      PROVE  Hears(fd, s, r[3])'
  <2> DEFINE V == Fitting(c, s, r[3], later)
  <2>1. fd \in DOMAIN cliInfo \ (deafClient \cup missedClient) /\ down'[fd] = rest
    BY <1>1, <1>4, <1>8
  <2>2. EndsIn(down[fd], Has(c, s, V), s, V)
    BY <1>3, <1>8, <2>1 DEF SystemInv, AtWork, Hears
  <2>3. V \in SUBSET SetId
    BY DEF Fitting
  <2> DEFINE had == s \in DOMAIN filters'[c] /\ filters'[c][s] \in V
  <2>4. EndsIn(rest, had, s, V)
    <3> HIDE DEF V
    <3>1. EndsIn(rest, s \in DOMAIN filters'[c] /\ filters'[c][s] \in V, s, V)
      BY <2>1, <2>2, <2>3 DEF Has
    <3>2. QED BY <3>1
  <2>5. Hears(fd, s, r[3])' <=> EndsIn(down'[fd], had, s, V)
    <3>1. later' = later
      BY DEF history
    <3>2. QED BY <1>4, <3>1 DEF Hears, Fitting, EndsIn, Has, Sets, Strays
  <2>6. QED BY <2>1, <2>4, <2>5
<1>9. down'[fd] \in Seq(Found(c))
  <2>1. CASE down'[fd] = rest
    BY <2>1
  <2>2. ASSUME said'[c] # << >>, NEW k \in 1 .. Len(rest),
               down'[fd] = Covered(rest, k, said'[c])
        PROVE  down'[fd] \in Seq(Found(c))
    <3> DEFINE T == Found(c)
               W == Sayings(c, issued)
               out == said'[c]
    <3>1. W \subseteq T
      BY DEF Found
    <3>2. out \in Seq(W) /\ out # << >> /\ down'[fd] = Covered(rest, k, out)
      BY <2>2
    <3>3. rest \in Seq(T)
      OBVIOUS
    <3> HIDE DEF T, W, out
    <3>4. out[Len(out)] \in T
      BY <3>1, <3>2, LastIn
    <3>5. down'[fd] \in Seq(T)
      BY <3>2, <3>3, <3>4, CoveredIn
    <3>6. QED BY <3>5 DEF T
  <2>3. QED BY <1>4, <2>1, <2>2
<1>10. Touches(c, fd)
  BY <1>3, <1>4, <1>5, <1>6, <1>7, <1>8, <1>9 DEF Touches
<1>11. QED BY <1>3, <1>10, TouchKeeps

\* A step that may connect and write, and does not touch the filters.
LEMMA WireStep ==
  ASSUME SystemInv, UNCHANGED <<vars, history>>, NEW c \in Client, Moves(c),
         said'[c] \in Seq(Sayings(c, issued)), NEW k, NEW w \in BOOLEAN, Wire(c, k, w),
         Links(c) = {} \/ filters'[c] = filters[c],
         con[c] # "dead" /\ k = "live" /\ w => con'[c] = "live"
  PROVE  SystemInv'
<1>1. CASE Links(c) = {} /\ con'[c] = "live" /\ \E fd \in Fd : Vacant(fd) /\ Open(c, fd)
  BY <1>1, OpenStep
<1>2. CASE Links(c) = {} /\ UNCHANGED wireVars
  BY <1>2, IdleStep
<1>3. ASSUME NEW fd \in Links(c), Over(c, fd, down[fd]) PROVE SystemInv'
  <2>1. CASE con'[c] # "live"
    BY <1>3, <2>1, CloseStep DEF Over
  <2>2. CASE con'[c] = "live"
    <3>1. Use(c, fd, down[fd])
      BY <1>3, <2>2 DEF Over
    <3>2. down[fd] \in Seq(Found(c))
      BY OneLink DEF SystemInv, GoingDown
    <3>3. ASSUME NEW s, NEW V
          PROVE  EndsIn(down[fd], Has(c, s, V), s, V)
                   => EndsIn(down[fd], Has(c, s, V)', s, V)
      BY DEF Has
    <3>4. QED BY <2>2, <3>1, <3>2, <3>3, UseStep
  <2>3. QED BY <2>1, <2>2
<1>4. QED BY <1>1, <1>2, <1>3 DEF Wire

\* What c asks, heartbeats or uploads is among what it may say.
LEMMA SaysOne ==
  ASSUME NEW c \in Client, NEW m \in Sayings(c, issued),
         Cl!Says(c, m) \/ said' = Cl!Silent
  PROVE  said'[c] \in Seq(Sayings(c, issued))
<1> DEFINE W == Sayings(c, issued)
<1>1. said'[c] = <<m>> \/ said'[c] = << >>
  BY DEF Cl!Says, Cl!Silent
<1>2. ASSUME NEW T, m \in T PROVE <<m>> \in Seq(T) /\ << >> \in Seq(T)
  BY <1>2
<1>3. QED BY <1>1, <1>2

LEMMA SayingsOK ==
  ASSUME NEW c \in Client
  PROVE  /\ Cl!GnsInfoReq(c) \in Sayings(c, issued) /\ Cl!HeartBeatMsg \in Sayings(c, issued)
         /\ \A s \in issued, t \in Text : Cl!LogInfoReq(c, s, t) \in Sayings(c, issued)
<1>1. ASSUME NEW s \in issued, NEW t \in Text
      PROVE  Cl!LogInfoReq(c, s, t) \in {Cl!LogInfoReq(c, k[1], k[2]) : k \in issued \X Text}
  <2> DEFINE k == <<s, t>>
  <2>1. k \in issued \X Text /\ k[1] = s /\ k[2] = t
    OBVIOUS
  <2> HIDE DEF k
  <2>2. QED BY <2>1
<1>2. QED BY <1>1 DEF Sayings

\* A step of c that leaves every filter alone, or clears all its own.
LEMMA MovesOK ==
  ASSUME SystemInv, NEW c \in Client, NEW x \in States, con' = [con EXCEPT ![c] = x],
         \/ UNCHANGED filters /\ x \notin {"off", "aborted"}
         \/ filters' = [filters EXCEPT ![c] = Cl!NoFilters]
  PROVE  Moves(c) /\ con'[c] = x
<1>1. con \in [Client -> States] /\ DOMAIN filters = Client
  BY DEF SystemInv, Linked, Filtered, States
<1>2. /\ con' \in [Client -> States] /\ con'[c] = x
      /\ \A d \in Client \ {c} : con'[d] = con[d]
  BY <1>1
<1>3. DOMAIN Cl!NoFilters = {}
  BY DEF Cl!NoFilters
<1>4. \A s \in DOMAIN filters[c] :
        \E a \in asked : /\ a[1] = s /\ a[4] = filters[c][s]
                         /\ a[2] = GnsName[c] \/ a[3] = SelfAddr[c]
  BY DEF SystemInv, OnlyAsked
<1>5. CASE UNCHANGED filters /\ x \notin {"off", "aborted"}
  BY <1>1, <1>2, <1>4, <1>5 DEF Moves
<1>6. CASE filters' = [filters EXCEPT ![c] = Cl!NoFilters]
  <2>1. /\ DOMAIN filters' = Client /\ filters'[c] = Cl!NoFilters
        /\ \A d \in Client \ {c} : filters'[d] = filters[d]
    BY <1>1, <1>6
  <2>2. QED BY <1>2, <1>3, <2>1 DEF Moves
<1>7. QED BY <1>5, <1>6

LEMMA BootStep ==
  ASSUME SystemInv, NEW c \in Client, ClientBoots(c)
  PROVE  SystemInv'
<1>1. PICK k \in Outcome, w \in BOOLEAN, g \in BOOLEAN : Cl!Boot(c, g, k, w) /\ Wire(c, k, w)
  BY DEF ClientBoots
<1>2. UNCHANGED <<vars, history>>
  BY DEF ClientBoots
<1> DEFINE x == IF k = "live" THEN Cl!AfterWrite(w) ELSE k
<1>3. x \in States /\ (k = "live" /\ w => x = "live")
  BY DEF Outcome, States, Cl!AfterWrite
<1>4. con' = [con EXCEPT ![c] = x] /\ filters' = [filters EXCEPT ![c] = Cl!NoFilters]
  BY <1>1 DEF Cl!Boot
<1> HIDE DEF x
<1>5. Moves(c) /\ con'[c] = x
  BY <1>3, <1>4, MovesOK
<1>6. said'[c] \in Seq(Sayings(c, issued))
  BY <1>1, SaysOne, SayingsOK DEF Cl!Boot
<1>7. Links(c) = {}
  BY <1>1 DEF Cl!Boot, Cl!Running, Links, SystemInv, Linked
<1>8. QED BY <1>1, <1>2, <1>3, <1>5, <1>6, <1>7, WireStep

\* The timers and the uploads: at most one message, and the filters stay.
LEMMA TalkStep ==
  ASSUME SystemInv, NEW c \in Client,
         \/ ClientReports(c) \/ ClientBeats(c) \/ \E s \in Session : ClientUploads(c, s)
  PROVE  SystemInv'
<1>1. UNCHANGED <<vars, history>>
  BY DEF ClientReports, ClientBeats, ClientUploads
<1>2. ASSUME NEW k, NEW w \in BOOLEAN, Wire(c, k, w), NEW x \in {"null", "dead", "live"},
             con' = [con EXCEPT ![c] = x], UNCHANGED filters,
             con[c] # "dead" /\ k = "live" /\ w => x = "live",
             NEW m \in Sayings(c, issued), Cl!Says(c, m) \/ said' = Cl!Silent
      PROVE  SystemInv'
  <2>1. Moves(c) /\ con'[c] = x
    BY <1>2, MovesOK DEF States
  <2>2. said'[c] \in Seq(Sayings(c, issued))
    BY <1>2, SaysOne
  <2>3. filters'[c] = filters[c]
    BY <1>2
  <2>4. QED BY <1>1, <1>2, <2>1, <2>2, <2>3, WireStep
<1>3. ASSUME NEW k, NEW w \in BOOLEAN, NEW m, Cl!SendMsg(c, k, m, w)
      PROVE  \E x \in {"null", "dead", "live"} :
               /\ con' = [con EXCEPT ![c] = x] /\ (k = "live" /\ w => x = "live")
               /\ Cl!Says(c, m) \/ said' = Cl!Silent
  BY <1>3 DEF Cl!SendMsg, Cl!AfterWrite
<1>4. ASSUME NEW k, NEW w \in BOOLEAN, Cl!ReportSelfInfo(c, k, w)
      PROVE  \E x \in {"null", "dead", "live"} :
               /\ con' = [con EXCEPT ![c] = x] /\ (k = "live" /\ w => x = "live")
               /\ Cl!Says(c, Cl!GnsInfoReq(c)) \/ said' = Cl!Silent
  BY <1>4 DEF Cl!ReportSelfInfo, Cl!AfterWrite
<1>5. ASSUME NEW k, Cl!Running(c)
      PROVE  con[c] # "dead" /\ k = "live" => Cl!Connected(c, k) = "live"
  BY <1>5 DEF Cl!Running, Cl!Connected
<1>6. CASE ClientReports(c)
  <2>1. PICK k \in Outcome, w \in BOOLEAN : Cl!ReportTimer(c, k, w) /\ Wire(c, k, w)
    BY <1>6 DEF ClientReports
  <2>2. Cl!Running(c) /\ Cl!ReportSelfInfo(c, Cl!Connected(c, k), w) /\ UNCHANGED filters
    BY <2>1 DEF Cl!ReportTimer
  <2>3. QED BY <1>2, <1>4, <1>5, <2>1, <2>2, SayingsOK
<1>7. CASE ClientBeats(c)
  <2>1. PICK k \in Outcome, w \in BOOLEAN : Cl!HeartBeatTimer(c, k, w) /\ Wire(c, k, w)
    BY <1>7 DEF ClientBeats
  <2>2. /\ Cl!Running(c) /\ UNCHANGED filters
        /\ Cl!SendMsg(c, Cl!Connected(c, k), Cl!HeartBeatMsg, w)
    BY <2>1 DEF Cl!HeartBeatTimer
  <2>3. QED BY <1>2, <1>3, <1>5, <2>1, <2>2, SayingsOK
<1>8. ASSUME NEW s \in Session, ClientUploads(c, s) PROVE SystemInv'
  <2>1. PICK t \in Text, w \in BOOLEAN : Cl!UploadLog(c, s, t, w) /\ Wire(c, "live", w)
    BY <1>8 DEF ClientUploads
  <2>2. /\ Cl!SendMsg(c, "live", Cl!LogInfoReq(c, s, t), w) /\ UNCHANGED filters
        /\ s \in DOMAIN filters[c]
    BY <2>1 DEF Cl!UploadLog
  <2>3. s \in issued
    BY <2>2 DEF SystemInv, Filtered
  <2>4. Cl!LogInfoReq(c, s, t) \in Sayings(c, issued)
    BY <2>3, SayingsOK
  <2>5. PICK x \in {"null", "dead", "live"} :
          /\ con' = [con EXCEPT ![c] = x] /\ (w => x = "live")
          /\ Cl!Says(c, Cl!LogInfoReq(c, s, t)) \/ said' = Cl!Silent
    BY <1>3, <2>2
  <2>6. QED BY <1>2, <2>1, <2>2, <2>4, <2>5
<1>9. QED BY <1>6, <1>7, <1>8

\* The connection or the process ends.
LEMMA EndStep ==
  ASSUME SystemInv, NEW c \in Client, ClientNotices(c) \/ ClientCrashes(c)
  PROVE  SystemInv'
<1>1. UNCHANGED <<vars, history>>
  BY DEF ClientNotices, ClientCrashes
<1>2. CASE ClientNotices(c)
  <2>1. Moves(c)
    BY <1>2, MovesOK DEF ClientNotices, Cl!ConnectionClosed, States
  <2>2. PICK fd \in Links(c) : Close(fd)
    BY <1>2 DEF ClientNotices
  <2>3. QED BY <1>1, <2>1, <2>2, CloseStep
<1>3. CASE ClientCrashes(c)
  <2>1. Moves(c)
    BY <1>3, MovesOK DEF ClientCrashes, Cl!Crash, Cl!Stop, States
  <2>2. CASE Links(c) = {}
    BY <1>1, <1>3, <2>1, <2>2, IdleStep DEF ClientCrashes
  <2>3. CASE Links(c) # {}
    BY <1>1, <1>3, <2>1, <2>3, CloseStep DEF ClientCrashes
  <2>4. QED BY <2>2, <2>3
<1>4. QED BY <1>2, <1>3

(***************************************************************************)
(* What a client does with a message.  Unless the process ends, it keeps   *)
(* the filters of the sessions that are alive as they are, but for the one *)
(* that it is sent.                                                        *)
(***************************************************************************)
Digests(c, m) ==
  /\ con'[c] = "live" /\ said'[c] \in Seq(Sayings(c, issued))
  /\ DOMAIN filters[c] \cap DOMAIN sessions \subseteq DOMAIN filters'[c]
  /\ \A s \in DOMAIN sessions, V \in SUBSET SetId :
       Sets(m, s, V) \/ (Has(c, s, V) /\ ~Strays(m, s, V)) =>
         s \in DOMAIN filters'[c] /\ filters'[c][s] \in V

LEMMA KeepFilters ==
  ASSUME SystemInv, NEW c \in Client, NEW f,
         con'[c] = "live", con' = [con EXCEPT ![c] = "live"] \/ con' = con,
         filters' = [filters EXCEPT ![c] = f],
         \A s \in DOMAIN f :
           \E a \in asked : /\ a[1] = s /\ a[4] = f[s]
                            /\ a[2] = GnsName[c] \/ a[3] = SelfAddr[c]
  PROVE  Moves(c) /\ filters'[c] = f
<1>1. con \in [Client -> States] /\ DOMAIN filters = Client
  BY DEF SystemInv, Linked, Filtered, States
<1>2. con' \in [Client -> States] /\ \A d \in Client \ {c} : con'[d] = con[d]
  BY <1>1 DEF States
<1>3. /\ DOMAIN filters' = Client /\ filters'[c] = f
      /\ \A d \in Client \ {c} : filters'[d] = filters[d]
  BY <1>1
<1>4. QED BY <1>2, <1>3 DEF Moves

LEMMA HandleMoves ==
  ASSUME SystemInv, NEW c \in Client, con[c] = "live",
         NEW m \in Found(c), NEW t \in Text, NEW w \in BOOLEAN,
         Cl!HandleMsg(c, m, t, w)
  PROVE  Moves(c) /\ (con'[c] = "aborted" \/ Digests(c, m))
<1>1. /\ con \in [Client -> States] /\ DOMAIN filters = Client
      /\ \A s \in DOMAIN filters[c] :
           \E a \in asked : /\ a[1] = s /\ a[4] = filters[c][s]
                            /\ a[2] = GnsName[c] \/ a[3] = SelfAddr[c]
  BY DEF SystemInv, Linked, Filtered, States, OnlyAsked
<1>2. ASSUME said' = Cl!Silent PROVE said'[c] \in Seq(Sayings(c, issued))
  <2>1. said'[c] = << >>
    BY <1>2 DEF Cl!Silent
  <2>2. ASSUME NEW T PROVE << >> \in Seq(T)
    OBVIOUS
  <2>3. QED BY <2>1, <2>2
<1>3. ASSUME UNCHANGED <<con, filters>>, said' = Cl!Silent,
             \A s : \A p \in SetId : m # CfgInfoReq(s, p)
      PROVE  Moves(c) /\ Digests(c, m)
  <2>1. con'[c] = "live" /\ con' \in [Client -> States]
    BY <1>1, <1>3
  <2>2. Moves(c)
    BY <1>1, <1>3, <2>1 DEF Moves
  <2>3. \A s, V : V \in SUBSET SetId => ~Sets(m, s, V)
    BY <1>3 DEF Sets
  <2>4. filters' = filters
    BY <1>3
  <2>5. QED BY <1>2, <1>3, <2>1, <2>2, <2>3, <2>4 DEF Digests, Has
<1>4. CASE m = HeartBeat
  <2>1. m.id = "HEARTBEAT_MSG"
    BY <1>4 DEF HeartBeat
  <2>2. UNCHANGED <<con, filters>> /\ said' = Cl!Silent
    BY <2>1 DEF Cl!HandleMsg
  <2>3. \A s, p : m # CfgInfoReq(s, p)
    BY <2>1 DEF CfgInfoReq
  <2>4. QED BY <1>3, <2>2, <2>3
<1>5. ASSUME NEW s \in Ended, m = ClearSessionReq(s)
      PROVE  Moves(c) /\ Digests(c, m)
  <2> DEFINE f == [r \in DOMAIN filters[c] \ {s} |-> filters[c][r]]
  <2>1. m.id = "CLEAR_SESSION_REQ" /\ m.session = s
    BY <1>5 DEF ClearSessionReq
  <2>2. /\ filters' = [filters EXCEPT ![c] = f] /\ said' = Cl!Silent
        /\ con' = con /\ con'[c] = "live"
    BY <2>1 DEF Cl!HandleMsg, Cl!ClearSessionInCfg
  <2>3. DOMAIN f = DOMAIN filters[c] \ {s} /\ \A r \in DOMAIN f : f[r] = filters[c][r]
    OBVIOUS
  <2> HIDE DEF f
  <2>4. \A r \in DOMAIN f :
          \E a \in asked : /\ a[1] = r /\ a[4] = f[r]
                           /\ a[2] = GnsName[c] \/ a[3] = SelfAddr[c]
    BY <1>1, <2>3
  <2>5. Moves(c) /\ filters'[c] = f
    BY <2>2, <2>4, KeepFilters
  <2>6. \A r, p : m # CfgInfoReq(r, p)
    BY <2>1 DEF CfgInfoReq
  <2>7. s \notin DOMAIN sessions
    BY DEF Ended
  <2>8. DOMAIN filters[c] \cap DOMAIN sessions \subseteq DOMAIN filters'[c]
    BY <2>3, <2>5, <2>7
  <2>9. ASSUME NEW r \in DOMAIN sessions, NEW V \in SUBSET SetId,
               Sets(m, r, V) \/ (Has(c, r, V) /\ ~Strays(m, r, V))
        PROVE  r \in DOMAIN filters'[c] /\ filters'[c][r] \in V
    <3>1. Has(c, r, V)
      BY <2>6, <2>9 DEF Sets
    <3>2. r # s
      BY <2>7
    <3>3. QED BY <2>3, <2>5, <3>1, <3>2 DEF Has
  <2>10. QED BY <1>2, <2>2, <2>5, <2>8, <2>9 DEF Digests
<1>6. ASSUME NEW a \in Concerning(c, asked), m = CfgInfoReq(a[1], a[4])
      PROVE  Moves(c) /\ (con'[c] = "aborted" \/ Digests(c, m))
  <2> DEFINE s == a[1]
             p == a[4]
  <2>1. m.id = "CFG_INFO_REQ" /\ m.session = s /\ m.p = p
    BY <1>6 DEF CfgInfoReq
  <2>2. a \in asked /\ (a[2] = GnsName[c] \/ a[3] = SelfAddr[c])
    BY DEF Concerning
  <2>3. s \in issued
    BY <2>2 DEF SystemInv, Recorded
  <2>4. \A r, q : m = CfgInfoReq(r, q) => r = s /\ q = p
    BY <2>1 DEF CfgInfoReq
  <2>5. CASE p \notin SetId
    <3>1. UNCHANGED <<con, filters>> /\ said' = Cl!Silent
      BY <2>1, <2>5 DEF Cl!HandleMsg
    <3>2. QED BY <1>3, <2>4, <2>5, <3>1
  <2>6. CASE p \in SetId /\ ~w
    <3>1. Cl!Stop(c, "aborted")
      BY <2>1, <2>6 DEF Cl!HandleMsg
    <3>2. QED BY <3>1, MovesOK DEF Cl!Stop, States
  <2>7. CASE p \in SetId /\ w
    <3> DEFINE f == [r \in DOMAIN filters[c] \cup {s} |-> IF r = s THEN p ELSE filters[c][r]]
    <3>1. /\ filters' = [filters EXCEPT ![c] = f]
          /\ Cl!SendMsg(c, "live", Cl!LogInfoReq(c, s, t), TRUE)
      <4>1. /\ filters' = [filters EXCEPT ![c] = Cl!SaveConfig(c, s, p)]
            /\ Cl!SendMsg(c, "live", Cl!LogInfoReq(c, s, t), TRUE)
        BY <2>1, <2>7 DEF Cl!HandleMsg
      <4>2. Cl!SaveConfig(c, s, p) = f
        BY DEF Cl!SaveConfig
      <4> HIDE DEF f
      <4>3. QED BY <4>1, <4>2
    <3>2. con' = [con EXCEPT ![c] = "live"] /\ Cl!Says(c, Cl!LogInfoReq(c, s, t))
      BY <3>1 DEF Cl!SendMsg, Cl!AfterWrite
    <3>3. con'[c] = "live"
      BY <1>1, <3>2
    <3>4. said'[c] \in Seq(Sayings(c, issued))
      BY <2>3, <3>2, SaysOne, SayingsOK
    <3>5. /\ DOMAIN f = DOMAIN filters[c] \cup {s}
          /\ \A r \in DOMAIN f : f[r] = IF r = s THEN p ELSE filters[c][r]
      OBVIOUS
    <3> HIDE DEF f
    <3>6. \A r \in DOMAIN f :
            \E b \in asked : /\ b[1] = r /\ b[4] = f[r]
                             /\ b[2] = GnsName[c] \/ b[3] = SelfAddr[c]
      BY <1>1, <2>2, <3>5
    <3>7. Moves(c) /\ filters'[c] = f
      BY <3>1, <3>2, <3>3, <3>6, KeepFilters
    <3>8. DOMAIN filters[c] \cap DOMAIN sessions \subseteq DOMAIN filters'[c]
      BY <3>5, <3>7
    <3>9. ASSUME NEW r \in DOMAIN sessions, NEW V \in SUBSET SetId,
                 Sets(m, r, V) \/ (Has(c, r, V) /\ ~Strays(m, r, V))
          PROVE  r \in DOMAIN filters'[c] /\ filters'[c][r] \in V
      <4>1. CASE r # s
        <5>1. ~Sets(m, r, V)
          BY <2>4, <4>1 DEF Sets
        <5>2. Has(c, r, V)
          BY <3>9, <5>1
        <5>3. QED BY <3>5, <3>7, <4>1, <5>2 DEF Has
      <4>2. CASE r = s
        <5>1. p \in V
          <6>1. CASE Sets(m, r, V)
            BY <2>4, <6>1 DEF Sets
          <6>2. CASE ~Strays(m, r, V)
            BY <1>6, <2>7, <4>2, <6>2 DEF Strays, Sets
          <6>3. QED BY <3>9, <6>1, <6>2
        <5>2. QED BY <3>5, <3>7, <4>2, <5>1
      <4>3. QED BY <4>1, <4>2
    <3>10. QED BY <3>3, <3>4, <3>7, <3>8, <3>9 DEF Digests
  <2>8. QED BY <2>5, <2>6, <2>7
<1>7. CASE m \in Sayings(c, issued)
  <2>1. m.id \in {"GNS_INFO_REQ", "HEARTBEAT_MSG", "LOG_INFO_REQ"}
    BY <1>7 DEF Sayings, Cl!GnsInfoReq, Cl!HeartBeatMsg, Cl!LogInfoReq
  <2>2. UNCHANGED <<con, filters>> /\ said' = Cl!Silent
    BY <2>1 DEF Cl!HandleMsg
  <2>3. \A s, p : m # CfgInfoReq(s, p)
    BY <2>1 DEF CfgInfoReq
  <2>4. QED BY <1>3, <2>2, <2>3
<1>8. QED BY <1>3, <1>4, <1>5, <1>6, <1>7 DEF Found, Tellings, Chatter

\* The head of what is on its way down, for the client it is for.
LEMMA HeadTold ==
  ASSUME SystemInv, NEW c \in Client, NEW fd \in Links(c), down[fd] # << >>
  PROVE  /\ Head(down[fd]) \in Found(c) /\ Tail(down[fd]) \in Seq(Found(c))
         /\ down[fd] \in Seq(Found(c))
<1> DEFINE T == Found(c)
           q == down[fd]
<1>1. q \in Seq(T)
  BY OneLink DEF SystemInv, GoingDown
<1>2. q # << >>
  OBVIOUS
<1> HIDE DEF T, q
<1>3. Head(q) \in T /\ Tail(q) \in Seq(T)
  BY <1>1, <1>2
<1>4. QED BY <1>1, <1>3 DEF T, q

LEMMA TakeStep ==
  ASSUME SystemInv, NEW c \in Client, ClientReads(c)
  PROVE  SystemInv'
<1>1. UNCHANGED <<vars, history>>
  BY DEF ClientReads
<1>2. ASSUME NEW fd \in Links(c), down[fd] # << >>, NEW t \in Text, NEW w \in BOOLEAN,
             Cl!HandleMsg(c, Head(down[fd]), t, w), Over(c, fd, Tail(down[fd]))
      PROVE  SystemInv'
  <2> DEFINE m == Head(down[fd])
             rest == Tail(down[fd])
             q == down[fd]
             T == Found(c)
  <2>1. m \in T /\ rest \in Seq(T) /\ q \in Seq(T)
    BY <1>2, HeadTold
  <2>2. con[c] = "live"
    BY OneLink DEF SystemInv
  <2>3. Moves(c) /\ (con'[c] = "aborted" \/ Digests(c, m))
    BY <1>2, <2>1, <2>2, HandleMoves
  <2>4. CASE con'[c] = "aborted"
    BY <1>1, <1>2, <2>3, <2>4, CloseStep DEF Over
  <2>5. CASE Digests(c, m)
    <3>1. con'[c] = "live" /\ said'[c] \in Seq(Sayings(c, issued))
      BY <2>5 DEF Digests
    <3>2. Use(c, fd, rest)
      BY <1>2, <3>1 DEF Over
    <3>3. ASSUME NEW s \in DOMAIN sessions, NEW V \in SUBSET SetId,
                 EndsIn(q, Has(c, s, V), s, V)
          PROVE  EndsIn(rest, Has(c, s, V)', s, V)
      <4> DEFINE h == Has(c, s, V)
                 had == s \in DOMAIN filters'[c] /\ filters'[c][s] \in V
      <4>1. Sets(m, s, V) \/ (h /\ ~Strays(m, s, V)) => had
        <5> HIDE DEF m
        <5>1. QED BY <2>5 DEF Digests
      <4>2. m = Head(q) /\ rest = Tail(q) /\ q # << >> /\ EndsIn(q, h, s, V)
        BY <1>2, <3>3
      <4> HIDE DEF h, had, m, rest, q, T
      <4>3. EndsIn(rest, had, s, V)
        BY <2>1, <4>1, <4>2, EndsTail
      <4>4. QED BY <4>3 DEF had, Has
    <3>4. QED BY <1>1, <2>1, <2>3, <3>1, <3>2, <3>3, UseStep
  <2>6. QED BY <2>3, <2>4, <2>5
<1>3. ASSUME NEW fd \in Links(c), down[fd] # << >>, fd \in deafClient,
             down' = [down EXCEPT ![fd] = Tail(@)],
             UNCHANGED <<clientVars, peer, backlog, up, clientEnd>>
      PROVE  SystemInv'
  <2>1. UNCHANGED <<con, filters, issued>>
    BY <1>1, <1>3 DEF clientVars, vars
  <2>2. Moves(c)
    BY <2>1, OneLink DEF Moves, SystemInv, Linked, Filtered, OnlyAsked, States
  <2>3. /\ fd \in Fd /\ peer[fd] = c /\ fd # CgiFd /\ con[c] = "live"
        /\ (\A e \in Fd \ {fd} : peer[e] # c) /\ c # Nobody
    BY OneLink, SystemAssumption DEF SystemInv
  <2>4. DOMAIN down = Fd /\ DOMAIN up = Fd /\ peer \in [Fd -> Client \cup {Nobody}]
    BY DEF SystemInv, Linked, GoingUp, GoingDown
  <2>5. /\ down'[fd] = Tail(down[fd]) /\ DOMAIN down' = Fd
        /\ \A e \in Fd \ {fd} : down'[e] = down[e]
    BY <1>3, <2>3, <2>4
  <2>6. Tail(down[fd]) \in Seq(Found(c))
    BY <1>3, HeadTold
  <2>7. up'[fd] \in Seq(Written(fd)')
    <3>1. Written(fd)' = Written(fd)
      BY <1>3, <2>1 DEF Written, Writers
    <3>2. QED BY <1>3, <2>3, <3>1 DEF SystemInv, GoingUp
  <2>8. Touches(c, fd)
    BY <1>3, <2>1, <2>3, <2>4, <2>5, <2>6, <2>7 DEF Touches, clientEnd
  <2>9. QED BY <1>1, <2>2, <2>3, <2>8, TouchKeeps
<1>4. QED BY <1>2, <1>3 DEF ClientReads

LEMMA ClientSide ==
  ASSUME SystemInv, NEW c \in Client, ClientStep(c)
  PROVE  SystemInv'
BY BootStep, TalkStep, TakeStep, EndStep DEF ClientStep

----------------------------------------------------------------------------
(* The invariant *)

LEMMA SystemInvInit == SystemInit => SystemInv
<1> SUFFICES ASSUME SystemInit PROVE SystemInv
  OBVIOUS
<1>1. IInv
  BY IInvInit DEF SystemInit
<1>11. AllDistinct
  BY DEF SystemInit, Init, NoEntries, AllDistinct
<1>2. /\ cliInfo = NoEntries /\ sessions = NoEntries /\ issued = {} /\ asked = {}
      /\ con = [c \in Client |-> "off"] /\ filters = [c \in Client |-> Cl!NoFilters]
      /\ peer = [fd \in Fd |-> Nobody]
      /\ up = [fd \in Fd |-> << >>] /\ down = [fd \in Fd |-> << >>]
  BY DEF SystemInit, Init, Cl!ClientInit
<1>3. DOMAIN NoEntries = {} /\ DOMAIN Cl!NoFilters = {}
  BY DEF NoEntries, Cl!NoFilters
<1>4. \A fd \in Fd : peer[fd] = Nobody /\ peer[fd] \notin Client
  BY <1>2, SystemAssumption
<1>5. Linked
  BY <1>2, <1>4, SystemAssumption DEF Linked
<1>6. Filtered /\ OnlyAsked
  BY <1>2, <1>3 DEF Filtered, OnlyAsked
<1>7. GoingUp /\ GoingDown
  <2>1. ASSUME NEW T PROVE << >> \in Seq(T)
    OBVIOUS
  <2>2. QED BY <1>2, <1>4, <2>1, SystemAssumption DEF GoingUp, GoingDown
<1>8. ListedAsItIs /\ AtWork
  BY <1>2, <1>3 DEF ListedAsItIs, AtWork
<1>9. Recorded
  BY <1>2, <1>3, FS_EmptySet DEF Recorded
<1>10. QED BY <1>1, <1>5, <1>6, <1>7, <1>8, <1>9, <1>11 DEF SystemInv

LEMMA SystemInvNext == SystemInv /\ [SystemNext]_systemVars => SystemInv'
<1> SUFFICES ASSUME SystemInv, [SystemNext]_systemVars PROVE SystemInv'
  OBVIOUS
<1>1. [Next]_vars
  BY StepIsServer DEF SystemInv
<1>2. ASSUME NEW c \in Client, ClientStep(c) PROVE SystemInv'
  BY <1>2, ClientSide
<1>3. CASE ServerStep \/ BrowserStep
  BY <1>1, <1>3, ServerSide
<1>4. CASE UNCHANGED systemVars
  <2>1. /\ UNCHANGED <<clientVars, peer, clientEnd, history>>
        /\ down' = down /\ up' = up /\ UNCHANGED vars
    BY <1>4 DEF systemVars, wireVars
  <2>2. RowsKept /\ ListKept /\ UpDrains
    BY <2>1 DEF vars, RowsKept, ListKept, UpDrains, SystemInv, GoingUp
  <2>3. QED BY <1>1, <2>1, <2>2, QuietStep
<1>5. QED BY <1>2, <1>3, <1>4 DEF SystemNext

\* The invariant that every property below rests on.
THEOREM SystemInvariance == SystemSpec => []SystemInv
BY SystemInvInit, SystemInvNext, PTL DEF SystemSpec

(***************************************************************************)
(* With clients, a browser and the network around it, the server takes the *)
(* steps of TraceServer and no others: what is proved of it alone holds    *)
(* here too.                                                               *)
(***************************************************************************)
THEOREM SystemRunsServer == SystemSpec => Spec
<1>1. SystemInit => Init
  BY DEF SystemInit
<1>2. SystemInv /\ [SystemNext]_systemVars => [Next]_vars
  BY StepIsServer DEF SystemInv
<1>3. QED BY <1>1, <1>2, SystemInvariance, PTL DEF SystemSpec, Spec

\* Whatever clients crash, reconnect and take over descriptors, the server's
\* list says of each connected client what that client is.
THEOREM ListIsRight == SystemSpec => []ListedAsItIs
<1>1. SystemInv => ListedAsItIs
  BY DEF SystemInv
<1>2. QED BY <1>1, SystemInvariance, PTL

\* A client traces nothing that no browser asked of its service or machine.
THEOREM TracesOnlyAsked == SystemSpec => []OnlyAsked
<1>1. SystemInv => OnlyAsked
  BY DEF SystemInv
<1>2. QED BY <1>1, SystemInvariance, PTL

\* A configuration set for a service is at work in every client of it that is
\* listed, in step with its messages and has read them all: the filter that
\* the client keeps is that configuration's, or a later one's for its address.
THEOREM ConfigsWork == SystemSpec => []ConfigsAtWork
<1>1. SystemInv => ConfigsAtWork
  <2> SUFFICES ASSUME SystemInv, NEW c \in Client,
                      NEW fd \in Fd \ (deafClient \cup missedClient),
                      NEW s \in DOMAIN sessions,
                      NEW i \in 1 .. Len(sessions[s].cfgs),
                      UpToDate(c, fd), ForServiceOf(c, sessions[s].cfgs[i])
               PROVE  /\ s \in DOMAIN filters[c]
                      /\ Right(c, s, sessions[s].cfgs[i], filters[c][s])
    BY DEF ConfigsAtWork
  <2> DEFINE cfg == sessions[s].cfgs[i]
             r == <<cfg.gns_name, cfg.ip_port, cfg.p>>
             V == Fitting(c, s, r[3], later)
  <2>1. /\ peer[fd] = c /\ fd \in DOMAIN cliInfo /\ conns[fd] = "open"
        /\ down[fd] = << >>
    BY DEF UpToDate
  <2>2. r \in Rows(sessions[s].cfgs) /\ Serves(r, c) /\ r[3] = cfg.p
    BY DEF Rows, Serves, ForServiceOf
  <2>3. EndsIn(down[fd], Has(c, s, V), s, V)
    <3>1. Hears(fd, s, r[3])
      <4> HIDE DEF r
      <4>1. QED BY <2>1, <2>2 DEF SystemInv, AtWork
    <3>2. QED BY <2>1, <3>1 DEF Hears
  <2>4. Has(c, s, V)
    <3> HIDE DEF V
    <3>1. QED BY <2>1, <2>3, EndsEmpty
  <2>5. QED BY <2>2, <2>4 DEF Has, Fitting, Right
<1>2. QED BY <1>1, SystemInvariance, PTL

\* What a step leaves of the filters of the clients that run after it.
LiveKept ==
  \A c \in Client : Cl!Running(c)' =>
    DOMAIN filters[c] \cap DOMAIN sessions' \subseteq DOMAIN filters'[c]

LEMMA LiveKeptNext == SystemInv /\ [SystemNext]_systemVars => LiveKept
<1> SUFFICES ASSUME SystemInv, [SystemNext]_systemVars PROVE LiveKept
  OBVIOUS
<1>1. ASSUME UNCHANGED filters PROVE LiveKept
  BY <1>1 DEF LiveKept
<1>2. ASSUME NEW c \in Client, UNCHANGED vars, Moves(c),
             \/ con'[c] \in {"off", "aborted"}
             \/ DOMAIN filters[c] \cap DOMAIN sessions \subseteq DOMAIN filters'[c]
      PROVE  LiveKept
  <2>1. sessions' = sessions /\ \A d \in Client \ {c} : filters'[d] = filters[d]
    BY <1>2 DEF vars, Moves
  <2>2. con'[c] \in {"off", "aborted"} => ~Cl!Running(c)'
    BY DEF Cl!Running
  <2>3. QED BY <1>2, <2>1, <2>2 DEF LiveKept
<1>3. ASSUME NEW c \in Client, ClientBoots(c) PROVE LiveKept
  <2>1. PICK k \in Outcome, w \in BOOLEAN, g \in BOOLEAN : Cl!Boot(c, g, k, w)
    BY <1>3 DEF ClientBoots
  <2> DEFINE x == IF k = "live" THEN Cl!AfterWrite(w) ELSE k
  <2>2. x \in States
    BY DEF Outcome, States, Cl!AfterWrite
  <2>3. con' = [con EXCEPT ![c] = x] /\ filters' = [filters EXCEPT ![c] = Cl!NoFilters]
    BY <2>1 DEF Cl!Boot
  <2> HIDE DEF x
  <2>4. Moves(c)
    BY <2>2, <2>3, MovesOK
  <2>5. DOMAIN filters[c] = {}
    BY <2>1 DEF Cl!Boot, SystemInv, Filtered, Cl!NoFilters
  <2>6. QED BY <1>2, <1>3, <2>4, <2>5 DEF ClientBoots
<1>4. ASSUME NEW c \in Client, ClientCrashes(c) PROVE LiveKept
  <2>1. con' = [con EXCEPT ![c] = "off"] /\ filters' = [filters EXCEPT ![c] = Cl!NoFilters]
    BY <1>4 DEF ClientCrashes, Cl!Crash, Cl!Stop
  <2>2. Moves(c) /\ con'[c] = "off"
    BY <2>1, MovesOK DEF States
  <2>3. QED BY <1>2, <1>4, <2>2 DEF ClientCrashes
<1>5. ASSUME NEW c \in Client, ClientReads(c) PROVE LiveKept
  <2>1. PICK fd \in Links(c) :
          /\ down[fd] # << >>
          /\ \/ \E t \in Text, w \in BOOLEAN : Cl!HandleMsg(c, Head(down[fd]), t, w)
             \/ UNCHANGED clientVars
    BY <1>5 DEF ClientReads
  <2>2. CASE UNCHANGED clientVars
    BY <1>1, <2>2 DEF clientVars
  <2>3. ASSUME NEW t \in Text, NEW w \in BOOLEAN, Cl!HandleMsg(c, Head(down[fd]), t, w)
        PROVE  LiveKept
    <3>1. Head(down[fd]) \in Found(c)
      BY <2>1, HeadTold
    <3>2. con[c] = "live"
      BY OneLink DEF SystemInv
    <3>3. Moves(c) /\ (con'[c] = "aborted" \/ Digests(c, Head(down[fd])))
      BY <2>3, <3>1, <3>2, HandleMoves
    <3>4. QED BY <1>2, <1>5, <3>3 DEF ClientReads, Digests
  <2>4. QED BY <2>1, <2>2, <2>3
<1>6. ASSUME NEW c \in Client,
             \/ ClientReports(c) \/ ClientBeats(c) \/ ClientNotices(c)
             \/ \E s \in Session : ClientUploads(c, s)
      PROVE  UNCHANGED filters
  BY <1>6 DEF ClientReports, ClientBeats, ClientNotices, ClientUploads, Cl!ReportTimer,
              Cl!HeartBeatTimer, Cl!ConnectionClosed, Cl!UploadLog
<1>7. CASE ServerStep \/ BrowserStep
  <2>1. Deliver => UNCHANGED filters
    BY DEF Deliver, clientVars
  <2>2. \A fd \in Fd : ServerAccepts(fd) \/ ServerReleases(fd) \/ ServerReads(fd) =>
          UNCHANGED filters
    BY <2>1 DEF ServerAccepts, ServerReleases, ServerReads, clientVars
  <2>3. \/ ServerExpires \/ ServerChecksIdle \/ TimePasses \/ ServerStops \/ ServerStarts
        => UNCHANGED filters
    BY <2>1 DEF ServerExpires, ServerChecksIdle, TimePasses, ServerStops, ServerStarts,
                Drop, clientVars
  <2>4. CgiConnects \/ BrowserLogsIn => UNCHANGED filters
    BY <2>1 DEF CgiConnects, BrowserLogsIn
  <2>5. \A s : BrowserFetches(s) => UNCHANGED filters
    BY <2>1 DEF BrowserFetches, Drop
  <2>6. \A s, gns, ip, p : BrowserSets(s, gns, ip, p) => UNCHANGED filters
    BY <2>1 DEF BrowserSets
  <2>7. QED BY <1>1, <1>7, <2>2, <2>3, <2>4, <2>5, <2>6 DEF ServerStep, BrowserStep
<1>8. CASE UNCHANGED systemVars
  BY <1>1, <1>8 DEF systemVars, clientVars
<1>9. QED BY <1>1, <1>3, <1>4, <1>5, <1>6, <1>7, <1>8 DEF SystemNext, ClientStep

\* A client that runs never drops the filter of a session that is alive: only
\* a session that is over is ever cleared, however late the message arrives.
THEOREM LiveFiltersAreKept == SystemSpec => LiveFiltersKept
<1>1. SystemInv /\ [SystemNext]_systemVars
        => [\A c \in Client : Cl!Running(c)' =>
              DOMAIN filters[c] \cap DOMAIN sessions' \subseteq DOMAIN filters'[c]]_systemVars
  BY LiveKeptNext DEF LiveKept
<1>2. QED BY <1>1, SystemInvariance, PTL DEF SystemSpec, LiveFiltersKept
=============================================================================
