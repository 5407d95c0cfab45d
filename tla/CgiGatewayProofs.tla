-------------------------- MODULE CgiGatewayProofs --------------------------
(***************************************************************************)
(* Each request is forwarded once and answered once, and a timeout is      *)
(* final: the safety properties of the gateway, for every value of its     *)
(* constants.  An answer finds its request by a descriptor and a second;   *)
(* both are taken again and again, so that the argument is about who may   *)
(* hold them at a time.                                                    *)
(***************************************************************************)
EXTENDS CgiGateway, FiniteSetTheorems, WellFoundedInduction, TLAPS

Codec == [gotRequest_ : BOOLEAN, reqBeginTime_ : Second \cup {NoTime},
          params_ : Req \cup {NoReq}]
Stage == [req : Req \cup {NoReq}, left : 0 .. 2]
Forwarded == [req : Known, fd : Fd, begin : Second \cup {NoTime}, via : Link]
Received == [of : Known \cup {Expired}, left : 0 .. 2]
LinkState == {"open", "dead", "deaf", "closed"}

CgiTypeOK ==
  /\ table \in [Fd -> {"none", "null", "conn"}] /\ codec \in [Fd -> Codec]
  /\ pCon \in Link \cup {NULL, NoFd} /\ links \in [Link -> LinkState]
  /\ wire \subseteq Forwarded /\ asks \in [Req -> Nat]
  /\ sec \in Second /\ elapsed \in [Second -> Nat]
  /\ nginx \in [Fd -> Stage] /\ next \in 1 .. NReq + 1
  /\ heard \in [Req -> Seq(Received)]

\* A request is on one connection at most; what has not been sent has left no
\* trace.
Owned ==
  /\ elapsed[sec] = 0
  /\ \A f \in Fd : nginx[f].req # NoReq => nginx[f].req < next
  /\ \A f \in Fd : nginx[f].req = NoReq => codec[f] = Blank /\ nginx[f].left = 0
  /\ \A f, g \in Fd : nginx[f].req # NoReq /\ nginx[f].req = nginx[g].req => f = g

Unsent ==
  /\ \A r \in Req : asks[r] <= 1 /\ (r >= next => asks[r] = 0 /\ heard[r] = << >>)
  /\ \A m \in wire : m.req < next
  /\ \A r, q \in Req : Told(q, r) => r < next

\* A request whose records are still being read was not forwarded, and a codec
\* without a complete request is blank when nothing is left to read.
Reading ==
  \A f \in Fd :
    /\ codec[f].params_ \in {NoReq, nginx[f].req}
    /\ nginx[f].left > 0 => /\ ~codec[f].gotRequest_ /\ asks[nginx[f].req] = 0
                            /\ \A m \in wire : m.req # nginx[f].req
    /\ nginx[f].left = 0 /\ ~codec[f].gotRequest_ => codec[f] = Blank

\* A request that is being read or waits for its answer has received early
\* answers at most, and its own went nowhere.
Pending ==
  \A f \in Fd : nginx[f].left > 0 \/ codec[f].gotRequest_ =>
    /\ \A i \in 1 .. Len(heard[nginx[f].req]) : heard[nginx[f].req][i].left > 0
    /\ codec[f].reqBeginTime_ = NoTime => Early(nginx[f].req)
    /\ \A q \in Req : ~Told(q, nginx[f].req)

\* What is forwarded carries the descriptor and the second of its request.
Stamped ==
  /\ \A m \in wire : m.begin = NoTime => Early(m.req)
  /\ \A m \in wire, f \in Fd : m.req = nginx[f].req =>
       m.fd = f /\ codec[f].reqBeginTime_ \in {NoTime, m.begin}
  /\ \A m, n \in wire : m.req = n.req => m.begin = n.begin

\* No two receipts of a request are an answer to a steady request or the
\* timeout.
AnsweredAlone ==
  \A r \in Steady : \A i, j \in 1 .. Len(heard[r]) :
    {heard[r][i].of, heard[r][j].of} \subseteq Steady \cup {Expired} => i = j

\* The second of a request that was given up has passed, and the codec of its
\* descriptor does not have it any more.
Late ==
  \A m \in wire : m.req \in Steady /\ Told(m.req, Expired) =>
    elapsed[m.begin] > Timeout /\ codec[m.fd].reqBeginTime_ # m.begin

CgiInv ==
  /\ CgiTypeOK /\ Owned /\ Unsent /\ Reading /\ Pending
  /\ Stamped /\ AnsweredAlone /\ Late /\ TimeoutsFinal

----------------------------------------------------------------------------
(* Constants *)

LEMMA Numbers ==
  /\ NULL \notin Link /\ NoFd \notin Link /\ NoReq \notin Req /\ NoTime \notin Second
  /\ Known \subseteq Req /\ Expired \notin Req /\ Expired # NoReq
  /\ \A r \in Req : r \in Nat /\ r >= 1 /\ r <= NReq
  /\ Blank \in Codec /\ Silent \in Stage
<1>1. /\ NULL \notin Link /\ NoFd \notin Link /\ NoReq \notin Req
      /\ Known \subseteq Req /\ Expired \notin Req /\ Expired # NoReq
      /\ \A r \in Req : r \in Nat /\ r >= 1 /\ r <= NReq
  BY CgiAssumption DEF NULL, NoFd, NoReq, Link, Req
<1>2. NoTime \notin Second
  BY CgiAssumption DEF NoTime
<1>3. Blank \in Codec /\ Silent \in Stage
  BY DEF Blank, Silent, Codec, Stage
<1>4. QED BY <1>1, <1>2, <1>3

LEMMA CodecOf ==
  ASSUME CgiTypeOK, NEW f \in Fd
  PROVE  /\ codec[f] \in Codec /\ codec[f].gotRequest_ \in BOOLEAN
         /\ codec[f].reqBeginTime_ \in Second \cup {NoTime}
         /\ codec[f].params_ \in Req \cup {NoReq}
         /\ nginx[f] \in Stage /\ nginx[f].req \in Req \cup {NoReq}
         /\ nginx[f].left \in 0 .. 2
BY DEF CgiTypeOK, Codec, Stage

LEMMA Receipts ==
  ASSUME CgiTypeOK, NEW r \in Req
  PROVE  /\ heard[r] \in Seq(Received) /\ Len(heard[r]) \in Nat
         /\ \A i \in 1 .. Len(heard[r]) :
              /\ heard[r][i].of \in Known \cup {Expired}
              /\ heard[r][i].left \in 0 .. 2
<1>1. heard[r] \in Seq(Received)
  BY DEF CgiTypeOK
<1>2. \A i \in 1 .. Len(heard[r]) : heard[r][i] \in Received
  BY <1>1
<1>3. QED BY <1>1, <1>2 DEF Received

----------------------------------------------------------------------------
(* Seconds *)

LEMMA LeastOf ==
  ASSUME NEW T \in SUBSET Nat, T # {}
  PROVE  \E j \in T : \A k \in T : j <= k
<1>1. PICK j \in T : \A k \in T : ~(<<k, j>> \in OpToRel(<, Nat))
  BY WFMin, NatLessThanWellFounded
<1>2. \A k \in T : ~(k < j)
  BY <1>1, Zenon DEF OpToRel
<1>3. QED BY <1>2

\* A second is remembered for a request: as the beginning of the request on a
\* connection, or of one that was forwarded.
Begun(s, r) ==
  \/ \E f \in Fd : nginx[f].req = r /\ codec[f].reqBeginTime_ = s
  \/ \E m \in wire : m.req = r /\ m.begin = s

LEMMA RememberedBegun ==
  ASSUME CgiInv, NEW s \in Remembered
  PROVE  s \in Second /\ \E r \in Req : Begun(s, r)
<1>1. s # NoTime
  BY DEF Remembered
<1>2. CASE \E f \in Fd : s = codec[f].reqBeginTime_
  <2>1. PICK f \in Fd : s = codec[f].reqBeginTime_
    BY <1>2
  <2>2. codec[f] # Blank
    BY <1>1, <2>1 DEF Blank
  <2>3. nginx[f].req # NoReq
    BY <2>2 DEF CgiInv, Owned
  <2>4. QED BY <1>1, <2>1, <2>3, CodecOf DEF CgiInv, Begun
<1>3. CASE \E m \in wire : s = m.begin
  <2>1. PICK m \in wire : s = m.begin
    BY <1>3
  <2>2. m.req \in Req /\ m.begin \in Second \cup {NoTime}
    BY Numbers DEF CgiInv, CgiTypeOK, Forwarded
  <2>3. QED BY <1>1, <2>1, <2>2 DEF Begun
<1>4. QED BY <1>2, <1>3 DEF Remembered

LEMMA OneSecondPerRequest ==
  ASSUME CgiInv, NEW r \in Req, NEW s, NEW t, s # NoTime, t # NoTime,
         Begun(s, r), Begun(t, r)
  PROVE  s = t
<1>1. ASSUME NEW f \in Fd, NEW g \in Fd, nginx[f].req = r, nginx[g].req = r
      PROVE  f = g
  BY <1>1, Numbers DEF CgiInv, Owned
<1>2. ASSUME NEW f \in Fd, NEW m \in wire, nginx[f].req = r, m.req = r,
             codec[f].reqBeginTime_ # NoTime
      PROVE  codec[f].reqBeginTime_ = m.begin
  BY <1>2 DEF CgiInv, Stamped
<1>3. ASSUME NEW m \in wire, NEW n \in wire, m.req = r, n.req = r
      PROVE  m.begin = n.begin
  BY <1>3 DEF CgiInv, Stamped
<1>4. QED BY <1>1, <1>2, <1>3 DEF Begun

\* More seconds have names than requests can remember.
LEMMA FreshSecond ==
  ASSUME CgiInv
  PROVE  \E s \in Second \ Remembered : \A t \in Second \ Remembered : s <= t
<1> DEFINE owner == [s \in Remembered |-> CHOOSE r \in Req : Begun(s, r)]
<1>1. \A s \in Remembered : owner[s] \in Req /\ Begun(s, owner[s]) /\ s # NoTime
  BY RememberedBegun DEF Remembered
<1> HIDE DEF owner
<1>2. owner \in [Remembered -> Req]
  BY <1>1 DEF owner
<1>3. \A s, t \in Remembered : owner[s] = owner[t] => s = t
  BY <1>1, OneSecondPerRequest
<1>4. owner \in Injection(Remembered, Req)
  BY <1>2, <1>3 DEF Injection, IsInjective
<1>5. IsFiniteSet(Req) /\ Cardinality(Req) = NReq
  <2>1. 1 \in Int /\ NReq \in Int
    BY CgiAssumption
  <2>2. IsFiniteSet(1 .. NReq)
        /\ Cardinality(1 .. NReq) = IF 1 > NReq THEN 0 ELSE NReq - 1 + 1
    BY <2>1, FS_Interval
  <2>3. QED BY <2>2, CgiAssumption DEF Req
<1>6. IsFiniteSet(Remembered) /\ Cardinality(Remembered) <= NReq
  BY <1>4, <1>5, FS_Injection
<1>7. Second \ Remembered # {}
  <2>1. SUFFICES ASSUME Second \subseteq Remembered PROVE FALSE
    OBVIOUS
  <2>2. Cardinality(Second) <= Cardinality(Remembered)
    BY <1>6, <2>1, FS_Subset
  <2>3. Cardinality(Second) \in Nat /\ Cardinality(Remembered) \in Nat
    BY <1>6, CgiAssumption, FS_CardinalityType
  <2>4. QED BY <1>6, <2>2, <2>3, CgiAssumption
<1>8. Second \ Remembered \in SUBSET Nat
  BY CgiAssumption
<1>9. QED BY <1>7, <1>8, LeastOf

----------------------------------------------------------------------------
(* What goes to the server *)

\* The types of what the connection to the server changes.
ServerTypes ==
  /\ pCon \in Link \cup {NULL, NoFd} /\ links \in [Link -> LinkState]
  /\ wire \subseteq Forwarded /\ asks \in [Req -> Nat]

\* How many of the messages ms are for r.
Count(ms, r) == Cardinality({m \in ms : m.req = r})

LEMMA Sent ==
  ASSUME CgiTypeOK, NEW ms,
         ms \subseteq [req : Known, fd : Fd, begin : Second \cup {NoTime}, via : {NoFd}],
         \A r \in Req : Count(ms, r) \in Nat,
         SendMsg(ms)
  PROVE  /\ ServerTypes'
         /\ \A m \in wire' : m \in wire \/ \E n \in ms :
              m.req = n.req /\ m.fd = n.fd /\ m.begin = n.begin
         /\ \A r \in Req : asks'[r] \in {asks[r], asks[r] + Count(ms, r)}
<1>1. ServerTypes
  BY DEF CgiTypeOK, ServerTypes
<1>2. CASE ~Connected
  BY <1>1, <1>2, Zenon DEF SendMsg, ServerTypes
<1>3. CASE Connected
  <2>1. asks' = [r \in Req |-> asks[r] + Count(ms, r)]
    BY <1>3 DEF SendMsg, Count
  <2>2. \A r \in Req : asks[r] + Count(ms, r) \in Nat
    BY <1>1 DEF ServerTypes
  <2>3. asks' \in [Req -> Nat] /\ \A r \in Req :
          asks'[r] = asks[r] + Count(ms, r)
    BY <2>1, <2>2
  <2> DEFINE to(m) == [m EXCEPT !.via = pCon]
  <2>4. \A m \in ms : /\ to(m) \in Forwarded /\ to(m).req = m.req
                      /\ to(m).fd = m.fd /\ to(m).begin = m.begin
    BY <1>3 DEF Forwarded, Connected
  <2> HIDE DEF to
  <2>5. \/ wire' = wire \cup {to(m) : m \in ms}
        \/ wire' \subseteq wire
    BY <1>3 DEF SendMsg, Write, WriteInVain, to
  <2>6. /\ wire' \subseteq Forwarded
        /\ \A m \in wire' : m \in wire \/ \E n \in ms :
             m.req = n.req /\ m.fd = n.fd /\ m.begin = n.begin
    <3>1. CASE wire' = wire \cup {to(m) : m \in ms}
      BY <1>1, <2>4, <3>1 DEF ServerTypes
    <3>2. CASE wire' \subseteq wire
      BY <1>1, <3>2 DEF ServerTypes
    <3>3. QED BY <2>5, <3>1, <3>2
  <2>7. /\ pCon' \in Link \cup {NULL, NoFd} /\ links' \in [Link -> LinkState]
    <3>1. pCon' \in {pCon, NULL}
      BY <1>3 DEF SendMsg, Write, WriteInVain
    <3>2. \/ links' = links
          \/ links' = [links EXCEPT ![pCon] = "deaf"]
          \/ links' = [links EXCEPT ![pCon] = "closed"]
      BY <1>3 DEF SendMsg, Write, WriteInVain
    <3>3. QED BY <1>1, <3>1, <3>2 DEF ServerTypes, LinkState
  <2>8. QED BY <2>3, <2>6, <2>7 DEF ServerTypes
<1>4. QED BY <1>2, <1>3

\* A heartbeat asks for nothing.
LEMMA HeartBeatSent ==
  ASSUME CgiTypeOK, SendMsg({})
  PROVE  ServerTypes' /\ wire' \subseteq wire /\ asks' = asks
<1> DEFINE ms == {m \in {} : TRUE}
<1>1. ms = {} /\ \A r : {m \in ms : m.req = r} = {}
  OBVIOUS
<1> HIDE DEF ms
<1>2. \A r \in Req : Count(ms, r) = 0
  BY <1>1, FS_EmptySet DEF Count
<1>3. ms \subseteq [req : Known, fd : Fd, begin : Second \cup {NoTime}, via : {NoFd}]
  BY <1>1
<1>4. SendMsg(ms)
  BY <1>1
<1>5. /\ ServerTypes'
      /\ \A m \in wire' : m \in wire \/ \E n \in ms :
           m.req = n.req /\ m.fd = n.fd /\ m.begin = n.begin
      /\ \A r \in Req : asks'[r] \in {asks[r], asks[r] + Count(ms, r)}
  BY <1>2, <1>3, <1>4, Sent
<1>6. \A r \in Req : asks'[r] = asks[r]
  BY <1>2, <1>5 DEF CgiTypeOK
<1>7. asks' = asks
  BY <1>5, <1>6 DEF CgiTypeOK, ServerTypes
<1>8. QED BY <1>1, <1>5, <1>7

\* A request is forwarded once, with the descriptor and the second given.
LEMMA RequestSent ==
  ASSUME CgiTypeOK, NEW fd \in Fd, NEW begin \in Second \cup {NoTime},
         onRequest(fd, begin)
  PROVE  /\ ServerTypes'
         /\ \A m \in wire' : m \in wire \/
              (m.req = codec[fd].params_ /\ m.fd = fd /\ m.begin = begin)
         /\ \A r \in Req : asks'[r] \in {asks[r], asks[r] + 1}
         /\ \A r \in Req : r # codec[fd].params_ => asks'[r] = asks[r]
<1> DEFINE ms == [req : {codec[fd].params_} \cap Known, fd : {fd},
                  begin : {begin}, via : {NoFd}]
           one == [req |-> codec[fd].params_, fd |-> fd, begin |-> begin, via |-> NoFd]
<1>1. \A r : {m \in ms : m.req = r} = {} \/
             (r = codec[fd].params_ /\ {m \in ms : m.req = r} = {one})
  OBVIOUS
<1>2. \A m \in ms : m.req = codec[fd].params_ /\ m.fd = fd /\ m.begin = begin
  OBVIOUS
<1>3. ms \subseteq [req : Known, fd : Fd, begin : Second \cup {NoTime}, via : {NoFd}]
  OBVIOUS
<1>4. SendMsg(ms)
  BY DEF onRequest
<1> HIDE DEF ms, one
<1>5. \A r : Count(ms, r) \in {0, 1} /\
             (r # codec[fd].params_ => Count(ms, r) = 0)
  BY <1>1, FS_EmptySet, FS_Singleton DEF Count
<1>6. /\ ServerTypes'
      /\ \A m \in wire' : m \in wire \/ \E n \in ms :
           m.req = n.req /\ m.fd = n.fd /\ m.begin = n.begin
      /\ \A r \in Req : asks'[r] \in {asks[r], asks[r] + Count(ms, r)}
  <2>1. \A r \in Req : Count(ms, r) \in Nat
    BY <1>5
  <2>2. QED BY <1>3, <1>4, <2>1, Sent
<1>7. \A r \in Req : asks[r] \in Nat
  BY DEF CgiTypeOK
<1>8. QED BY <1>2, <1>5, <1>6, <1>7

----------------------------------------------------------------------------
(* Steps that forget *)

\* What connections and messages are forgotten breaks nothing: a step that
\* drops messages, and leaves a connection with nginx as it was or blank.
LEMMA Forgets ==
  ASSUME CgiInv, CgiTypeOK', wire' \subseteq wire,
         UNCHANGED <<asks, sec, elapsed, next, heard>>,
         \A f \in Fd : \/ codec'[f] = codec[f] /\ nginx'[f] = nginx[f]
                       \/ codec'[f] = Blank /\ nginx'[f] = Silent
  PROVE  CgiInv'
<1>1. /\ Steady' = Steady /\ \A r : Early(r)' <=> Early(r)
      /\ \A q, w : Told(q, w)' <=> Told(q, w)
  BY DEF Steady, Early, Told
<1>2. \A f \in Fd : nginx'[f].req # NoReq \/ nginx'[f].left # 0 \/ codec'[f] # Blank =>
        codec'[f] = codec[f] /\ nginx'[f] = nginx[f]
  BY DEF Silent
<1>3. Blank.reqBeginTime_ = NoTime /\ Blank.params_ = NoReq /\ ~Blank.gotRequest_
      /\ Silent.req = NoReq /\ Silent.left = 0
  BY DEF Blank, Silent
<1>4. Owned'
  BY <1>2, <1>3 DEF CgiInv, Owned
<1>5. Unsent'
  BY <1>1 DEF CgiInv, Unsent
<1>6. Reading'
  BY <1>3 DEF CgiInv, Reading
<1>7. Pending'
  <2> SUFFICES ASSUME NEW f \in Fd, nginx'[f].left > 0 \/ codec'[f].gotRequest_
               PROVE  /\ codec'[f] = codec[f] /\ nginx'[f] = nginx[f]
    BY <1>1 DEF CgiInv, Pending
  <2>1. QED BY <1>3
<1>8. Stamped'
  <2>1. \A m \in wire' : m.begin = NoTime => Early(m.req)'
    BY <1>1 DEF CgiInv, Stamped
  <2>2. ASSUME NEW m \in wire', NEW f \in Fd, m.req = nginx'[f].req
        PROVE  m.fd = f /\ codec'[f].reqBeginTime_ \in {NoTime, m.begin}
    <3>1. m.req # NoReq
      BY Numbers DEF CgiInv, CgiTypeOK, Forwarded
    <3>2. QED BY <1>2, <2>2, <3>1 DEF CgiInv, Stamped
  <2>3. \A m, n \in wire' : m.req = n.req => m.begin = n.begin
    BY DEF CgiInv, Stamped
  <2>4. QED BY <2>1, <2>2, <2>3 DEF Stamped
<1>9. AnsweredAlone'
  BY <1>1 DEF CgiInv, AnsweredAlone
<1>10. Late'
  <2> SUFFICES ASSUME NEW m \in wire', m.req \in Steady, Told(m.req, Expired)
               PROVE  elapsed[m.begin] > Timeout /\ codec'[m.fd].reqBeginTime_ # m.begin
    BY <1>1 DEF Late
  <2>1. m.begin # NoTime /\ m.fd \in Fd
    BY DEF CgiInv, Stamped, Steady, CgiTypeOK, Forwarded
  <2>2. elapsed[m.begin] > Timeout /\ codec[m.fd].reqBeginTime_ # m.begin
    BY DEF CgiInv, Late
  <2>3. QED BY <1>3, <2>1, <2>2
<1>11. TimeoutsFinal'
  BY <1>1 DEF CgiInv, TimeoutsFinal
<1>12. QED
  BY <1>4, <1>5, <1>6, <1>7, <1>8, <1>9, <1>10, <1>11 DEF CgiInv

LEMMA Created ==
  ASSUME CgiTypeOK, NEW c \in CreateProxyConnection
  PROVE  c[1] \in Link \cup {NULL, NoFd} /\ c[2] \in [Link -> LinkState]
<1>1. links \in [Link -> LinkState]
  BY DEF CgiTypeOK
<1>2. CASE c = <<NoFd, links>>
  BY <1>1, <1>2
<1>3. CASE \E l \in Link : c = <<l, [links EXCEPT ![l] = IF serverUp THEN "open" ELSE "dead"]>>
  BY <1>1, <1>3 DEF LinkState
<1>4. QED BY <1>2, <1>3 DEF CreateProxyConnection

LEMMA SendHeartBeatMsgOK == ASSUME CgiInv, SendHeartBeatMsg PROVE CgiInv'
<1>1. ServerTypes' /\ wire' \subseteq wire /\ asks' = asks
  <2>1. CASE SendMsg({})
    BY <2>1, HeartBeatSent DEF CgiInv
  <2>2. CASE wire' = wire /\ asks' = asks /\ \E c \in CreateProxyConnection :
               c[1] # NoFd /\ pCon' = c[1] /\ links' = c[2]
    BY <2>2, Created DEF CgiInv, CgiTypeOK, ServerTypes
  <2>3. CASE UNCHANGED serverVars
    BY <2>3 DEF serverVars, CgiInv, CgiTypeOK, ServerTypes
  <2>4. QED BY <2>1, <2>2, <2>3 DEF SendHeartBeatMsg, serverVars
<1>2. UNCHANGED <<table, codec, sec, elapsed, nginx, next, heard>>
  BY DEF SendHeartBeatMsg, processVars, timeVars, webVars
<1>3. CgiTypeOK'
  BY <1>1, <1>2 DEF CgiInv, CgiTypeOK, ServerTypes
<1>4. QED BY <1>1, <1>2, <1>3, Forgets

LEMMA LinkClosedOK == ASSUME CgiInv, NEW l \in Link, LinkClosed(l) PROVE CgiInv'
<1>1. CgiTypeOK'
  BY DEF LinkClosed, CgiInv, CgiTypeOK, LinkState, processVars, timeVars, webVars
<1>2. QED BY <1>1, Forgets DEF LinkClosed, processVars, timeVars, webVars

LEMMA ServerStopsOK == ASSUME CgiInv, ServerStops PROVE CgiInv'
<1>1. CgiTypeOK'
  BY DEF ServerStops, CgiInv, CgiTypeOK, LinkState, processVars, timeVars, webVars
<1>2. QED BY <1>1, Forgets DEF ServerStops, processVars, timeVars, webVars

LEMMA ServerStartsOK == ASSUME CgiInv, ServerStarts PROVE CgiInv'
<1>1. CgiTypeOK'
  BY DEF ServerStarts, CgiInv, CgiTypeOK, processVars, serverVars, timeVars, webVars
<1>2. QED
  BY <1>1, Forgets DEF ServerStarts, processVars, serverVars, timeVars, webVars

LEMMA AllocateConnectionOK ==
  ASSUME CgiInv, NEW fd \in Fd, AllocateConnection(fd) PROVE CgiInv'
<1>1. CgiTypeOK'
  BY DEF AllocateConnection, CgiInv, CgiTypeOK, serverVars, timeVars, webVars
<1>2. QED
  BY <1>1, Forgets DEF AllocateConnection, serverVars, timeVars, webVars

LEMMA GoneTypes ==
  ASSUME CgiTypeOK, NEW F \in SUBSET Fd, Gone(F)
  PROVE  /\ table' \in [Fd -> {"none", "null", "conn"}] /\ codec' \in [Fd -> Codec]
         /\ nginx' \in [Fd -> Stage]
         /\ \A f \in Fd : \/ codec'[f] = codec[f] /\ nginx'[f] = nginx[f]
                          \/ codec'[f] = Blank /\ nginx'[f] = Silent
BY Numbers DEF Gone, CgiTypeOK

LEMMA ConnectionClosedOK ==
  ASSUME CgiInv, NEW fd \in Fd, ConnectionClosed(fd) PROVE CgiInv'
<1>1. /\ table' \in [Fd -> {"none", "null", "conn"}] /\ codec' \in [Fd -> Codec]
      /\ nginx' \in [Fd -> Stage]
      /\ \A f \in Fd : \/ codec'[f] = codec[f] /\ nginx'[f] = nginx[f]
                       \/ codec'[f] = Blank /\ nginx'[f] = Silent
  BY GoneTypes DEF ConnectionClosed, CgiInv
<1>2. CgiTypeOK'
  BY <1>1 DEF ConnectionClosed, CgiInv, CgiTypeOK, timeVars
<1>3. QED BY <1>1, <1>2, Forgets DEF ConnectionClosed, timeVars

LEMMA CheckFDExpireTimeOK == ASSUME CgiInv, CheckFDExpireTime PROVE CgiInv'
<1>1. PICK F \in SUBSET Fd :
        /\ IF \E fd \in Fd : table[fd] = "null"
           THEN /\ alive' = FALSE /\ Gone(Fd)
                /\ pCon' = NULL /\ links' = [l \in Link |-> "closed"] /\ wire' = {}
           ELSE Gone(F) /\ UNCHANGED <<alive, pCon, links, wire>>
        /\ UNCHANGED <<asks, serverUp, timeVars, next, heard>>
  BY DEF CheckFDExpireTime, Reached
<1>2. PICK G \in SUBSET Fd : Gone(G)
  BY <1>1
<1>3. /\ table' \in [Fd -> {"none", "null", "conn"}] /\ codec' \in [Fd -> Codec]
      /\ nginx' \in [Fd -> Stage]
      /\ \A f \in Fd : \/ codec'[f] = codec[f] /\ nginx'[f] = nginx[f]
                       \/ codec'[f] = Blank /\ nginx'[f] = Silent
  BY <1>2, GoneTypes DEF CgiInv
<1>4. pCon' \in Link \cup {NULL, NoFd} /\ links' \in [Link -> LinkState] /\ wire' \subseteq wire
  BY <1>1 DEF CgiInv, CgiTypeOK, LinkState
<1>5. CgiTypeOK'
  BY <1>1, <1>3, <1>4 DEF CgiInv, CgiTypeOK, timeVars
<1>6. QED BY <1>1, <1>3, <1>4, <1>5, Forgets DEF timeVars

LEMMA OnThreadStartedOK == ASSUME CgiInv, OnThreadStarted PROVE CgiInv'
<1>1. pCon' \in Link \cup {NULL, NoFd} /\ links' \in [Link -> LinkState]
  BY Created DEF OnThreadStarted, CgiInv
<1>2. CgiTypeOK'
  BY <1>1 DEF OnThreadStarted, CgiInv, CgiTypeOK, timeVars, webVars
<1>3. QED BY <1>2, Forgets DEF OnThreadStarted, timeVars, webVars

----------------------------------------------------------------------------
(* Time *)

LEMMA TickOK == ASSUME CgiInv, Tick PROVE CgiInv'
<1> DEFINE new == CHOOSE s \in Second \ Remembered :
                    \A t \in Second \ Remembered : s <= t
<1>1. new \in Second \ Remembered
  BY FreshSecond
<1>2. /\ sec' = new
      /\ elapsed' = [s \in Second |->
           IF s \notin Remembered THEN 0
           ELSE IF elapsed[s] > Timeout THEN elapsed[s] ELSE elapsed[s] + 1]
      /\ UNCHANGED <<table, codec, pCon, links, wire, asks, nginx, next, heard>>
  BY DEF Tick, processVars, serverVars, webVars
<1> HIDE DEF new
<1>3. /\ Steady' = Steady /\ \A r : Early(r)' <=> Early(r)
      /\ \A q, w : Told(q, w)' <=> Told(q, w)
  BY <1>2 DEF Steady, Early, Told
<1>4. CgiTypeOK'
  <2>1. elapsed' \in [Second -> Nat]
    BY <1>2 DEF CgiInv, CgiTypeOK
  <2>2. QED BY <1>1, <1>2, <2>1 DEF CgiInv, CgiTypeOK
<1>5. Owned'
  BY <1>1, <1>2 DEF CgiInv, Owned
<1>6. Unsent'
  BY <1>2, <1>3 DEF CgiInv, Unsent
<1>7. Reading'
  BY <1>2, <1>3 DEF CgiInv, Reading
<1>8. Pending'
  BY <1>2, <1>3 DEF CgiInv, Pending
<1>9. Stamped'
  BY <1>2, <1>3 DEF CgiInv, Stamped
<1>10. AnsweredAlone' /\ TimeoutsFinal'
  BY <1>2, <1>3 DEF CgiInv, AnsweredAlone, TimeoutsFinal
<1>11. Late'
  <2> SUFFICES ASSUME NEW m \in wire, m.req \in Steady, Told(m.req, Expired)
               PROVE  elapsed'[m.begin] > Timeout /\ codec[m.fd].reqBeginTime_ # m.begin
    BY <1>2, <1>3 DEF Late
  <2>1. m.begin # NoTime /\ m.begin \in Second
    BY DEF CgiInv, Stamped, Steady, CgiTypeOK, Forwarded
  <2>2. m.begin \in Remembered
    BY <2>1 DEF Remembered
  <2>3. elapsed[m.begin] > Timeout /\ codec[m.fd].reqBeginTime_ # m.begin
    BY DEF CgiInv, Late
  <2>4. QED BY <1>2, <2>1, <2>2, <2>3
<1>12. QED
  BY <1>4, <1>5, <1>6, <1>7, <1>8, <1>9, <1>10, <1>11 DEF CgiInv

----------------------------------------------------------------------------
(* Records *)

\* A connection takes a new request only when its codec is blank: the branch
\* that repeats a request is not taken.
LEMMA ReadyIsBlank ==
  ASSUME CgiInv, NEW fd \in Fd, Ready(fd)
  PROVE  codec[fd] = Blank /\ nginx[fd].left = 0
<1>1. CASE nginx[fd].req = NoReq
  BY <1>1 DEF CgiInv, Owned
<1>2. CASE nginx[fd].req # NoReq
  <2> DEFINE r == nginx[fd].req
  <2>1. r \in Req /\ heard[r] # << >> /\ ~Early(r) /\ nginx[fd].left = 0
    BY <1>2, CodecOf DEF CgiInv, Ready
  <2>2. heard[r] \in Seq(Received)
    BY <2>1, Receipts DEF CgiInv
  <2>3. 1 \in 1 .. Len(heard[r])
    BY <2>1, <2>2
  <2>4. ~(heard[r][1].left > 0)
    BY <2>1, <2>3 DEF Early
  <2>5. ~codec[fd].gotRequest_
    BY <2>3, <2>4 DEF CgiInv, Pending
  <2>6. QED BY <2>1, <2>5 DEF CgiInv, Reading
<1>3. QED BY <1>1, <1>2

LEMMA onBeginRequestOK ==
  ASSUME CgiInv, NEW fd \in Fd, NEW r \in Req, onBeginRequest(fd, r)
  PROVE  CgiInv'
<1> DEFINE c == [gotRequest_ |-> FALSE, reqBeginTime_ |-> sec, params_ |-> NoReq]
           n == [req |-> r, left |-> 2]
<1>1. /\ codec[fd] = Blank /\ nginx[fd].left = 0
      /\ ~Blank.gotRequest_ /\ Blank.params_ = NoReq
  BY ReadyIsBlank DEF onBeginRequest, Blank
<1>2. /\ codec' = [codec EXCEPT ![fd] = c] /\ nginx' = [nginx EXCEPT ![fd] = n]
      /\ r = next /\ next' = next + 1
      /\ UNCHANGED <<table, pCon, links, wire, asks, sec, elapsed, heard>>
  BY <1>1 DEF onBeginRequest, serverVars, timeVars
<1>3. /\ c \in Codec /\ n \in Stage /\ ~c.gotRequest_ /\ c.reqBeginTime_ = sec
      /\ c.params_ = NoReq /\ n.req = r /\ n.left = 2 /\ sec # NoTime
  BY Numbers DEF Codec, Stage, CgiInv, CgiTypeOK
<1> HIDE DEF c, n
<1>4. /\ Steady' = Steady /\ \A q : Early(q)' <=> Early(q)
      /\ \A q, w : Told(q, w)' <=> Told(q, w)
  BY <1>2 DEF Steady, Early, Told
<1>5. /\ codec'[fd] = c /\ nginx'[fd] = n
      /\ \A f \in Fd \ {fd} : codec'[f] = codec[f] /\ nginx'[f] = nginx[f]
  BY <1>2 DEF CgiInv, CgiTypeOK
<1>6. /\ next \in Nat /\ NReq \in Nat /\ r = next /\ r <= NReq
      /\ \A f \in Fd : nginx[f].req # NoReq => nginx[f].req < next
      /\ \A m \in wire : m.req < next
      /\ \A f \in Fd : nginx[f].req \in Req \cup {NoReq}
      /\ \A q \in Req : q \in Nat /\ q >= 1
  BY <1>2, Numbers, CodecOf, CgiAssumption DEF CgiInv, CgiTypeOK, Owned, Unsent
<1>7. CgiTypeOK'
  BY <1>2, <1>3, <1>6 DEF CgiInv, CgiTypeOK
<1>8. Owned'
  <2>1. \A f \in Fd : nginx'[f].req # NoReq => nginx'[f].req < next'
    BY <1>2, <1>3, <1>5, <1>6
  <2>2. \A f \in Fd : nginx'[f].req = NoReq => codec'[f] = Blank /\ nginx'[f].left = 0
    BY <1>3, <1>5, <1>6, Numbers DEF CgiInv, Owned
  <2>3. \A f, g \in Fd : nginx'[f].req # NoReq /\ nginx'[f].req = nginx'[g].req => f = g
    BY <1>3, <1>5, <1>6 DEF CgiInv, Owned
  <2>4. QED BY <1>2, <2>1, <2>2, <2>3 DEF CgiInv, Owned
<1>9. Unsent'
  <2>1. \A q \in Req : (q < next => q < next + 1) /\ (q >= next + 1 => q >= next)
    BY <1>6
  <2>2. \A m \in wire : m.req \in Req
    BY Numbers DEF CgiInv, CgiTypeOK, Forwarded
  <2>3. QED BY <1>2, <1>4, <2>1, <2>2 DEF CgiInv, Unsent
<1>10. Reading'
  <2>1. /\ asks[r] = 0 /\ \A m \in wire : m.req # r
    BY <1>6 DEF CgiInv, Unsent
  <2>2. QED BY <1>2, <1>3, <1>5, <2>1 DEF CgiInv, Reading
<1>11. Pending'
  <2>1. heard[r] = << >> /\ \A q \in Req : ~Told(q, r)
    BY <1>6 DEF CgiInv, Unsent
  <2>2. QED BY <1>2, <1>3, <1>4, <1>5, <2>1 DEF CgiInv, Pending
<1>12. Stamped'
  BY <1>2, <1>3, <1>4, <1>5, <1>6 DEF CgiInv, Stamped
<1>13. AnsweredAlone' /\ TimeoutsFinal'
  BY <1>2, <1>4 DEF CgiInv, AnsweredAlone, TimeoutsFinal
<1>14. Late'
  <2> SUFFICES ASSUME NEW m \in wire, m.req \in Steady, Told(m.req, Expired)
               PROVE  elapsed[m.begin] > Timeout /\ codec'[m.fd].reqBeginTime_ # m.begin
    BY <1>2, <1>4 DEF Late
  <2>1. elapsed[m.begin] > Timeout /\ codec[m.fd].reqBeginTime_ # m.begin /\ m.fd \in Fd
    BY DEF CgiInv, Late, CgiTypeOK, Forwarded
  <2>2. m.begin # sec
    BY <2>1, CgiAssumption DEF CgiInv, Owned
  <2>3. QED BY <1>3, <1>5, <2>1, <2>2
<1>15. QED
  BY <1>7, <1>8, <1>9, <1>10, <1>11, <1>12, <1>13, <1>14 DEF CgiInv

LEMMA onParamsOK == ASSUME CgiInv, NEW fd \in Fd, onParams(fd) PROVE CgiInv'
<1> DEFINE c == [codec[fd] EXCEPT !.params_ = nginx[fd].req]
           n == [nginx[fd] EXCEPT !.left = 1]
<1>1. /\ codec' = [codec EXCEPT ![fd] = c] /\ nginx' = [nginx EXCEPT ![fd] = n]
      /\ nginx[fd].left = 2
      /\ UNCHANGED <<table, pCon, links, wire, asks, sec, elapsed, next, heard>>
  BY DEF onParams, serverVars, timeVars
<1>2. /\ c \in Codec /\ n \in Stage /\ c.gotRequest_ = codec[fd].gotRequest_
      /\ c.reqBeginTime_ = codec[fd].reqBeginTime_
      /\ c.params_ = nginx[fd].req /\ n.req = nginx[fd].req /\ n.left = 1
  BY CodecOf DEF Codec, Stage, CgiInv
<1> HIDE DEF c, n
<1>3. /\ Steady' = Steady /\ \A q : Early(q)' <=> Early(q)
      /\ \A q, w : Told(q, w)' <=> Told(q, w)
  BY <1>1 DEF Steady, Early, Told
<1>4. /\ codec'[fd] = c /\ nginx'[fd] = n
      /\ \A f \in Fd \ {fd} : codec'[f] = codec[f] /\ nginx'[f] = nginx[f]
  BY <1>1 DEF CgiInv, CgiTypeOK
<1>5. CgiTypeOK'
  BY <1>1, <1>2 DEF CgiInv, CgiTypeOK
<1>6. Owned'
  <2>1. nginx[fd].req # NoReq
    BY <1>1 DEF CgiInv, Owned
  <2>2. QED BY <1>1, <1>2, <1>4, <2>1 DEF CgiInv, Owned
<1>7. Unsent'
  BY <1>1, <1>3 DEF CgiInv, Unsent
<1>8. Reading'
  BY <1>1, <1>2, <1>4 DEF CgiInv, Reading
<1>9. Pending'
  BY <1>1, <1>2, <1>3, <1>4 DEF CgiInv, Pending
<1>10. Stamped'
  BY <1>1, <1>2, <1>3, <1>4 DEF CgiInv, Stamped
<1>11. AnsweredAlone' /\ TimeoutsFinal'
  BY <1>1, <1>3 DEF CgiInv, AnsweredAlone, TimeoutsFinal
<1>12. Late'
  BY <1>1, <1>2, <1>3, <1>4 DEF CgiInv, Late
<1>13. QED
  BY <1>5, <1>6, <1>7, <1>8, <1>9, <1>10, <1>11, <1>12 DEF CgiInv

LEMMA onStdinOK == ASSUME CgiInv, NEW fd \in Fd, onStdin(fd) PROVE CgiInv'
<1> DEFINE c == [codec[fd] EXCEPT !.gotRequest_ = TRUE]
           n == [nginx[fd] EXCEPT !.left = 0]
           r == nginx[fd].req
           b == codec[fd].reqBeginTime_
<1>1. /\ codec' = [codec EXCEPT ![fd] = c] /\ nginx' = [nginx EXCEPT ![fd] = n]
      /\ nginx[fd].left = 1 /\ onRequest(fd, b)
      /\ UNCHANGED <<table, sec, elapsed, next, heard>>
  BY DEF onStdin, timeVars
<1>2. /\ c \in Codec /\ n \in Stage /\ c.gotRequest_ = TRUE /\ c.reqBeginTime_ = b
      /\ c.params_ = codec[fd].params_ /\ n.req = r /\ n.left = 0
  <2>1. codec[fd] \in Codec /\ nginx[fd] \in Stage
    BY CodecOf DEF CgiInv
  <2>2. c \in Codec /\ c.gotRequest_ = TRUE /\ c.reqBeginTime_ = b
        /\ c.params_ = codec[fd].params_
    BY <2>1 DEF Codec
  <2>3. n \in Stage /\ n.req = r /\ n.left = 0
    BY <2>1 DEF Stage
  <2>4. QED BY <2>2, <2>3
<1>3. /\ r \in Req /\ r < next /\ b \in Second \cup {NoTime}
      /\ codec[fd].params_ \in {NoReq, r}
  BY <1>1, CodecOf DEF CgiInv, Owned, Reading
<1>4. \A f \in Fd \ {fd} : nginx[f].req # r
  BY <1>3, Numbers DEF CgiInv, Owned
<1>5. /\ asks[r] = 0 /\ \A m \in wire : m.req # r
      /\ \A i \in 1 .. Len(heard[r]) : heard[r][i].left > 0
      /\ b = NoTime => Early(r)
      /\ \A q \in Req : ~Told(q, r)
  BY <1>1 DEF CgiInv, Reading, Pending
<1> HIDE DEF c, n, r, b
<1>6. /\ ServerTypes'
      /\ \A m \in wire' : m \in wire \/ (m.req = codec[fd].params_ /\ m.fd = fd /\ m.begin = b)
      /\ \A q \in Req : asks'[q] \in {asks[q], asks[q] + 1}
      /\ \A q \in Req : q # codec[fd].params_ => asks'[q] = asks[q]
  BY <1>1, <1>3, RequestSent DEF CgiInv
<1>7. \A m \in wire' : m \in wire \/ (m.req = r /\ m.fd = fd /\ m.begin = b)
  <2> SUFFICES ASSUME NEW m \in wire', m \notin wire
               PROVE  m.req = r /\ m.fd = fd /\ m.begin = b
    OBVIOUS
  <2>1. m.req \in Req
    BY <1>6, Numbers DEF ServerTypes, Forwarded
  <2>2. QED BY <1>3, <1>6, <2>1, Numbers
<1>8. \A q \in Req : /\ asks'[q] <= 1 /\ (asks'[q] = 0 \/ q < next)
                     /\ q # r => asks'[q] = asks[q]
  <2> SUFFICES ASSUME NEW q \in Req
               PROVE  /\ asks'[q] <= 1 /\ (asks'[q] = 0 \/ q < next)
                      /\ q # r => asks'[q] = asks[q]
    OBVIOUS
  <2>1. q # r => asks'[q] = asks[q]
    BY <1>3, <1>6, Numbers
  <2>2. asks[q] \in Nat /\ asks[q] <= 1 /\ (q >= next => asks[q] = 0)
        /\ q \in Nat /\ next \in Nat
    BY Numbers, CgiAssumption DEF CgiInv, CgiTypeOK, Unsent
  <2>3. CASE q = r
    BY <1>3, <1>5, <1>6, <2>2, <2>3
  <2>4. CASE q # r
    BY <2>1, <2>2, <2>4
  <2>5. QED BY <2>3, <2>4
<1>9. /\ Steady' = Steady /\ \A q : Early(q)' <=> Early(q)
      /\ \A q, w : Told(q, w)' <=> Told(q, w)
  BY <1>1 DEF Steady, Early, Told
<1>10. /\ codec'[fd] = c /\ nginx'[fd] = n
       /\ \A f \in Fd \ {fd} : codec'[f] = codec[f] /\ nginx'[f] = nginx[f]
  BY <1>1 DEF CgiInv, CgiTypeOK
<1>11. CgiTypeOK'
  BY <1>1, <1>2, <1>6 DEF CgiInv, CgiTypeOK, ServerTypes
<1>12. Owned'
  BY <1>1, <1>2, <1>3, <1>4, <1>10, Numbers DEF CgiInv, Owned
<1>13. Unsent'
  <2>1. \A q \in Req : asks'[q] <= 1 /\ (q >= next => asks'[q] = 0)
    BY <1>8, Numbers, CgiAssumption DEF CgiInv, CgiTypeOK
  <2>2. \A m \in wire' : m.req < next
    BY <1>3, <1>7 DEF CgiInv, Unsent
  <2>3. QED BY <1>1, <1>9, <2>1, <2>2 DEF CgiInv, Unsent
<1>14. Reading'
  <2> SUFFICES ASSUME NEW f \in Fd
      PROVE /\ codec'[f].params_ \in {NoReq, nginx'[f].req}
            /\ nginx'[f].left > 0 =>
                 /\ ~codec'[f].gotRequest_ /\ asks'[nginx'[f].req] = 0
                 /\ \A m \in wire' : m.req # nginx'[f].req
            /\ nginx'[f].left = 0 /\ ~codec'[f].gotRequest_ => codec'[f] = Blank
    BY DEF Reading
  <2>1. CASE f = fd
    BY <1>2, <1>3, <1>10, <2>1
  <2>2. CASE f # fd
    <3>1. codec'[f] = codec[f] /\ nginx'[f] = nginx[f] /\ nginx[f].req # r
      BY <1>4, <1>10, <2>2
    <3>2. nginx[f].left > 0 => nginx[f].req \in Req
      BY CodecOf DEF CgiInv, Owned
    <3>3. QED BY <1>7, <1>8, <3>1, <3>2 DEF CgiInv, Reading
  <2>3. QED BY <2>1, <2>2
<1>15. Pending'
  <2>1. ASSUME NEW f \in Fd, f # fd, nginx[f].left > 0 \/ codec[f].gotRequest_
        PROVE  /\ \A i \in 1 .. Len(heard[nginx[f].req]) : heard[nginx[f].req][i].left > 0
               /\ codec[f].reqBeginTime_ = NoTime => Early(nginx[f].req)
               /\ \A q \in Req : ~Told(q, nginx[f].req)
    BY <2>1 DEF CgiInv, Pending
  <2>2. \A f \in Fd \ {fd} : codec'[f] = codec[f] /\ nginx'[f] = nginx[f]
    BY <1>10
  <2>3. nginx'[fd].req = r /\ codec'[fd].reqBeginTime_ = b
    BY <1>2, <1>10
  <2> SUFFICES ASSUME NEW f \in Fd, nginx'[f].left > 0 \/ codec'[f].gotRequest_
      PROVE /\ \A i \in 1 .. Len(heard[nginx'[f].req]) : heard[nginx'[f].req][i].left > 0
            /\ codec'[f].reqBeginTime_ = NoTime => Early(nginx'[f].req)
            /\ \A q \in Req : ~Told(q, nginx'[f].req)
    BY <1>1, <1>9 DEF Pending
  <2>4. CASE f = fd
    BY <1>5, <2>3, <2>4
  <2>5. CASE f # fd
    BY <2>1, <2>2, <2>5
  <2>6. QED BY <2>4, <2>5
<1>16. Stamped'
  <2>1. \A m \in wire' : m.begin = NoTime => Early(m.req)
    BY <1>5, <1>7 DEF CgiInv, Stamped
  <2>2. ASSUME NEW m \in wire', NEW f \in Fd, m.req = nginx'[f].req
        PROVE  m.fd = f /\ codec'[f].reqBeginTime_ \in {NoTime, m.begin}
    <3>1. CASE m \in wire
      <4>1. f # fd
        BY <1>2, <1>5, <1>10, <2>2, <3>1
      <4>2. QED BY <1>10, <2>2, <3>1, <4>1 DEF CgiInv, Stamped
    <3>2. CASE m.req = r /\ m.fd = fd /\ m.begin = b
      <4>1. f = fd
        BY <1>4, <1>10, <2>2, <3>2
      <4>2. QED BY <1>2, <1>10, <3>2, <4>1
    <3>3. QED BY <1>7, <3>1, <3>2
  <2>3. \A m, k \in wire' : m.req = k.req => m.begin = k.begin
    BY <1>5, <1>7 DEF CgiInv, Stamped
  <2>4. QED BY <1>9, <2>1, <2>2, <2>3 DEF Stamped
<1>17. AnsweredAlone' /\ TimeoutsFinal'
  BY <1>1, <1>9 DEF CgiInv, AnsweredAlone, TimeoutsFinal
<1>18. Late'
  <2> SUFFICES ASSUME NEW m \in wire', m.req \in Steady, Told(m.req, Expired)
               PROVE  elapsed[m.begin] > Timeout /\ codec'[m.fd].reqBeginTime_ # m.begin
    BY <1>1, <1>9 DEF Late
  <2>1. m.req # r
    BY <1>3, <1>5 DEF Steady, Told, Early
  <2>2. m \in wire
    BY <1>7, <2>1
  <2>3. codec'[m.fd].reqBeginTime_ = codec[m.fd].reqBeginTime_
    BY <1>2, <1>10, <2>2 DEF b, CgiInv, CgiTypeOK, Forwarded
  <2>4. QED BY <2>2, <2>3 DEF CgiInv, Late
<1>19. QED
  BY <1>11, <1>12, <1>13, <1>14, <1>15, <1>16, <1>17, <1>18 DEF CgiInv

----------------------------------------------------------------------------
(* Answers *)

\* Early and Told of any receipts h, those before a step or after it.
EarlyIn(h, r) == \E i \in 1 .. Len(h[r]) : h[r][i].left > 0
ToldIn(h, r, w) == \E i \in 1 .. Len(h[r]) : h[r][i].of = w

LEMMA Receipt ==
  ASSUME CgiTypeOK, NEW r \in Req, NEW e \in Received, heard'[r] = Append(heard[r], e)
  PROVE  /\ heard'[r] \in Seq(Received)
         /\ \A i \in 1 .. Len(heard'[r]) :
              \/ i \in 1 .. Len(heard[r]) /\ heard'[r][i] = heard[r][i]
              \/ i = Len(heard[r]) + 1 /\ heard'[r][i] = e
         /\ EarlyIn(heard', r) <=> (EarlyIn(heard, r) \/ e.left > 0)
         /\ \A w : ToldIn(heard', r, w) <=> (ToldIn(heard, r, w) \/ e.of = w)
<1> DEFINE h == heard[r]
           n == heard'[r]
<1>1. h \in Seq(Received) /\ Len(h) \in Nat /\ n = Append(h, e)
  BY Receipts
<1> HIDE DEF h, n
<1>2. /\ n \in Seq(Received) /\ Len(n) = Len(h) + 1
      /\ \A i \in 1 .. Len(h) : i \in 1 .. Len(n) /\ n[i] = h[i]
      /\ Len(h) + 1 \in 1 .. Len(n) /\ n[Len(h) + 1] = e
  BY <1>1
<1>3. \A i \in 1 .. Len(n) : i \in 1 .. Len(h) \/ i = Len(h) + 1
  BY <1>1, <1>2
<1>4. (\E i \in 1 .. Len(n) : n[i].left > 0) <=>
        (\E i \in 1 .. Len(h) : h[i].left > 0) \/ e.left > 0
  BY <1>2, <1>3
<1>5. \A w : (\E i \in 1 .. Len(n) : n[i].of = w) <=>
        (\E i \in 1 .. Len(h) : h[i].of = w) \/ e.of = w
  BY <1>2, <1>3
<1>6. QED BY <1>2, <1>3, <1>4, <1>5 DEF h, n, EarlyIn, ToldIn

\* What a request receives leaves it answered at most once if it is no answer
\* to a steady request, or the first receipt.
LEMMA StillAlone ==
  ASSUME CgiTypeOK, NEW r \in Req, NEW e \in Received, heard'[r] = Append(heard[r], e),
         NEW S, \A i, j \in 1 .. Len(heard[r]) : {heard[r][i].of, heard[r][j].of} \subseteq S => i = j,
         e.of \in S => heard[r] = << >>
  PROVE  \A i, j \in 1 .. Len(heard'[r]) :
           {heard'[r][i].of, heard'[r][j].of} \subseteq S => i = j
<1> DEFINE n == heard'[r]
<1>1. \A i \in 1 .. Len(n) : \/ i \in 1 .. Len(heard[r]) /\ n[i] = heard[r][i]
                             \/ i = Len(heard[r]) + 1 /\ n[i] = e
  BY Receipt
<1> HIDE DEF n
<1>2. Len(heard[r]) \in Nat
  BY Receipts
<1>3. CASE e.of \in S
  <2>1. Len(heard[r]) = 0
    BY <1>3
  <2>2. QED BY <1>1, <2>1 DEF n
<1>4. CASE e.of \notin S
  BY <1>1, <1>2, <1>4 DEF n
<1>5. QED BY <1>3, <1>4

\* An answer that meets its connection, with a request on it.
LEMMA AnswerMeets ==
  ASSUME CgiInv, NEW m \in wire, Resp(m), CheckConn(m.fd, m.begin),
         nginx[m.fd].req # NoReq
  PROVE  CgiInv'
<1> DEFINE fd == m.fd
<1>1. /\ m.req \in Known /\ m.req \in Req /\ fd \in Fd /\ nginx[fd].req \in Req
      /\ nginx[fd].req < next /\ m.begin \in Second \cup {NoTime}
  BY Numbers, CodecOf DEF CgiInv, CgiTypeOK, Forwarded, Owned
<1> PICK r \in Req : r = nginx[fd].req
  BY <1>1
<1>2. [of |-> m.req, left |-> nginx[fd].left] \in Received
  BY <1>1, CodecOf DEF CgiInv, Received
<1> PICK e \in Received : e = [of |-> m.req, left |-> nginx[fd].left]
  BY <1>2
<1>3. /\ wire' = wire \ {m} /\ wire' \subseteq wire
      /\ table' = [table EXCEPT ![fd] = IF @ = "none" THEN "null" ELSE @]
      /\ heard' = [heard EXCEPT ![r] = Append(heard[r], e)]
      /\ codec' = [codec EXCEPT ![fd] = Blank]
      /\ codec[fd].reqBeginTime_ = m.begin
      /\ UNCHANGED <<pCon, links, asks, sec, elapsed, nginx, next>>
      /\ e.of = m.req /\ e.left = nginx[fd].left
  BY DEF Resp, Heard, CheckConn, ResetConnStatus, timeVars, webVars
<1> HIDE DEF fd
<1>4. /\ codec'[fd] = Blank /\ \A f \in Fd \ {fd} : codec'[f] = codec[f]
      /\ heard'[r] = Append(heard[r], e) /\ \A q \in Req \ {r} : heard'[q] = heard[q]
  BY <1>1, <1>3 DEF CgiInv, CgiTypeOK
<1>5. /\ heard'[r] \in Seq(Received)
      /\ EarlyIn(heard', r) <=> (EarlyIn(heard, r) \/ e.left > 0)
      /\ \A w : ToldIn(heard', r, w) <=> (ToldIn(heard, r, w) \/ e.of = w)
      /\ \A i \in 1 .. Len(heard'[r]) :
              \/ i \in 1 .. Len(heard[r]) /\ heard'[r][i] = heard[r][i]
              \/ i = Len(heard[r]) + 1 /\ heard'[r][i] = e
  <2>1. CgiTypeOK /\ heard'[r] = Append(heard[r], e)
    BY <1>4 DEF CgiInv
  <2>2. heard'[r] \in Seq(Received)
    BY <2>1, Receipt
  <2>3. EarlyIn(heard', r) <=> (EarlyIn(heard, r) \/ e.left > 0)
    BY <2>1, Receipt
  <2>4. \A w : ToldIn(heard', r, w) <=> (ToldIn(heard, r, w) \/ e.of = w)
    BY <2>1, Receipt
  <2>5. \A i \in 1 .. Len(heard'[r]) :
              \/ i \in 1 .. Len(heard[r]) /\ heard'[r][i] = heard[r][i]
              \/ i = Len(heard[r]) + 1 /\ heard'[r][i] = e
    BY <2>1, Receipt
  <2>6. QED BY <2>2, <2>3, <2>4, <2>5
<1>6. \A q \in Req \ {r} :
        /\ EarlyIn(heard', q) <=> EarlyIn(heard, q)
        /\ \A w : ToldIn(heard', q, w) <=> ToldIn(heard, q, w)
  BY <1>4 DEF EarlyIn, ToldIn
<1>7. /\ Steady = {q \in Req : ~EarlyIn(heard, q)}
      /\ Steady' = {q \in Req : ~EarlyIn(heard', q)}
      /\ Steady' \subseteq Steady
  <2>1. Steady = {q \in Req : ~EarlyIn(heard, q)}
    BY DEF Steady, Early, EarlyIn
  <2>2. Steady' = {q \in Req : ~EarlyIn(heard', q)}
    BY DEF Steady, Early, EarlyIn
  <2>3. QED BY <1>5, <1>6, <2>1, <2>2
<1>8. \A f \in Fd : nginx[f].req = r => f = fd
  BY <1>1, Numbers DEF CgiInv, Owned
<1>9. Blank.reqBeginTime_ = NoTime /\ Blank.params_ = NoReq /\ ~Blank.gotRequest_
      /\ Blank \in Codec
  BY Numbers DEF Blank
<1>10. \A f \in Fd : nginx[f].left > 0 \/ codec[f].gotRequest_ =>
         nginx[f].req \in Req
  BY CodecOf DEF CgiInv, Owned, Blank
<1>11. CgiTypeOK'
  <2>1. table' \in [Fd -> {"none", "null", "conn"}] /\ codec' \in [Fd -> Codec]
    BY <1>3, <1>9 DEF CgiInv, CgiTypeOK
  <2>2. heard' \in [Req -> Seq(Received)]
    BY <1>1, <1>3, <1>4, <1>5 DEF CgiInv, CgiTypeOK
  <2>3. QED BY <1>3, <2>1, <2>2 DEF CgiInv, CgiTypeOK
<1>12. Owned'
  BY <1>1, <1>3, <1>4 DEF CgiInv, Owned
<1>13. Unsent'
  <2>1. \A q \in Req : q >= next => heard'[q] = << >>
    <3>1. ~(r >= next)
      BY <1>1, Numbers, CgiAssumption DEF CgiInv, CgiTypeOK
    <3>2. QED BY <1>4, <3>1 DEF CgiInv, Unsent
  <2>2. \A w, q \in Req : ToldIn(heard, q, w) => w < next
    BY DEF CgiInv, Unsent, Told, ToldIn
  <2>3. m.req < next
    BY DEF CgiInv, Unsent
  <2>4. \A w, q \in Req : ToldIn(heard', q, w) => w < next
    BY <1>3, <1>5, <1>6, <2>2, <2>3
  <2>5. \A q \in Req : asks[q] <= 1 /\ (q >= next => asks[q] = 0)
    BY DEF CgiInv, Unsent
  <2>6. \A k \in wire' : k.req < next
    BY <1>3 DEF CgiInv, Unsent
  <2> SUFFICES /\ \A q \in Req : asks[q] <= 1 /\ (q >= next => asks[q] = 0 /\ heard'[q] = << >>)
               /\ \A k \in wire' : k.req < next
               /\ \A w, q \in Req : ToldIn(heard', q, w) => w < next
    BY <1>3 DEF Unsent, Told, ToldIn
  <2>7. QED BY <2>1, <2>4, <2>5, <2>6
<1>14. Reading'
  BY <1>3, <1>4, <1>9 DEF CgiInv, Reading
<1>15. Pending'
  <2> SUFFICES ASSUME NEW f \in Fd, nginx[f].left > 0 \/ codec'[f].gotRequest_
      PROVE /\ \A i \in 1 .. Len(heard'[nginx[f].req]) : heard'[nginx[f].req][i].left > 0
            /\ codec'[f].reqBeginTime_ = NoTime => EarlyIn(heard', nginx[f].req)
            /\ \A q \in Req : ~ToldIn(heard', q, nginx[f].req)
    BY <1>3 DEF Pending, Early, EarlyIn, Told, ToldIn
  <2>1. nginx[f].left > 0 \/ codec[f].gotRequest_
    BY <1>4, <1>9
  <2>2. PICK p \in Req : p = nginx[f].req
    BY <1>10, <2>1
  <2>3. /\ \A i \in 1 .. Len(heard[p]) : heard[p][i].left > 0
        /\ codec[f].reqBeginTime_ = NoTime => EarlyIn(heard, p)
        /\ \A q \in Req : ~ToldIn(heard, q, p)
    BY <2>1, <2>2 DEF CgiInv, Pending, Early, EarlyIn, Told, ToldIn
  <2>4. m.req # p
    <3>1. nginx[f].left > 0 => m.req # p
      BY <2>2 DEF CgiInv, Reading
    <3>2. m.req = p => f = fd
      BY <2>2 DEF CgiInv, Stamped, fd
    <3>3. QED BY <1>4, <1>9, <3>1, <3>2
  <2>5. \A q \in Req : ~ToldIn(heard', q, p)
    BY <1>3, <1>5, <1>6, <2>3, <2>4
  <2>6. CASE f = fd
    <3>1. p = r /\ e.left > 0
      BY <1>3, <1>4, <1>9, <2>2, <2>6
    <3>2. QED BY <1>5, <2>2, <2>3, <2>5, <3>1
  <2>7. CASE f # fd
    <3>1. p # r /\ heard'[p] = heard[p] /\ codec'[f] = codec[f]
      BY <1>4, <1>8, <2>2, <2>7
    <3>2. EarlyIn(heard', p) <=> EarlyIn(heard, p)
      BY <1>6, <2>2, <3>1
    <3>3. QED BY <2>2, <2>3, <2>5, <3>1, <3>2
  <2>8. QED BY <2>6, <2>7
<1>16. Stamped'
  <2>1. \A k \in wire' : k \in wire /\ k.req \in Req
    BY <1>3, Numbers DEF CgiInv, CgiTypeOK, Forwarded
  <2>2. \A k \in wire : k.begin = NoTime => EarlyIn(heard, k.req)
    BY DEF CgiInv, Stamped, Early, EarlyIn
  <2>3. \A q \in Req : EarlyIn(heard, q) => EarlyIn(heard', q)
    BY <1>5, <1>6
  <2>4. \A k \in wire' : k.begin = NoTime => EarlyIn(heard', k.req)
    BY <2>1, <2>2, <2>3
  <2>5. \A k \in wire', f \in Fd : k.req = nginx[f].req =>
          k.fd = f /\ codec'[f].reqBeginTime_ \in {NoTime, k.begin}
    BY <1>3, <1>4, <1>9 DEF CgiInv, Stamped
  <2>6. \A k, n \in wire' : k.req = n.req => k.begin = n.begin
    BY <1>3 DEF CgiInv, Stamped
  <2>7. QED BY <1>3, <2>4, <2>5, <2>6 DEF Stamped, Early, EarlyIn
<1>17. m.req \in Steady => codec[fd].gotRequest_ \/ nginx[fd].left > 0
  <2>1. m.req \in Steady => m.begin # NoTime
    BY DEF CgiInv, Stamped, Steady
  <2>2. m.req \in Steady => codec[fd] # Blank
    BY <1>3, <1>9, <2>1
  <2>3. nginx[fd].left \in 0 .. 2
    BY <1>1, CodecOf DEF CgiInv
  <2>4. QED BY <1>1, <2>2, <2>3 DEF CgiInv, Reading
<1>18. AnsweredAlone'
  <2> DEFINE S == Steady \cup {Expired}
  <2>1. e.of \in S /\ r \in Steady' => heard[r] = << >>
    <3> SUFFICES ASSUME e.of \in S, r \in Steady' PROVE heard[r] = << >>
      OBVIOUS
    <3>1. m.req \in Steady
      BY <1>1, <1>3, Numbers
    <3>2. \A i \in 1 .. Len(heard[r]) : heard[r][i].left > 0
      BY <1>1, <1>17, <3>1 DEF CgiInv, Pending
    <3>3. ~EarlyIn(heard, r)
      BY <1>7
    <3>4. heard[r] \in Seq(Received)
      BY <1>1, Receipts DEF CgiInv
    <3>5. Len(heard[r]) = 0
      <4>1. Len(heard[r]) \in Nat
        BY <3>4
      <4>2. 1 \notin 1 .. Len(heard[r])
        BY <3>2, <3>3 DEF EarlyIn
      <4>3. QED BY <4>1, <4>2
    <3>6. QED BY <3>4, <3>5
  <2>2. ASSUME NEW q \in Steady
        PROVE  \A i, j \in 1 .. Len(heard[q]) : {heard[q][i].of, heard[q][j].of} \subseteq S => i = j
    BY DEF CgiInv, AnsweredAlone
  <2> HIDE DEF S
  <2>3. r \in Steady' => \A i, j \in 1 .. Len(heard'[r]) :
          {heard'[r][i].of, heard'[r][j].of} \subseteq S => i = j
    <3> SUFFICES ASSUME r \in Steady'
                 PROVE  \A i, j \in 1 .. Len(heard'[r]) :
                          {heard'[r][i].of, heard'[r][j].of} \subseteq S => i = j
      OBVIOUS
    <3>1. r \in Steady
      BY <1>7
    <3>2. QED BY <1>1, <1>3, <1>4, <2>1, <2>2, <3>1, StillAlone DEF CgiInv
  <2>4. ASSUME NEW q \in Steady', NEW i \in 1 .. Len(heard'[q]), NEW j \in 1 .. Len(heard'[q]),
               {heard'[q][i].of, heard'[q][j].of} \subseteq Steady' \cup {Expired}
        PROVE  i = j
    <3>1. {heard'[q][i].of, heard'[q][j].of} \subseteq S
      BY <1>7, <2>4 DEF S
    <3>2. CASE q = r
      BY <2>3, <3>1, <3>2
    <3>3. CASE q # r
      <4>1. q \in Req /\ q \in Steady
        BY <1>7 DEF Steady
      <4>2. heard'[q] = heard[q]
        BY <1>4, <3>3, <4>1
      <4>3. QED BY <2>2, <3>1, <4>1, <4>2
    <3>4. QED BY <3>2, <3>3
  <2>5. QED BY <2>4 DEF AnsweredAlone
<1>19. Expired # m.req
  BY <1>1, Numbers
<1>20. \A q \in Req : ToldIn(heard', q, Expired) => ToldIn(heard, q, Expired)
  BY <1>3, <1>5, <1>6, <1>19
<1>21. \A k \in wire : k.req \in Steady /\ ToldIn(heard, k.req, Expired) =>
         elapsed[k.begin] > Timeout /\ codec[k.fd].reqBeginTime_ # k.begin
  BY DEF CgiInv, Late, Told, ToldIn
<1>22. Late'
  <2> SUFFICES ASSUME NEW k \in wire', k.req \in Steady', ToldIn(heard', k.req, Expired)
               PROVE  elapsed[k.begin] > Timeout /\ codec'[k.fd].reqBeginTime_ # k.begin
    BY <1>3 DEF Late, Told, ToldIn
  <2>1. k \in wire /\ k.req \in Req /\ k.fd \in Fd /\ k.req \in Steady
    BY <1>3, <1>7, Numbers DEF CgiInv, CgiTypeOK, Forwarded
  <2>2. k.begin # NoTime
    BY <2>1 DEF CgiInv, Stamped, Steady
  <2>3. elapsed[k.begin] > Timeout /\ codec[k.fd].reqBeginTime_ # k.begin
    BY <1>20, <1>21, <2>1
  <2>4. QED BY <1>4, <1>9, <2>1, <2>2, <2>3
<1>23. TimeoutsFinal'
  <2>1. ~(m.req \in Steady /\ ToldIn(heard, m.req, Expired))
    BY <1>3, <1>21 DEF fd
  <2> SUFFICES ASSUME NEW w \in Steady', NEW q \in Req,
                      ToldIn(heard', w, Expired), ToldIn(heard', q, w)
               PROVE  FALSE
    BY DEF TimeoutsFinal, Told, ToldIn
  <2>2. w \in Req /\ w \in Steady
    BY <1>7
  <2>3. ToldIn(heard, w, Expired)
    BY <1>20, <2>2
  <2>4. ~ToldIn(heard, q, w)
    BY <2>2, <2>3 DEF CgiInv, TimeoutsFinal, Told, ToldIn
  <2>5. QED BY <1>3, <1>5, <1>6, <2>1, <2>2, <2>3, <2>4
<1>24. QED
  BY <1>11, <1>12, <1>13, <1>14, <1>15, <1>16, <1>18, <1>22, <1>23 DEF CgiInv

LEMMA RespOK == ASSUME CgiInv, NEW m \in wire, Resp(m) PROVE CgiInv'
<1>1. CASE CheckConn(m.fd, m.begin) /\ nginx[m.fd].req # NoReq
  BY <1>1, AnswerMeets
<1>2. CASE ~(CheckConn(m.fd, m.begin) /\ nginx[m.fd].req # NoReq)
  <2>1. m.fd \in Fd
    BY DEF CgiInv, CgiTypeOK, Forwarded
  <2>2. heard' = heard
    BY <1>2 DEF Resp, Heard
  <2>3. codec' = codec
    <3>1. CASE ~CheckConn(m.fd, m.begin)
      BY <3>1 DEF Resp
    <3>2. CASE nginx[m.fd].req = NoReq
      <4>1. codec[m.fd] = Blank
        BY <2>1, <3>2 DEF CgiInv, Owned
      <4>2. codec' \in {codec, [codec EXCEPT ![m.fd] = Blank]}
        BY DEF Resp, ResetConnStatus
      <4>3. QED BY <2>1, <4>1, <4>2 DEF CgiInv, CgiTypeOK
    <3>3. QED BY <1>2, <3>1, <3>2
  <2>4. /\ table' = [table EXCEPT ![m.fd] = IF @ = "none" THEN "null" ELSE @]
        /\ wire' \subseteq wire
        /\ UNCHANGED <<pCon, links, asks, sec, elapsed, nginx, next>>
    BY DEF Resp, timeVars, webVars
  <2>5. CgiTypeOK'
    BY <2>2, <2>3, <2>4 DEF CgiInv, CgiTypeOK
  <2>6. QED BY <2>2, <2>3, <2>4, <2>5, Forgets
<1>3. QED BY <1>1, <1>2

----------------------------------------------------------------------------
(* Timeouts *)

LEMMA CheckFCGIOvertimeReqOK ==
  ASSUME CgiInv, CheckFCGIOvertimeReq PROVE CgiInv'
<1>1. PICK late \in SUBSET Fd : late = {fd \in Reached : Overdue(codec[fd])}
  BY DEF Reached
<1>2. PICK G \in SUBSET Req : G = {r \in Req : \E fd \in late : nginx[fd].req = r}
  OBVIOUS
<1>3. [of |-> Expired, left |-> 0] \in Received
  BY DEF Received
<1>4. PICK e \in Received : e = [of |-> Expired, left |-> 0]
  BY <1>3
<1>5. /\ codec' = [fd \in Fd |-> IF fd \in late THEN Blank ELSE codec[fd]]
      /\ heard' = [r \in Req |-> IF r \in G THEN Append(heard[r], e) ELSE heard[r]]
      /\ UNCHANGED <<table, pCon, links, wire, asks, sec, elapsed, nginx, next>>
      /\ e.of = Expired /\ e.left = 0
  BY <1>1, <1>2, <1>4 DEF CheckFCGIOvertimeReq, ResetConnStatus, serverVars, timeVars, webVars
<1>6. /\ \A f \in late : codec'[f] = Blank
      /\ \A f \in Fd \ late : codec'[f] = codec[f]
      /\ \A q \in G : heard'[q] = Append(heard[q], e)
      /\ \A q \in Req \ G : heard'[q] = heard[q]
  BY <1>5
<1>7. Blank.reqBeginTime_ = NoTime /\ Blank.params_ = NoReq /\ ~Blank.gotRequest_
      /\ Blank \in Codec
  BY Numbers DEF Blank
<1>8. \A f \in late :
        /\ codec[f].gotRequest_
        /\ codec[f].reqBeginTime_ = NoTime \/ elapsed[codec[f].reqBeginTime_] > Timeout
        /\ nginx[f].left = 0 /\ nginx[f].req # NoReq
        /\ nginx[f].req \in G /\ nginx[f].req < next
  <2> SUFFICES ASSUME NEW f \in late
      PROVE /\ codec[f].gotRequest_
            /\ codec[f].reqBeginTime_ = NoTime \/ elapsed[codec[f].reqBeginTime_] > Timeout
            /\ nginx[f].left = 0 /\ nginx[f].req # NoReq
            /\ nginx[f].req \in G /\ nginx[f].req < next
    OBVIOUS
  <2>1. codec[f].gotRequest_ /\ f \in Fd
        /\ (codec[f].reqBeginTime_ = NoTime \/ elapsed[codec[f].reqBeginTime_] > Timeout)
    BY <1>1 DEF Overdue, Reached
  <2>2. nginx[f].req # NoReq
    BY <1>7, <2>1 DEF CgiInv, Owned
  <2>3. nginx[f].left = 0
    BY <2>1, CodecOf DEF CgiInv, Reading
  <2>4. nginx[f].req \in Req
    BY <2>1, <2>2, CodecOf DEF CgiInv
  <2>5. QED BY <1>2, <2>1, <2>2, <2>3, <2>4 DEF CgiInv, Owned
<1>9. \A f \in Fd : nginx[f].req \in G => f \in late
  BY <1>2, <1>8, Numbers DEF CgiInv, Owned
<1>10. ASSUME NEW q \in G
      PROVE  /\ heard'[q] \in Seq(Received)
             /\ EarlyIn(heard', q) <=> EarlyIn(heard, q)
             /\ \A w : ToldIn(heard', q, w) <=> (ToldIn(heard, q, w) \/ w = Expired)
  <2>1. CgiTypeOK /\ q \in Req /\ heard'[q] = Append(heard[q], e)
    BY <1>6 DEF CgiInv
  <2>2. heard'[q] \in Seq(Received)
    BY <2>1, Receipt
  <2>3. EarlyIn(heard', q) <=> (EarlyIn(heard, q) \/ e.left > 0)
    BY <2>1, Receipt
  <2>4. \A w : ToldIn(heard', q, w) <=> (ToldIn(heard, q, w) \/ e.of = w)
    BY <2>1, Receipt
  <2>5. QED BY <1>5, <2>2, <2>3, <2>4
<1>11. \A q \in Req \ G :
        /\ EarlyIn(heard', q) <=> EarlyIn(heard, q)
        /\ \A w : ToldIn(heard', q, w) <=> ToldIn(heard, q, w)
  BY <1>6 DEF EarlyIn, ToldIn
<1>12. /\ Steady = {q \in Req : ~EarlyIn(heard, q)}
      /\ Steady' = Steady
  <2>1. Steady = {q \in Req : ~EarlyIn(heard, q)}
    BY DEF Steady, Early, EarlyIn
  <2>2. Steady' = {q \in Req : ~EarlyIn(heard', q)}
    BY DEF Steady, Early, EarlyIn
  <2>3. QED BY <1>10, <1>11, <2>1, <2>2
<1>13. \A q, w \in Req : ToldIn(heard', q, w) <=> ToldIn(heard, q, w)
  BY <1>10, <1>11, Numbers
<1>14. \A q \in Req : EarlyIn(heard', q) <=> EarlyIn(heard, q)
  BY <1>10, <1>11
<1>15. ASSUME NEW q \in G
       PROVE  /\ \A i \in 1 .. Len(heard[q]) : heard[q][i].left > 0
              /\ \A w \in Req : ~ToldIn(heard, w, q)
  <2>1. PICK f \in late : nginx[f].req = q
    BY <1>2
  <2>2. QED BY <1>8, <2>1 DEF CgiInv, Pending, Told, ToldIn
<1>16. CgiTypeOK'
  <2>1. codec' \in [Fd -> Codec]
    BY <1>5, <1>7 DEF CgiInv, CgiTypeOK
  <2>2. heard' \in [Req -> Seq(Received)]
    BY <1>5, <1>6, <1>10 DEF CgiInv, CgiTypeOK
  <2>3. QED BY <1>5, <2>1, <2>2 DEF CgiInv, CgiTypeOK
<1>17. Owned'
  BY <1>5, <1>6, <1>8 DEF CgiInv, Owned
<1>18. Unsent'
  <2>1. \A q \in G : ~(q >= next)
    BY <1>2, <1>8, Numbers, CgiAssumption DEF CgiInv, CgiTypeOK
  <2>2. \A q \in Req : asks[q] <= 1 /\ (q >= next => asks[q] = 0 /\ heard'[q] = << >>)
    BY <1>6, <2>1 DEF CgiInv, Unsent
  <2>3. \A w, q \in Req : ToldIn(heard', q, w) => w < next
    BY <1>13 DEF CgiInv, Unsent, Told, ToldIn
  <2> SUFFICES /\ \A q \in Req : asks[q] <= 1 /\ (q >= next => asks[q] = 0 /\ heard'[q] = << >>)
               /\ \A m \in wire : m.req < next
               /\ \A w, q \in Req : ToldIn(heard', q, w) => w < next
    BY <1>5 DEF Unsent, Told, ToldIn
  <2>4. QED BY <2>2, <2>3 DEF CgiInv, Unsent
<1>19. Reading'
  BY <1>5, <1>6, <1>7 DEF CgiInv, Reading
<1>20. Pending'
  <2> SUFFICES ASSUME NEW f \in Fd, nginx[f].left > 0 \/ codec'[f].gotRequest_
      PROVE /\ \A i \in 1 .. Len(heard'[nginx[f].req]) : heard'[nginx[f].req][i].left > 0
            /\ codec'[f].reqBeginTime_ = NoTime => EarlyIn(heard', nginx[f].req)
            /\ \A q \in Req : ~ToldIn(heard', q, nginx[f].req)
    BY <1>5 DEF Pending, Early, EarlyIn, Told, ToldIn
  <2>1. f \notin late /\ codec'[f] = codec[f]
    BY <1>6, <1>7, <1>8
  <2>2. nginx[f].req \in Req \ G
    <3>1. nginx[f].req # NoReq
      BY <1>7, <2>1 DEF CgiInv, Owned
    <3>2. nginx[f].req \in Req
      BY <3>1, CodecOf DEF CgiInv
    <3>3. QED BY <1>9, <2>1, <3>2
  <2> PICK p \in Req \ G : p = nginx[f].req
    BY <2>2
  <2>3. /\ \A i \in 1 .. Len(heard[p]) : heard[p][i].left > 0
        /\ codec[f].reqBeginTime_ = NoTime => EarlyIn(heard, p)
        /\ \A q \in Req : ~ToldIn(heard, q, p)
    BY <2>1 DEF CgiInv, Pending, Early, EarlyIn, Told, ToldIn
  <2>4. QED BY <1>6, <1>13, <1>14, <2>1, <2>3
<1>21. Stamped'
  <2>1. \A m \in wire : m.req \in Req
    BY Numbers DEF CgiInv, CgiTypeOK, Forwarded
  <2>2. \A m \in wire : m.begin = NoTime => EarlyIn(heard, m.req)
    BY DEF CgiInv, Stamped, Early, EarlyIn
  <2>3. \A m \in wire : m.begin = NoTime => EarlyIn(heard', m.req)
    BY <1>14, <2>1, <2>2
  <2>4. \A m \in wire, f \in Fd : m.req = nginx[f].req =>
          m.fd = f /\ codec'[f].reqBeginTime_ \in {NoTime, m.begin}
    BY <1>6, <1>7 DEF CgiInv, Stamped
  <2>5. \A m, n \in wire : m.req = n.req => m.begin = n.begin
    BY DEF CgiInv, Stamped
  <2>6. QED BY <1>5, <2>3, <2>4, <2>5 DEF Stamped, Early, EarlyIn
<1>22. AnsweredAlone'
  <2> PICK S : S = Steady \cup {Expired}
    OBVIOUS
  <2> SUFFICES ASSUME NEW q \in Steady
               PROVE  \A i, j \in 1 .. Len(heard'[q]) :
                        {heard'[q][i].of, heard'[q][j].of} \subseteq S => i = j
    BY <1>12 DEF AnsweredAlone
  <2>1. \A i, j \in 1 .. Len(heard[q]) : {heard[q][i].of, heard[q][j].of} \subseteq S => i = j
    BY DEF CgiInv, AnsweredAlone
  <2>2. q \in Req /\ ~EarlyIn(heard, q)
    BY <1>12
  <2>3. CASE q \in G
    <3>1. heard[q] \in Seq(Received)
      BY <2>2, Receipts DEF CgiInv
    <3>2. 1 \notin 1 .. Len(heard[q])
      BY <1>15, <2>2, <2>3 DEF EarlyIn
    <3>3. heard[q] = << >>
      BY <3>1, <3>2
    <3>4. heard'[q] = Append(heard[q], e)
      BY <1>6, <2>3
    <3>5. QED BY <2>1, <2>2, <3>3, <3>4, StillAlone DEF CgiInv
  <2>4. CASE q \notin G
    <3>1. heard'[q] = heard[q]
      BY <1>6, <2>2, <2>4
    <3>2. QED BY <2>1, <3>1
  <2>5. QED BY <2>3, <2>4
<1>23. Late'
  <2> SUFFICES ASSUME NEW m \in wire, m.req \in Steady, ToldIn(heard', m.req, Expired)
               PROVE  elapsed[m.begin] > Timeout /\ codec'[m.fd].reqBeginTime_ # m.begin
    BY <1>5, <1>12 DEF Late, Told, ToldIn
  <2>1. m.req \in Req /\ m.fd \in Fd /\ m.begin # NoTime
    BY Numbers DEF CgiInv, CgiTypeOK, Forwarded, Stamped, Steady
  <2>2. CASE m.req \in G
    <3>1. PICK f \in late : nginx[f].req = m.req
      BY <1>2, <2>2
    <3>2. m.fd = f /\ codec[f].reqBeginTime_ \in {NoTime, m.begin}
      BY <3>1 DEF CgiInv, Stamped
    <3>3. codec[f].reqBeginTime_ # NoTime
      BY <1>8, <3>1 DEF CgiInv, Pending, Steady
    <3>4. QED BY <1>6, <1>7, <1>8, <2>1, <3>1, <3>2, <3>3
  <2>3. CASE m.req \notin G
    <3>1. ToldIn(heard, m.req, Expired)
      BY <1>11, <2>1, <2>3
    <3>2. elapsed[m.begin] > Timeout /\ codec[m.fd].reqBeginTime_ # m.begin
      BY <3>1 DEF CgiInv, Late, Told, ToldIn
    <3>3. QED BY <1>6, <1>7, <2>1, <3>2
  <2>4. QED BY <2>2, <2>3
<1>24. TimeoutsFinal'
  <2> SUFFICES ASSUME NEW w \in Steady, NEW q \in Req,
                      ToldIn(heard', w, Expired), ToldIn(heard', q, w)
               PROVE  FALSE
    BY <1>12 DEF TimeoutsFinal, Told, ToldIn
  <2>1. w \in Req /\ ToldIn(heard, q, w)
    BY <1>12, <1>13
  <2>2. CASE w \in G
    BY <1>15, <2>1, <2>2
  <2>3. CASE w \notin G
    <3>1. ToldIn(heard, w, Expired)
      BY <1>11, <2>1, <2>3
    <3>2. QED BY <2>1, <3>1 DEF CgiInv, TimeoutsFinal, Told, ToldIn
  <2>4. QED BY <2>2, <2>3
<1>25. QED
  BY <1>16, <1>17, <1>18, <1>19, <1>20, <1>21, <1>22, <1>23, <1>24 DEF CgiInv

----------------------------------------------------------------------------
(* Theorems *)

LEMMA CgiInitOK == CgiInit => CgiInv
<1> SUFFICES ASSUME CgiInit PROVE CgiInv
  OBVIOUS
<1>1. /\ \A r \in Req : heard[r] = << >> /\ asks[r] = 0
      /\ \A f \in Fd : codec[f] = Blank /\ nginx[f] = Silent
      /\ wire = {} /\ elapsed[sec] = 0 /\ next = 1
  BY DEF CgiInit
<1>2. CgiTypeOK
  <2>1. 1 \in Link /\ 1 \in 1 .. NReq + 1
    BY CgiAssumption DEF Link
  <2>2. heard \in [Req -> Seq(Received)]
    <3>1. ASSUME NEW T PROVE << >> \in Seq(T)
      OBVIOUS
    <3>2. QED BY <3>1 DEF CgiInit
  <2>3. QED BY <2>1, <2>2, Numbers DEF CgiInit, CgiTypeOK, LinkState
<1>3. \A r \in Req : (\A w : ~Told(r, w)) /\ ~Early(r)
  BY <1>1 DEF Told, Early
<1>4. Silent.req = NoReq /\ Silent.left = 0 /\ Blank.params_ = NoReq
      /\ ~Blank.gotRequest_
  BY DEF Silent, Blank
<1>5. Owned /\ Reading /\ Pending
  BY <1>1, <1>4 DEF Owned, Reading, Pending
<1>6. Unsent
  BY <1>1, <1>3 DEF Unsent
<1>7. Stamped /\ Late
  BY <1>1 DEF Stamped, Late
<1>8. AnsweredAlone
  BY <1>1 DEF AnsweredAlone, Steady
<1>9. TimeoutsFinal
  BY <1>3 DEF TimeoutsFinal, Steady
<1>10. QED BY <1>2, <1>5, <1>6, <1>7, <1>8, <1>9 DEF CgiInv

LEMMA CgiNextOK == CgiInv /\ [CgiNext]_vars => CgiInv'
<1> SUFFICES ASSUME CgiInv, [CgiNext]_vars PROVE CgiInv'
  OBVIOUS
<1>1. CASE UNCHANGED vars
  <2>1. /\ UNCHANGED <<table, codec, pCon, links, wire, asks, sec, elapsed, nginx, next, heard>>
    BY <1>1 DEF vars, processVars, serverVars, timeVars, webVars
  <2>2. CgiTypeOK'
    BY <2>1 DEF CgiInv, CgiTypeOK
  <2>3. QED BY <2>1, <2>2, Forgets
<1>2. ASSUME NEW fd \in Fd, AllocateConnection(fd) PROVE CgiInv'
  BY <1>2, AllocateConnectionOK
<1>3. ASSUME NEW fd \in Fd, ConnectionClosed(fd) PROVE CgiInv'
  BY <1>3, ConnectionClosedOK
<1>4. ASSUME NEW fd \in Fd, onParams(fd) PROVE CgiInv'
  BY <1>4, onParamsOK
<1>5. ASSUME NEW fd \in Fd, onStdin(fd) PROVE CgiInv'
  BY <1>5, onStdinOK
<1>6. ASSUME NEW fd \in Fd, NEW r \in Req, onBeginRequest(fd, r) PROVE CgiInv'
  BY <1>6, onBeginRequestOK
<1>7. ASSUME NEW m \in wire, Resp(m) PROVE CgiInv'
  BY <1>7, RespOK
<1>8. CASE CheckFCGIOvertimeReq
  BY <1>8, CheckFCGIOvertimeReqOK
<1>9. CASE CheckFDExpireTime
  BY <1>9, CheckFDExpireTimeOK
<1>10. CASE SendHeartBeatMsg
  BY <1>10, SendHeartBeatMsgOK
<1>11. CASE OnThreadStarted
  BY <1>11, OnThreadStartedOK
<1>12. ASSUME NEW l \in Link, LinkClosed(l) PROVE CgiInv'
  BY <1>12, LinkClosedOK
<1>13. CASE ServerStops \/ ServerStarts
  BY <1>13, ServerStopsOK, ServerStartsOK
<1>14. CASE Tick
  BY <1>14, TickOK
<1>15. QED
  BY <1>1, <1>2, <1>3, <1>4, <1>5, <1>6, <1>7, <1>8, <1>9, <1>10, <1>11, <1>12,
     <1>13, <1>14 DEF CgiNext

\* The inductive invariant: who may hold a descriptor and a second, and what a
\* request may have received before it is complete.
THEOREM GatewayInvariance == CgiSpec => []CgiInv
BY CgiInitOK, CgiNextOK, PTL DEF CgiSpec

\* No step of the gateway forwards a request twice: neither the record after a
\* complete request (A:287-294), which would repeat it, nor what a codec keeps
\* on a connection that is used again.
THEOREM ForwardedAtMostOnce == CgiSpec => []ForwardedOnce
<1>1. CgiInv => ForwardedOnce
  BY DEF CgiInv, Unsent, ForwardedOnce, Steady
<1>2. QED BY <1>1, GatewayInvariance, PTL

\* A request is answered once at most, by an answer or by the timeout, although
\* both find it by a descriptor and a second that others had or will have.
THEOREM AnsweredAtMostOnce == CgiSpec => []AnsweredOnce
<1>1. CgiInv => AnsweredOnce
  <2> SUFFICES ASSUME CgiInv, NEW r \in Steady
      PROVE Cardinality({i \in 1 .. Len(heard[r]) :
                           heard[r][i].of \in Steady \cup {Expired}}) <= 1
    BY DEF AnsweredOnce
  <2> DEFINE A == {i \in 1 .. Len(heard[r]) : heard[r][i].of \in Steady \cup {Expired}}
  <2>1. \A i, j \in A : i = j
    BY DEF CgiInv, AnsweredAlone
  <2> HIDE DEF A
  <2>2. A = {} \/ \E i : A = {i}
    <3>1. ASSUME NEW i \in A PROVE A = {i}
      BY <2>1
    <3>2. QED BY <3>1
  <2>3. Cardinality({}) = 0 /\ \A i : Cardinality({i}) = 1
    BY FS_EmptySet, FS_Singleton
  <2>4. Cardinality(A) = 0 \/ Cardinality(A) = 1
    BY <2>2, <2>3
  <2>5. QED BY <2>4 DEF A
<1>2. QED BY <1>1, GatewayInvariance, PTL

\* A timeout is final: the answer that comes later meets no connection, not even
\* one with the same descriptor, for the second it carries is over.
THEOREM TimeoutsAreFinal == CgiSpec => []TimeoutsFinal
<1>1. CgiInv => TimeoutsFinal
  BY DEF CgiInv
<1>2. QED BY <1>1, GatewayInvariance, PTL

=============================================================================
