--------------------------- MODULE PyClientProofs ---------------------------
(***************************************************************************)
(* What the Python client's three threads do to each other, for every      *)
(* number of sessions and configurations and every size: the four safety   *)
(* properties of PyClient.                                                 *)
(***************************************************************************)
EXTENDS PyClient, FiniteSetTheorems, TLAPS

NetState ==
  [at : {"connect", "report", "select", "clear", "dead"},
   i : Nat, n : Nat, session : Session \cup {"none"}]
WalkState == [at : {"idle", "walk", "dead"}, i : Nat, made : Nat, whole : BOOLEAN]

PyTypeOK ==
  /\ link \in {"none", "up", "down"}
  /\ inbox \in Seq(FromServer) /\ got \in Nat /\ cfgs \in Seq(Cfg)
  /\ net \in NetState
  /\ timer \in {"off", "asleep", "dead"}
  /\ walk \in WalkState
  /\ left \in [Thread -> Nat] /\ wire \in Nat
  /\ short \in BOOLEAN /\ torn \in BOOLEAN

\* What is in read_buf is less than the message it belongs to, and less than
\* any when none is under way.
BufferInv ==
  /\ inbox # << >> => got < SizeOf(Head(inbox))
  /\ inbox = << >> => got < Recv

\* While the send buffer was never too full, every message went out at once.
SendInv == ~short => ~torn /\ \A t \in Thread : left[t] \in {0, OutLen}

\* While nothing was deleted, the entries passed are not the session's.  Once
\* something was, the range is longer than the list, and ends the thread
\* unless the deleted entry was the last of both.
ClearInv ==
  net.at = "clear" =>
    /\ 1 <= net.i /\ net.i <= net.n + 1 /\ Len(cfgs) <= net.n
    /\ Len(cfgs) = net.n => \A k \in 1 .. net.i - 1 : cfgs[k].session # net.session
    /\ Len(cfgs) < net.n /\ net.i > net.n =>
         \A k \in 1 .. Len(cfgs) : cfgs[k].session # net.session

Matches(n) == {k \in 1 .. n : cfgs[k].value = Checkif}

\* One upload for each match passed.
WalkInv ==
  walk.at = "walk" /\ walk.whole =>
    /\ 1 <= walk.i /\ walk.i <= Len(cfgs) + 1
    /\ walk.made = Cardinality(Matches(walk.i - 1))

PyInv == PyTypeOK /\ BufferInv /\ SendInv /\ ClearInv /\ WalkInv

----------------------------------------------------------------------------
(* What the operators return *)

\* Without a message nothing is under way.
LEMMA NothingInNet ==
  ASSUME inbox = << >>
  PROVE  InNet = 0 - got
<1> DEFINE Iter(f) == f = [S \in SUBSET DOMAIN inbox |->
              IF S = {} THEN 0
              ELSE LET x == CHOOSE y \in S : TRUE
                   IN  f[S \ {x}] + SizeOf(inbox[x])]
<1>1. DOMAIN inbox = {}
  OBVIOUS
<1>2. Iter([S \in {{}} |-> 0])
  BY <1>1
<1>3. Iter(CHOOSE f : Iter(f))
  BY <1>2
<1>4. (CHOOSE f : Iter(f))[{}] = 0
  BY <1>1, <1>3
<1>5. InNet = (CHOOSE f : Iter(f))[DOMAIN inbox] - got
  BY DEF InNet, FoldSeq, FoldFunction, FoldFunctionOnSet, MapThenFoldSet
<1>6. QED BY <1>1, <1>4, <1>5

LEMMA Sizes ==
  /\ \A m : SizeOf(m) \in Nat /\ Recv <= SizeOf(m)
  /\ Recv \in Nat \ {0} /\ OutLen \in Nat \ {0} /\ SndBuf \in Nat \ {0}
BY PyClientAssumption DEF SizeOf

\* Something to receive means that a message is under way.
LEMMA SomethingToReceive ==
  ASSUME PyTypeOK, InNet > 0
  PROVE  inbox # << >>
BY NothingInNet DEF PyTypeOK, NetState, WalkState

\* The messages from the server, by their id.
LEMMA FromServerCases ==
  ASSUME NEW m \in FromServer
  PROVE  \/ m.id = "CFG_INFO_REQ" /\ m.cfg \in Cfg
         \/ m.id = "CLEAR_SESSION_REQ" /\ m.session \in Session
         \/ m.id = "HEARTBEAT_MSG"
BY DEF FromServer, CfgInfoReq, ClearSessionReq, HeartBeat

LEMMA WithoutOne ==
  ASSUME NEW S, NEW s \in Seq(S), NEW i \in 1 .. Len(s)
  PROVE  /\ RemoveAt(s, i) \in Seq(S) /\ Len(RemoveAt(s, i)) = Len(s) - 1
         /\ \A k \in 1 .. i - 1 : RemoveAt(s, i)[k] = s[k]
<1> DEFINE a == SubSeq(s, 1, i - 1)
           b == SubSeq(s, i + 1, Len(s))
<1>1. /\ a \in Seq(S) /\ Len(a) = i - 1
      /\ \A k \in 1 .. i - 1 : a[k] = s[k]
  OBVIOUS
<1>2. b \in Seq(S) /\ Len(b) = Len(s) - i
  OBVIOUS
<1>3. RemoveAt(s, i) = a \o b
  BY DEF RemoveAt
<1> HIDE DEF a, b
<1>4. Len(s) \in Nat /\ i \in Nat /\ 1 <= i /\ i <= Len(s)
  OBVIOUS
<1>5. a \o b \in Seq(S) /\ Len(a \o b) = Len(s) - 1
  <2>1. a \o b \in Seq(S) /\ Len(a \o b) = Len(a) + Len(b)
    <3>1. a \in Seq(S) /\ b \in Seq(S)
      BY <1>1, <1>2
    <3>2. QED BY <3>1
  <2>2. QED BY <1>1, <1>2, <1>4, <2>1
<1>6. ASSUME NEW k \in 1 .. i - 1 PROVE (a \o b)[k] = s[k]
  <2>1. k \in 1 .. Len(a) /\ a[k] = s[k]
    BY <1>1
  <2>2. (a \o b)[k] = a[k]
    BY <1>1, <1>2, <2>1
  <2>3. QED BY <2>1, <2>2
<1>7. QED BY <1>3, <1>5, <1>6

----------------------------------------------------------------------------
(* Types *)

LEMMA RaisesTypes ==
  ASSUME PyTypeOK, NEW t \in Thread, Raises(t),
         UNCHANGED <<inbox, got, cfgs, wire, short, torn>>
  PROVE  PyTypeOK'
BY DEF PyTypeOK, NetState, WalkState, Raises, NetAt, Selecting, Resting, Thread

LEMMA MysendTypes ==
  ASSUME PyTypeOK, NEW t \in Thread, Mysend(t)
  PROVE  left' \in [Thread -> Nat]
BY Sizes DEF PyTypeOK, NetState, WalkState, Mysend

\* A message was taken from read_buf.
LEMMA HandleTypes ==
  ASSUME PyTypeOK, NEW m \in FromServer, Handle(m), inbox # << >>
  PROVE  /\ inbox' \in Seq(FromServer) /\ cfgs' \in Seq(Cfg)
         /\ net' \in NetState
         /\ left' \in [Thread -> Nat]
<1>1. inbox' \in Seq(FromServer)
  BY DEF PyTypeOK, NetState, WalkState, Handle
<1>2. CASE m.id = "CFG_INFO_REQ"
  <2>1. m.cfg \in Cfg /\ cfgs' = Append(cfgs, m.cfg) /\ Mysend("net") /\ net' = net
    BY <1>2, FromServerCases DEF Handle
  <2>2. left' \in [Thread -> Nat]
    BY <2>1, MysendTypes DEF Thread
  <2>3. QED BY <1>1, <2>1, <2>2 DEF PyTypeOK, NetState, WalkState
<1>3. CASE m.id = "CLEAR_SESSION_REQ"
  BY <1>1, <1>3, FromServerCases DEF PyTypeOK, NetState, WalkState, Handle
<1>4. CASE m.id = "HEARTBEAT_MSG"
  BY <1>1, <1>4 DEF PyTypeOK, NetState, WalkState, Handle
<1>5. QED BY <1>2, <1>3, <1>4, FromServerCases

LEMMA TypesStep == PyTypeOK /\ ClearInv /\ [PyNext]_vars => PyTypeOK'
<1> SUFFICES ASSUME PyTypeOK, ClearInv, [PyNext]_vars PROVE PyTypeOK'
  OBVIOUS
<1>1. ASSUME NEW t \in Thread, Send(t) PROVE PyTypeOK'
  <2>1. left[t] \in Nat /\ wire \in Nat /\ SndBuf \in Nat /\ wire < SndBuf
    BY <1>1, Sizes DEF PyTypeOK, NetState, WalkState, Send
  <2>2. \E n \in Nat : n <= left[t] /\ Goes(t, n)
    BY <1>1, <2>1 DEF Send
  <2>3. short' \in BOOLEAN
    BY <1>1 DEF Send, PyTypeOK, NetState, WalkState
  <2>4. QED BY <2>1, <2>2, <2>3 DEF PyTypeOK, NetState, WalkState, Goes
<1>2. ASSUME NEW t \in Thread, SendRaises(t) PROVE PyTypeOK'
  BY <1>2, RaisesTypes DEF SendRaises
<1>3. CASE Connect
  <2>1. left' \in [Thread -> Nat]
    BY <1>3, MysendTypes DEF Connect, Thread, PyTypeOK, NetState, WalkState
  <2>2. net' \in NetState /\ link' \in {"up", "down"}
    BY <1>3 DEF Connect, NetAt, Selecting, NetState
  <2>3. QED BY <1>3, <2>1, <2>2 DEF PyTypeOK, Connect
<1>4. CASE StartTimer
  BY <1>4 DEF PyTypeOK, NetState, WalkState, StartTimer, Selecting
<1>5. CASE Myreceive
  <2>1. inbox # << >>
    BY <1>5, SomethingToReceive DEF Myreceive
  <2>2. Head(inbox) \in FromServer
    BY <2>1 DEF PyTypeOK, NetState, WalkState
  <2>3. PICK n \in 1 .. Recv :
          IF got + n < SizeOf(Head(inbox))
            THEN got' = got + n /\ UNCHANGED <<inbox, cfgs, net, left>>
            ELSE got' = got + n - SizeOf(Head(inbox)) /\ Handle(Head(inbox))
    BY <1>5 DEF Myreceive
  <2>4. got' \in Nat
    <3>1. got \in Nat /\ Recv \in Nat /\ n \in Nat /\ SizeOf(Head(inbox)) \in Nat
      BY Sizes DEF PyTypeOK
    <3> DEFINE size == SizeOf(Head(inbox))
    <3>2. \/ got' = got + n
          \/ got + n >= size /\ got' = got + n - size
      BY <2>3, <3>1
    <3> HIDE DEF size
    <3>3. QED BY <3>1, <3>2 DEF size
  <2>5. /\ inbox' \in Seq(FromServer) /\ cfgs' \in Seq(Cfg)
        /\ net' \in NetState /\ left' \in [Thread -> Nat]
    <3>1. CASE Handle(Head(inbox))
      BY <2>1, <2>2, <3>1, HandleTypes
    <3>2. CASE UNCHANGED <<inbox, cfgs, net, left>>
      BY <3>2 DEF PyTypeOK
    <3>3. QED BY <2>3, <3>1, <3>2
  <2>6. QED BY <1>5, <2>4, <2>5 DEF PyTypeOK, Myreceive
<1>6. CASE ReceiveRaises
  BY <1>6, RaisesTypes DEF ReceiveRaises, Thread
<1>7. CASE ClearOne
  <2>1. cfgs \in Seq(Cfg) /\ net.i \in 1 .. Len(cfgs)
    BY <1>7 DEF ClearOne, ClearInv, PyTypeOK, NetState, WalkState
  <2>2. RemoveAt(cfgs, net.i) \in Seq(Cfg)
    BY <2>1, WithoutOne
  <2>3. cfgs' \in Seq(Cfg)
    BY <1>7, <2>1, <2>2 DEF ClearOne
  <2>4. walk' \in WalkState
    <3> DEFINE kept == walk.whole /\ ~(cfgs[net.i].session = net.session)
    <3>1. kept \in BOOLEAN
      OBVIOUS
    <3>2. walk' = [walk EXCEPT !.whole = kept]
      BY <1>7 DEF ClearOne
    <3> HIDE DEF kept
    <3>3. QED BY <3>1, <3>2 DEF PyTypeOK, NetState, WalkState
  <2>5. net' \in NetState
    <3>1. net' = [net EXCEPT !.i = @ + 1]
      BY <1>7 DEF ClearOne
    <3>2. net \in NetState /\ net.i + 1 \in Nat
      BY DEF PyTypeOK, NetState
    <3>3. QED BY <3>1, <3>2 DEF NetState
  <2>6. QED BY <1>7, <2>3, <2>4, <2>5 DEF ClearOne, PyTypeOK, NetState, WalkState
<1>8. CASE ClearRaises
  BY <1>8, RaisesTypes DEF ClearRaises, Thread
<1>9. CASE ClearDone
  BY <1>9 DEF PyTypeOK, NetState, WalkState, ClearDone, Selecting
<1>10. CASE SendHeart
  BY <1>10, MysendTypes DEF PyTypeOK, NetState, WalkState, SendHeart, Thread
<1>11. CASE TlogIf
  BY <1>11 DEF PyTypeOK, NetState, WalkState, TlogIf, Resting
<1>12. CASE WalkOne
  <2>1. left' \in [Thread -> Nat]
    BY <1>12, MysendTypes DEF WalkOne, Thread, PyTypeOK, NetState, WalkState
  <2>2. PICK made \in Nat : walk' = [walk EXCEPT !.i = @ + 1, !.made = made]
    <3>1. walk.made \in Nat /\ walk.made + 1 \in Nat
      BY DEF PyTypeOK, NetState, WalkState
    <3>2. CASE cfgs[walk.i].value = Checkif
      BY <1>12, <3>1, <3>2 DEF WalkOne
    <3>3. CASE cfgs[walk.i].value # Checkif
      BY <1>12, <3>1, <3>3 DEF WalkOne
    <3>4. QED BY <3>2, <3>3
  <2>3. walk' \in WalkState
    <3>1. /\ walk \in WalkState
          /\ walk.i + 1 \in Nat
      BY DEF PyTypeOK, NetState, WalkState
    <3>2. QED BY <2>2, <3>1 DEF WalkState
  <2>4. QED BY <1>12, <2>1, <2>3 DEF PyTypeOK, NetState, WalkState, WalkOne
<1>13. CASE WalkDone
  BY <1>13 DEF PyTypeOK, NetState, WalkState, WalkDone, Resting
<1>14. ASSUME NEW m \in FromServer, ServerSends(m) PROVE PyTypeOK'
  BY <1>14 DEF PyTypeOK, NetState, WalkState, ServerSends
<1>15. CASE ServerReads
  BY <1>15 DEF PyTypeOK, NetState, WalkState, ServerReads
<1>16. CASE Close
  BY <1>16 DEF PyTypeOK, NetState, WalkState, Close
<1>17. CASE UNCHANGED vars
  BY <1>17 DEF PyTypeOK, NetState, WalkState, vars
<1>18. QED
  BY <1>1, <1>2, <1>3, <1>4, <1>5, <1>6, <1>7, <1>8, <1>9, <1>10, <1>11, <1>12,
     <1>13, <1>14, <1>15, <1>16, <1>17 DEF PyNext

----------------------------------------------------------------------------
(* The read buffer *)

LEMMA BufferStep == PyTypeOK /\ BufferInv /\ [PyNext]_vars => BufferInv'
<1> SUFFICES ASSUME PyTypeOK, BufferInv, [PyNext]_vars PROVE BufferInv'
  OBVIOUS
<1>1. CASE UNCHANGED <<inbox, got>>
  BY <1>1 DEF BufferInv
<1>2. CASE Myreceive
  <2> DEFINE size == SizeOf(Head(inbox))
  <2>1. inbox # << >> /\ got \in Nat /\ got < size
    BY <1>2, SomethingToReceive DEF Myreceive, BufferInv, PyTypeOK
  <2>2. PICK n \in 1 .. Recv :
          IF got + n < size
            THEN got' = got + n /\ UNCHANGED <<inbox, cfgs, net, left>>
            ELSE got' = got + n - size /\ Handle(Head(inbox))
    BY <1>2 DEF Myreceive
  <2>3. size \in Nat
    BY Sizes
  <2> HIDE DEF size
  <2>4. CASE got + n < size
    BY <2>1, <2>2, <2>4 DEF BufferInv, size
  <2>5. CASE ~(got + n < size)
    <3>1. got' = got + n - size
      BY <2>2, <2>5
    <3>2. got' < Recv
      BY <2>1, <2>3, <3>1, Sizes
    <3>3. got' \in Nat
      BY <2>1, <2>3, <2>5, <3>1
    <3>4. got' < SizeOf(Head(inbox'))
      BY <3>2, <3>3, Sizes
    <3>5. QED BY <3>2, <3>4 DEF BufferInv
  <2>6. QED BY <2>4, <2>5
<1>3. ASSUME NEW m \in FromServer, ServerSends(m) PROVE BufferInv'
  <2>1. got' = got /\ inbox' = Append(inbox, m) /\ got \in Nat /\ inbox \in Seq(FromServer)
    BY <1>3 DEF ServerSends, PyTypeOK
  <2>2. CASE inbox = << >>
    <3>1. got < SizeOf(Head(inbox'))
      BY <2>1, <2>2, Sizes DEF BufferInv
    <3>2. QED BY <2>1, <3>1 DEF BufferInv
  <2>3. CASE inbox # << >>
    BY <2>1, <2>3 DEF BufferInv
  <2>4. QED BY <2>2, <2>3
<1>4. CASE Close
  BY <1>4, Sizes DEF Close, BufferInv
<1>5. QED
  <2>1. [PyNext]_vars => \/ UNCHANGED <<inbox, got>> \/ Myreceive \/ Close
                        \/ \E m \in FromServer : ServerSends(m)
    BY DEF PyNext, vars, Send, Goes, SendRaises, Connect, StartTimer, ReceiveRaises,
       ClearOne, ClearRaises, ClearDone, SendHeart, TlogIf, WalkOne, WalkDone, ServerReads
  <2>2. QED BY <1>1, <1>2, <1>3, <1>4, <2>1

----------------------------------------------------------------------------
(* The socket *)

\* What a step does to what the threads have still to send: one begins a
\* message, or an exception ends one or all.
LEMMA LeftStep ==
  ASSUME PyTypeOK, [PyNext]_vars
  PROVE  \/ \E t \in Thread : Send(t)
         \/ /\ UNCHANGED <<short, torn>>
            /\ \A t \in Thread : left'[t] \in {left[t], 0, OutLen}
<1> DEFINE Begins == /\ UNCHANGED <<short, torn>>
                     /\ \A t \in Thread : left'[t] \in {left[t], 0, OutLen}
<1>1. ASSUME NEW t \in Thread, Raises(t), UNCHANGED <<short, torn>> PROVE Begins
  BY <1>1 DEF Raises
<1>2. ASSUME NEW t \in Thread, Mysend(t), UNCHANGED <<short, torn>> PROVE Begins
  BY <1>2 DEF Mysend, PyTypeOK
<1>3. ASSUME UNCHANGED <<left, short, torn>> PROVE Begins
  BY <1>3
<1>4. CASE Myreceive
  <2>1. UNCHANGED left \/ Mysend("net")
    BY <1>4 DEF Myreceive, Handle
  <2>2. QED BY <1>2, <1>3, <1>4, <2>1 DEF Myreceive, Thread
<1>5. CASE WalkOne
  <2>1. UNCHANGED left \/ Mysend("main")
    BY <1>5 DEF WalkOne
  <2>2. QED BY <1>2, <1>3, <1>5, <2>1 DEF WalkOne, Thread
<1>6. CASE \/ \E t \in Thread : SendRaises(t)
           \/ ReceiveRaises \/ ClearRaises
  BY <1>1, <1>6 DEF SendRaises, ReceiveRaises, ClearRaises, Thread
<1>7. CASE Connect \/ SendHeart
  BY <1>2, <1>3, <1>7 DEF Connect, SendHeart, Thread
<1>8. CASE StartTimer \/ ClearOne \/ ClearDone \/ TlogIf \/ WalkDone
  BY <1>3, <1>8 DEF StartTimer, ClearOne, ClearDone, TlogIf, WalkDone
<1>9. CASE \/ \E m \in FromServer : ServerSends(m)
           \/ ServerReads \/ Close \/ UNCHANGED vars
  BY <1>3, <1>9 DEF ServerSends, ServerReads, Close, vars
<1>10. QED BY <1>4, <1>5, <1>6, <1>7, <1>8, <1>9 DEF PyNext

LEMMA SendStep == PyTypeOK /\ SendInv /\ [PyNext]_vars => SendInv'
<1> SUFFICES ASSUME PyTypeOK, SendInv, [PyNext]_vars, ~short' PROVE ~torn' /\ \A u \in Thread : left'[u] \in {0, OutLen}
  BY DEF SendInv
<1>1. ASSUME NEW t \in Thread, Send(t)
      PROVE  ~torn' /\ \A u \in Thread : left'[u] \in {0, OutLen}
  <2> DEFINE room == SndBuf - wire
  <2>1. left \in [Thread -> Nat] /\ room \in Nat
    BY <1>1, Sizes DEF PyTypeOK, Send
  <2>2. ~short /\ ~(room < left[t])
    BY <1>1 DEF Send
  <2>3. ~torn /\ \A u \in Thread : left[u] \in {0, OutLen}
    BY <2>2 DEF SendInv
  <2>4. Goes(t, left[t])
    BY <1>1, <2>2 DEF Send
  <2>5. \A u \in Thread : ~MidMessage(u)
    BY <2>3, Sizes DEF MidMessage
  <2>6. ~torn'
    BY <2>3, <2>4, <2>5 DEF Goes
  <2>7. left' = [left EXCEPT ![t] = 0]
    <3>1. left[t] - left[t] = 0
      BY <2>1
    <3>2. left' = [left EXCEPT ![t] = left[t] - left[t]]
      BY <2>1, <2>4 DEF Goes
    <3>3. QED BY <3>1, <3>2
  <2>8. QED BY <2>1, <2>3, <2>6, <2>7
<1>2. ASSUME UNCHANGED <<short, torn>>, \A t \in Thread : left'[t] \in {left[t], 0, OutLen}
      PROVE  ~torn' /\ \A u \in Thread : left'[u] \in {0, OutLen}
  BY <1>2 DEF SendInv
<1>3. QED BY <1>1, <1>2, LeftStep

----------------------------------------------------------------------------
(* handle_clear_session *)

LEMMA ClearOneKeeps == PyTypeOK /\ ClearInv /\ ClearOne => ClearInv'
<1> SUFFICES ASSUME PyTypeOK, ClearInv, ClearOne PROVE ClearInv'
  OBVIOUS
<1> DEFINE i == net.i
           n == net.n
           s == net.session
           len == Len(cfgs)
<1>1. /\ cfgs \in Seq(Cfg) /\ len \in Nat /\ i \in Nat /\ n \in Nat
      /\ 1 <= i /\ i <= n /\ i <= len /\ len <= n
      /\ len = n => \A k \in 1 .. i - 1 : cfgs[k].session # s
  BY DEF ClearOne, ClearInv, PyTypeOK, NetState
<1>2. net'.at = "clear" /\ net'.i = i + 1 /\ net'.n = n /\ net'.session = s
  BY DEF ClearOne, PyTypeOK, NetState
<1>3. CASE cfgs[i].session = s
  <2>1. cfgs' = RemoveAt(cfgs, i)
    BY <1>3 DEF ClearOne
  <2>2. i \in 1 .. Len(cfgs)
    BY <1>1
  <2>3. Len(cfgs') = len - 1 /\ \A k \in 1 .. i - 1 : cfgs'[k] = cfgs[k]
    BY <1>1, <2>1, <2>2, WithoutOne
  <2> HIDE DEF i, n, s, len
  <2>4. Len(cfgs') < n
    BY <1>1, <2>3
  <2>5. i + 1 > n => \A k \in 1 .. Len(cfgs') : cfgs'[k].session # s
    <3> SUFFICES ASSUME i + 1 > n PROVE \A k \in 1 .. Len(cfgs') : cfgs'[k].session # s
      OBVIOUS
    <3>1. i = n /\ len = n
      BY <1>1
    <3>2. Len(cfgs') = i - 1
      BY <2>3, <3>1
    <3>3. QED BY <1>1, <2>3, <3>1, <3>2
  <2>6. 1 <= i + 1 /\ i + 1 <= n + 1 /\ Len(cfgs') <= n /\ Len(cfgs') # n
    BY <1>1, <2>3
  <2>7. QED BY <1>2, <2>5, <2>6 DEF ClearInv
<1>4. CASE cfgs[i].session # s
  <2>1. cfgs' = cfgs
    BY <1>4 DEF ClearOne
  <2> HIDE DEF i, n, s
  <2>2. len = n => \A k \in 1 .. (i + 1) - 1 : cfgs[k].session # s
    BY <1>1, <1>4
  <2>3. ~(len < n /\ i + 1 > n)
    BY <1>1
  <2>4. 1 <= i + 1 /\ i + 1 <= n + 1
    BY <1>1
  <2>5. QED BY <1>1, <1>2, <2>1, <2>2, <2>3, <2>4 DEF ClearInv
<1>5. QED BY <1>3, <1>4

LEMMA ClearStep == PyTypeOK /\ ClearInv /\ [PyNext]_vars => ClearInv'
<1> SUFFICES ASSUME PyTypeOK, ClearInv, [PyNext]_vars PROVE ClearInv'
  OBVIOUS
<1>1. CASE ClearOne
  BY <1>1, ClearOneKeeps
<1>2. CASE UNCHANGED <<cfgs, net>>
  BY <1>2 DEF ClearInv
<1>3. CASE net'.at # "clear"
  BY <1>3 DEF ClearInv
<1>4. CASE Myreceive
  <2> SUFFICES ASSUME Handle(Head(inbox)) PROVE ClearInv'
    BY <1>2, <1>4 DEF Myreceive
  <2> DEFINE m == Head(inbox)
  <2>1. m \in FromServer
    BY <1>4, SomethingToReceive DEF Myreceive, PyTypeOK
  <2>2. net.at = "select"
    BY <1>4 DEF Myreceive, NetReady
  <2>3. CASE m.id = "CLEAR_SESSION_REQ"
    <3>1. cfgs' = cfgs /\ Len(cfgs) \in Nat
          /\ net' = [at |-> "clear", i |-> 1, n |-> Len(cfgs), session |-> m.session]
      BY <2>3 DEF Handle, PyTypeOK
    <3>2. QED BY <3>1 DEF ClearInv
  <2>4. CASE m.id # "CLEAR_SESSION_REQ"
    <3>1. net' = net
      BY <2>4 DEF Handle
    <3>2. QED BY <1>3, <2>2, <3>1
  <2>5. QED BY <2>3, <2>4
<1>5. \/ ClearOne \/ UNCHANGED <<cfgs, net>> \/ net'.at # "clear" \/ Myreceive
  <2>1. ASSUME NEW t \in Thread, SendRaises(t)
        PROVE  UNCHANGED <<cfgs, net>> \/ net'.at # "clear"
    BY <2>1 DEF SendRaises, Raises, NetAt, Selecting
  <2>2. CASE ReceiveRaises \/ ClearRaises \/ Connect \/ StartTimer \/ ClearDone
    BY <2>2 DEF ReceiveRaises, ClearRaises, Raises, Connect, StartTimer, ClearDone,
       NetAt, Selecting
  <2>3. QED
    BY <2>1, <2>2 DEF PyNext, vars, Send, Goes, SendHeart, TlogIf, WalkOne, WalkDone,
       ServerSends, ServerReads, Close
<1>6. QED BY <1>1, <1>2, <1>3, <1>4, <1>5

----------------------------------------------------------------------------
(* tlog_if *)

LEMMA WalkStep == PyTypeOK /\ ClearInv /\ WalkInv /\ [PyNext]_vars => WalkInv'
<1> SUFFICES ASSUME PyTypeOK, ClearInv, WalkInv, [PyNext]_vars PROVE WalkInv'
  OBVIOUS
<1>1. CASE UNCHANGED <<cfgs, walk>>
  BY <1>1 DEF WalkInv, Matches
<1>2. CASE walk'.at # "walk" \/ ~walk'.whole
  BY <1>2 DEF WalkInv
<1>3. ASSUME NEW c \in Cfg, cfgs' = Append(cfgs, c), walk' = walk
      PROVE  WalkInv'
  <2> SUFFICES ASSUME walk.at = "walk", walk.whole
               PROVE  /\ 1 <= walk.i /\ walk.i <= Len(cfgs') + 1
                      /\ walk.made = Cardinality(Matches(walk.i - 1)')
    BY <1>3 DEF WalkInv
  <2>1. /\ cfgs \in Seq(Cfg) /\ Len(cfgs) \in Nat /\ walk.i \in Nat
        /\ 1 <= walk.i /\ walk.i <= Len(cfgs) + 1
        /\ walk.made = Cardinality(Matches(walk.i - 1))
    BY DEF WalkInv, PyTypeOK, WalkState
  <2>2. \A k \in 1 .. walk.i - 1 : cfgs'[k] = cfgs[k]
    BY <1>3, <2>1
  <2>3. Matches(walk.i - 1)' = Matches(walk.i - 1)
    BY <1>3, <2>2 DEF Matches
  <2>4. Len(cfgs') = Len(cfgs) + 1
    BY <1>3, <2>1
  <2>5. QED BY <2>1, <2>3, <2>4
<1>4. CASE TlogIf
  <2>1. /\ walk'.i = 1 /\ walk'.made = 0 /\ cfgs' = cfgs /\ Len(cfgs) \in Nat
    BY <1>4 DEF TlogIf, Resting, PyTypeOK
  <2>2. Matches(walk.i - 1)' = {}
    BY <2>1 DEF Matches
  <2>3. Cardinality(Matches(walk.i - 1)') = 0
    BY <2>2, FS_EmptySet
  <2>4. 1 <= walk'.i /\ walk'.i <= Len(cfgs') + 1
    BY <2>1
  <2>5. QED BY <2>1, <2>3, <2>4 DEF WalkInv
<1>5. CASE WalkOne
  <2> SUFFICES ASSUME walk.at = "walk", walk.whole
               PROVE  /\ 1 <= walk'.i /\ walk'.i <= Len(cfgs) + 1
                      /\ walk'.made = Cardinality(Matches(walk'.i - 1))
    BY <1>5 DEF WalkOne, PyTypeOK, WalkState, WalkInv, Matches
  <2> DEFINE i == walk.i
             traced == cfgs[i].value = Checkif
  <2>1. /\ Len(cfgs) \in Nat /\ i \in Nat /\ 1 <= i /\ i <= Len(cfgs)
        /\ walk.made \in Nat /\ walk.made = Cardinality(Matches(i - 1))
    BY <1>5 DEF WalkInv, WalkOne, PyTypeOK, WalkState
  <2>2. walk'.i = i + 1 /\ walk'.made = IF traced THEN walk.made + 1 ELSE walk.made
    BY <1>5 DEF WalkOne, PyTypeOK, WalkState
  <2>3. Matches(i) = IF traced THEN Matches(i - 1) \cup {i} ELSE Matches(i - 1)
    BY <2>1 DEF Matches
  <2>4. i \notin Matches(i - 1) /\ IsFiniteSet(Matches(i - 1))
    <3>1. IsFiniteSet(1 .. i - 1)
      <4>1. 1 \in Int /\ i - 1 \in Int
        BY <2>1
      <4> HIDE DEF i
      <4>2. QED BY <4>1, FS_Interval
    <3>2. Matches(i - 1) \in SUBSET (1 .. i - 1)
      BY DEF Matches
    <3>3. QED BY <2>1, <3>1, <3>2, FS_Subset
  <2> HIDE DEF i, traced
  <2>5. walk'.made = Cardinality(Matches(i))
    <3>1. CASE traced
      <4>1. Cardinality(Matches(i - 1) \cup {i}) = Cardinality(Matches(i - 1)) + 1
        BY <2>4, FS_AddElement
      <4>2. QED BY <2>1, <2>2, <2>3, <3>1, <4>1
    <3>2. CASE ~traced
      BY <2>1, <2>2, <2>3, <3>2
    <3>3. QED BY <3>1, <3>2
  <2>6. walk'.i - 1 = i /\ 1 <= walk'.i /\ walk'.i <= Len(cfgs) + 1
    BY <2>1, <2>2
  <2>7. QED BY <2>5, <2>6
<1>6. CASE ClearOne
  <2>1. CASE cfgs[net.i].session = net.session
    BY <1>2, <1>6, <2>1 DEF ClearOne, PyTypeOK, WalkState
  <2>2. CASE cfgs[net.i].session # net.session
    <3>1. cfgs' = cfgs /\ walk' = walk
      BY <1>6, <2>2 DEF ClearOne, PyTypeOK, WalkState
    <3>2. QED BY <1>1, <3>1
  <2>3. QED BY <2>1, <2>2
<1>7. CASE Myreceive
  <2> DEFINE m == Head(inbox)
  <2>1. walk' = walk
    BY <1>7 DEF Myreceive
  <2>2. m \in FromServer
    BY <1>7, SomethingToReceive DEF Myreceive, PyTypeOK
  <2>3. cfgs' = cfgs \/ (cfgs' = Append(cfgs, m.cfg) /\ m.cfg \in Cfg)
    BY <1>7, <2>2, FromServerCases DEF Myreceive, Handle
  <2>4. QED BY <1>1, <1>3, <2>1, <2>3
<1>8. \/ UNCHANGED <<cfgs, walk>> \/ walk'.at # "walk"
      \/ TlogIf \/ WalkOne \/ ClearOne \/ Myreceive
  <2>1. ASSUME NEW t \in Thread, SendRaises(t)
        PROVE  UNCHANGED <<cfgs, walk>> \/ walk'.at # "walk"
    BY <2>1 DEF SendRaises, Raises, Resting
  <2>2. CASE ReceiveRaises \/ ClearRaises \/ WalkDone
    BY <2>2 DEF ReceiveRaises, ClearRaises, Raises, WalkDone, Resting
  <2>3. QED
    BY <2>1, <2>2 DEF PyNext, vars, Send, Goes, Connect, StartTimer, ClearDone,
       SendHeart, ServerSends, ServerReads, Close
<1>9. QED BY <1>1, <1>2, <1>4, <1>5, <1>6, <1>7, <1>8

----------------------------------------------------------------------------

LEMMA PyInvHolds == PySpec => []PyInv
<1>1. PyInit => PyInv
  <2> SUFFICES ASSUME PyInit PROVE PyInv
    OBVIOUS
  <2>1. PyTypeOK
    <3>1. NetAt("connect") \in NetState /\ Resting \in WalkState
      BY DEF NetState, WalkState, NetAt, Selecting, Resting
    <3>2. << >> \in Seq(FromServer) /\ << >> \in Seq(Cfg)
      OBVIOUS
    <3>3. QED BY <3>1, <3>2 DEF PyInit, PyTypeOK
  <2>2. BufferInv /\ SendInv
    BY Sizes DEF PyInit, BufferInv, SendInv
  <2>3. ClearInv /\ WalkInv
    BY DEF PyInit, ClearInv, WalkInv, NetAt, Selecting, Resting
  <2>4. QED BY <2>1, <2>2, <2>3 DEF PyInv
<1>2. PyInv /\ [PyNext]_vars => PyInv'
  BY TypesStep, BufferStep, SendStep, ClearStep, WalkStep DEF PyInv
<1>3. QED BY <1>1, <1>2, PTL DEF PySpec

\* No complete message is ever left in read_buf while the network thread
\* waits in select, whatever the sizes: a recv is no longer than any message.
THEOREM NothingWaitsHolds == PySpec => []NothingWaits
<1>1. PyInv => NothingWaits
  BY DEF PyInv, BufferInv, NothingWaits
<1>2. QED BY <1>1, PyInvHolds, PTL

\* Three threads write to one socket without a lock, and yet a message is only
\* torn apart after a send that found less room than it needed.
THEOREM TornOnlyWhenFullHolds == PySpec => []TornOnlyWhenFull
<1>1. PyInv => TornOnlyWhenFull
  BY DEF PyInv, SendInv, TornOnlyWhenFull
<1>2. QED BY <1>1, PyInvHolds, PTL

\* handle_clear_session, which deletes from the list it counts through, either
\* leaves no entry of the session or ends the network thread.
THEOREM ClearedOrDeadHolds == PySpec => ClearedOrDead
<1> DEFINE Cleared == net.at = "clear" /\ net'.at = "select"
                        => \A k \in DOMAIN cfgs' : cfgs'[k].session # net.session
<1>1. PyInv /\ [PyNext]_vars => [Cleared]_vars
  <2> SUFFICES ASSUME PyInv, [PyNext]_vars, net.at = "clear", net'.at = "select"
               PROVE  \A k \in DOMAIN cfgs' : cfgs'[k].session # net.session
    OBVIOUS
  <2>1. CASE ClearDone
    <3>1. /\ cfgs' = cfgs /\ net.i > net.n /\ Len(cfgs) \in Nat /\ cfgs \in Seq(Cfg)
          /\ net.i \in Nat /\ net.n \in Nat /\ net.i <= net.n + 1 /\ Len(cfgs) <= net.n
      BY <2>1 DEF ClearDone, PyInv, PyTypeOK, NetState, ClearInv
    <3>2. net.i - 1 = net.n
      BY <3>1
    <3>3. \A k \in 1 .. Len(cfgs) : cfgs[k].session # net.session
      BY <3>1, <3>2 DEF PyInv, ClearInv
    <3>4. QED BY <3>1, <3>3
  <2>2. ASSUME NEW t \in Thread, SendRaises(t) PROVE FALSE
    BY <2>2 DEF SendRaises, Raises, NetAt, Selecting
  <2>3. CASE ReceiveRaises \/ ClearRaises \/ Connect \/ StartTimer \/ Myreceive
    BY <2>3 DEF ReceiveRaises, ClearRaises, Raises, Connect, StartTimer, Myreceive,
       NetReady, NetAt, Selecting
  <2>4. CASE ClearOne
    BY <2>4 DEF ClearOne, PyInv, PyTypeOK, NetState
  <2>5. CASE net' = net
    BY <2>5
  <2>6. QED
    BY <2>1, <2>2, <2>3, <2>4, <2>5 DEF PyNext, vars, Send, Goes, SendHeart, TlogIf,
       WalkOne, WalkDone, ServerSends, ServerReads, Close
<1>2. QED BY <1>1, PyInvHolds, PTL DEF PySpec, ClearedOrDead

\* tlog_if, which walks a list that another thread changes: a walk during which
\* nothing was deleted makes one upload per matching entry of the list as it is
\* in the end.
THEOREM EachMatchOnceHolds == PySpec => EachMatchOnce
<1> DEFINE Made == walk.at = "walk" /\ walk'.at = "idle" /\ walk.whole
       => walk.made = Cardinality({k \in DOMAIN cfgs : cfgs[k].value = Checkif})
<1>1. PyInv /\ [PyNext]_vars => [Made]_vars
  <2> SUFFICES ASSUME PyInv, [PyNext]_vars, walk.at = "walk", walk'.at = "idle", walk.whole
      PROVE walk.made = Cardinality({k \in DOMAIN cfgs : cfgs[k].value = Checkif})
    OBVIOUS
  <2>1. CASE WalkDone
    <3>1. /\ walk.i > Len(cfgs) /\ walk.i <= Len(cfgs) + 1 /\ walk.i \in Nat
          /\ Len(cfgs) \in Nat /\ DOMAIN cfgs = 1 .. Len(cfgs)
          /\ walk.made = Cardinality(Matches(walk.i - 1))
      BY <2>1 DEF WalkDone, PyInv, PyTypeOK, WalkState, WalkInv
    <3>2. walk.i - 1 = Len(cfgs)
      BY <3>1
    <3>3. QED BY <3>1, <3>2 DEF Matches
  <2>2. ASSUME NEW t \in Thread, SendRaises(t) PROVE FALSE
    BY <2>2 DEF SendRaises, Raises, Resting
  <2>3. CASE ReceiveRaises \/ ClearRaises \/ TlogIf
    BY <2>3 DEF ReceiveRaises, ClearRaises, Raises, TlogIf, Resting
  <2>4. CASE ClearOne \/ WalkOne
    BY <2>4 DEF ClearOne, WalkOne, PyInv, PyTypeOK, WalkState
  <2>5. CASE walk' = walk
    BY <2>5
  <2>6. QED
    BY <2>1, <2>2, <2>3, <2>4, <2>5 DEF PyNext, vars, Send, Goes, SendHeart, Connect,
       StartTimer, Myreceive, ClearDone, ServerSends, ServerReads, Close
<1>2. QED BY <1>1, PyInvHolds, PTL DEF PySpec, EachMatchOnce
=============================================================================
