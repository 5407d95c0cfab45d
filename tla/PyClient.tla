------------------------------ MODULE PyClient ------------------------------
(***************************************************************************)
(* A Python trace client (trace_client/python/TraceClientThread.py and its *)
(* example subclass mytrace.py): the network thread, the heartbeat timer's *)
(* thread and the application's main thread, which share the list of       *)
(* configurations and one non-blocking socket, without a lock.  An         *)
(* exception ends the thread it is raised in; in the main thread it ends   *)
(* the process, for the other two are daemons.  Nobody reconnects.         *)
(*                                                                         *)
(* Sizes are scaled, and are of the order the code has: recv takes less    *)
(* than two messages.                                                      *)
(***************************************************************************)
EXTENDS Naturals, Sequences, FiniteSets, SequencesExt

CONSTANTS Session,
          Value,    \* what is traced by, in p2 or p3
          Cfg,      \* configurations the browsers set
          Checkif,  \* the value the application logs with
          Recv,     \* bytes a recv takes: 10
          CfgLen, ClearLen, BeatLen,  \* sizes of the server's messages
          OutLen,   \* size of a message to the server
          SndBuf,   \* room of the socket's send buffer
          MaxIn,    \* bound: messages of the server under way
          MaxCfgs   \* bound: no more configurations with so many listed

ASSUME PyClientAssumption ==
  /\ Cfg \subseteq [session : Session, value : Value] /\ Checkif \in Value
  /\ Recv \in Nat \ {0} /\ {CfgLen, ClearLen, BeatLen} \subseteq Nat
  /\ Recv <= CfgLen /\ Recv <= ClearLen /\ Recv <= BeatLen
  /\ OutLen \in Nat \ {0} /\ SndBuf \in Nat \ {0}
  /\ MaxIn \in Nat /\ MaxCfgs \in Nat

VARIABLES link,   \* "none", "up", or "down" for good
          inbox,  \* messages of the server, the first partly in read_buf
          got,    \* bytes of them in read_buf
          cfgs,   \* self.cfgs
          net,    \* the network thread: where it is; in
                  \* handle_clear_session, i, the range's end and the session
          timer,  \* the timer's thread
          walk,   \* the main thread: where it is; in tlog_if, the index, and
                  \* history: uploads made, nothing deleted since
          left,   \* per thread, bytes its mysend has still to send
          wire,   \* bytes in the send buffer
          short,  \* history: a send found less room than it had bytes
          torn    \* history: a message was sent inside another

vars == <<link, inbox, got, cfgs, net, timer, walk, left, wire, short, torn>>

Thread == {"net", "timer", "main"}

CfgInfoReq(c) == [id |-> "CFG_INFO_REQ", cfg |-> c]
ClearSessionReq(s) == [id |-> "CLEAR_SESSION_REQ", session |-> s]
HeartBeat == [id |-> "HEARTBEAT_MSG"]

FromServer ==
  {CfgInfoReq(c) : c \in Cfg} \cup {ClearSessionReq(s) : s \in Session} \cup {HeartBeat}

SizeOf(m) ==
  CASE m.id = "CFG_INFO_REQ" -> CfgLen
    [] m.id = "CLEAR_SESSION_REQ" -> ClearLen
    [] OTHER -> BeatLen

InNet == FoldSeq(LAMBDA m, n : n + SizeOf(m), 0, inbox) - got

Selecting == [at |-> "select", i |-> 0, n |-> 0, session |-> "none"]
NetAt(p) == [Selecting EXCEPT !.at = p]

Resting == [at |-> "idle", i |-> 0, made |-> 0, whole |-> TRUE]

NetReady == net.at = "select" /\ left["net"] = 0

----------------------------------------------------------------------------
(* mysend, in any thread *)

Mysend(t) == left' = [left EXCEPT ![t] = OutLen]

MidMessage(t) == left[t] > 0 /\ left[t] < OutLen

\* An exception in thread t.
Raises(t) ==
  /\ left' = [u \in Thread |-> IF u = t \/ t = "main" THEN 0 ELSE left[u]]
  /\ net' = IF t \in {"net", "main"} THEN NetAt("dead") ELSE net
  /\ timer' = IF t \in {"timer", "main"} THEN "dead" ELSE timer
  /\ walk' = IF t = "main" THEN [Resting EXCEPT !.at = "dead"] ELSE walk
  /\ link' = IF t = "main" THEN "down" ELSE link

\* n bytes of thread t's message go out.
Goes(t, n) ==
  /\ left' = [left EXCEPT ![t] = @ - n]
  /\ wire' = wire + n
  /\ torn' = (torn \/ \E u \in Thread \ {t} : MidMessage(u))
  /\ UNCHANGED <<link, inbox, got, cfgs, net, timer, walk>>

\* Mutant: header and body are sent one after the other.
SendInTwo(t) ==
  /\ link = "up" /\ left[t] > 0 /\ wire < SndBuf
  /\ short' = short
  /\ Goes(t, 1)

\* One turn of mysend's loop: as many bytes as there is room for.
Send(t) ==
  /\ link = "up" /\ left[t] > 0 /\ wire < SndBuf
  /\ LET room == SndBuf - wire IN
       /\ short' = (short \/ room < left[t])
       /\ Goes(t, IF room < left[t] THEN room ELSE left[t])

\* No room at all is a BlockingIOError, and a lost connection an error too.
SendRaises(t) ==
  /\ left[t] > 0
  /\ link = "down" \/ wire = SndBuf
  /\ Raises(t)
  /\ UNCHANGED <<inbox, got, cfgs, wire, short, torn>>

----------------------------------------------------------------------------
(* The network thread *)

\* run: connect, report_self_info; the timer starts after it.
Connect ==
  /\ net.at = "connect"
  /\ \/ link' = "up" /\ net' = NetAt("report") /\ Mysend("net")
     \/ link' = "down" /\ net' = NetAt("dead") /\ UNCHANGED left
  /\ UNCHANGED <<inbox, got, cfgs, timer, walk, wire, short, torn>>

StartTimer ==
  /\ net.at = "report" /\ left["net"] = 0
  /\ net' = Selecting /\ timer' = "asleep"
  /\ UNCHANGED <<link, inbox, got, cfgs, walk, left, wire, short, torn>>

\* Mutant: a client that traces already takes no further configuration.
HandleFirstCfg(m) ==
  /\ inbox' = Tail(inbox)
  /\ CASE m.id = "CFG_INFO_REQ" ->
            /\ cfgs' = IF cfgs = << >> THEN <<m.cfg>> ELSE cfgs
            /\ Mysend("net") /\ UNCHANGED net
       [] m.id = "CLEAR_SESSION_REQ" ->
            /\ net' = [at |-> "clear", i |-> 1, n |-> Len(cfgs), session |-> m.session]
            /\ UNCHANGED <<cfgs, left>>
       [] OTHER -> UNCHANGED <<cfgs, net, left>>

\* myparse, and read_buf without the message.
Handle(m) ==
  /\ inbox' = Tail(inbox)
  /\ CASE m.id = "CFG_INFO_REQ" ->     \* handle_cfg of mytrace.py
            /\ cfgs' = Append(cfgs, m.cfg)
            /\ Mysend("net") /\ UNCHANGED net
       [] m.id = "CLEAR_SESSION_REQ" ->
            /\ net' = [at |-> "clear", i |-> 1, n |-> Len(cfgs), session |-> m.session]
            /\ UNCHANGED <<cfgs, left>>
       [] OTHER -> UNCHANGED <<cfgs, net, left>>

\* Mutant: a recv of any size.
MyreceiveAll ==
  /\ NetReady /\ InNet > 0
  /\ \E n \in 1 .. InNet :
       IF got + n < SizeOf(Head(inbox))
         THEN got' = got + n /\ UNCHANGED <<inbox, cfgs, net, left>>
         ELSE got' = got + n - SizeOf(Head(inbox)) /\ Handle(Head(inbox))
  /\ UNCHANGED <<link, timer, walk, wire, short, torn>>

\* One recv, of what has arrived and fits, and at most one message.
Myreceive ==
  /\ NetReady /\ InNet > 0
  /\ \E n \in 1 .. Recv :
       /\ n <= InNet
       /\ IF got + n < SizeOf(Head(inbox))
            THEN got' = got + n /\ UNCHANGED <<inbox, cfgs, net, left>>
            ELSE got' = got + n - SizeOf(Head(inbox)) /\ Handle(Head(inbox))
  /\ UNCHANGED <<link, timer, walk, wire, short, torn>>

\* recv returns b'', or raises.
ReceiveRaises ==
  /\ NetReady /\ link = "down"
  /\ Raises("net")
  /\ UNCHANGED <<inbox, got, cfgs, wire, short, torn>>

\* Mutant: the loop ends at the end of the list as it is now.
ClearOneRecounts ==
  /\ net.at = "clear" /\ net.i <= net.n /\ net.i <= Len(cfgs)
  /\ LET found == cfgs[net.i].session = net.session IN
       /\ cfgs' = IF found THEN RemoveAt(cfgs, net.i) ELSE cfgs
       /\ walk' = [walk EXCEPT !.whole = @ /\ ~found]
  /\ net' = [net EXCEPT !.i = @ + 1, !.n = Len(cfgs')]
  /\ UNCHANGED <<link, inbox, got, timer, left, wire, short, torn>>

\* One turn of the loop of handle_clear_session, whose range was taken before
\* anything was deleted.
ClearOne ==
  /\ net.at = "clear" /\ net.i <= net.n /\ net.i <= Len(cfgs)
  /\ LET found == cfgs[net.i].session = net.session IN
       /\ cfgs' = IF found THEN RemoveAt(cfgs, net.i) ELSE cfgs
       /\ walk' = [walk EXCEPT !.whole = @ /\ ~found]
  /\ net' = [net EXCEPT !.i = @ + 1]
  /\ UNCHANGED <<link, inbox, got, timer, left, wire, short, torn>>

\* IndexError: list index out of range.
ClearRaises ==
  /\ net.at = "clear" /\ net.i <= net.n /\ net.i > Len(cfgs)
  /\ Raises("net")
  /\ UNCHANGED <<inbox, got, cfgs, wire, short, torn>>

ClearDone ==
  /\ net.at = "clear" /\ net.i > net.n
  /\ net' = Selecting
  /\ UNCHANGED <<link, inbox, got, cfgs, timer, walk, left, wire, short, torn>>

----------------------------------------------------------------------------
(* The timer's thread and the main thread *)

SendHeart ==
  /\ timer = "asleep" /\ left["timer"] = 0
  /\ Mysend("timer")
  /\ UNCHANGED <<link, inbox, got, cfgs, net, timer, walk, wire, short, torn>>

\* The main thread calls tlog_if, which does nothing without configurations.
\* Before the thread that connects is done, there are none.
TlogIf ==
  /\ walk.at = "idle" /\ left["main"] = 0 /\ cfgs # << >>
  /\ walk' = [Resting EXCEPT !.at = "walk", !.i = 1]
  /\ UNCHANGED <<link, inbox, got, cfgs, net, timer, left, wire, short, torn>>

\* Mutant: the first configuration that matches ends the loop.
WalkToFirst ==
  /\ walk.at = "walk" /\ left["main"] = 0 /\ walk.i <= Len(cfgs)
  /\ LET traced == cfgs[walk.i].value = Checkif IN
       /\ IF traced THEN Mysend("main") ELSE UNCHANGED left
       /\ walk' = [walk EXCEPT !.i = IF traced THEN MaxCfgs + 2 ELSE @ + 1,
                               !.made = IF traced THEN @ + 1 ELSE @]
  /\ UNCHANGED <<link, inbox, got, cfgs, net, timer, wire, short, torn>>

\* One turn of the loop over the list: check, upload_log.
WalkOne ==
  /\ walk.at = "walk" /\ left["main"] = 0 /\ walk.i <= Len(cfgs)
  /\ LET traced == cfgs[walk.i].value = Checkif IN
       /\ IF traced THEN Mysend("main") ELSE UNCHANGED left
       /\ walk' = [walk EXCEPT !.i = @ + 1, !.made = IF traced THEN @ + 1 ELSE @]
  /\ UNCHANGED <<link, inbox, got, cfgs, net, timer, wire, short, torn>>

WalkDone ==
  /\ walk.at = "walk" /\ left["main"] = 0 /\ walk.i > Len(cfgs)
  /\ walk' = Resting
  /\ UNCHANGED <<link, inbox, got, cfgs, net, timer, left, wire, short, torn>>

----------------------------------------------------------------------------
(* The server and the network *)

\* Nothing that comes when the network thread has ended is ever read.
ServerSends(m) ==
  /\ link = "up" /\ Len(inbox) < MaxIn /\ net.at # "dead"
  /\ m.id = "CFG_INFO_REQ" => Len(cfgs) + Len(inbox) < MaxCfgs
  /\ inbox' = Append(inbox, m)
  /\ UNCHANGED <<link, got, cfgs, net, timer, walk, left, wire, short, torn>>

ServerReads ==
  /\ wire > 0
  /\ wire' \in 0 .. wire - 1
  /\ UNCHANGED <<link, inbox, got, cfgs, net, timer, walk, left, short, torn>>

\* The end of what the server sent is reached, or the connection is reset and
\* what was under way is lost.
Close ==
  /\ link = "up"
  /\ link' = "down" /\ wire' = 0 /\ inbox' = << >> /\ got' = 0
  /\ UNCHANGED <<cfgs, net, timer, walk, left, short, torn>>

----------------------------------------------------------------------------
PyInit ==
  /\ link = "none" /\ inbox = << >> /\ got = 0 /\ cfgs = << >>
  /\ net = NetAt("connect") /\ timer = "off" /\ walk = Resting
  /\ left = [t \in Thread |-> 0] /\ wire = 0 /\ short = FALSE /\ torn = FALSE

PyNext ==
  \/ \E t \in Thread : Send(t) \/ SendRaises(t)
  \/ Connect \/ StartTimer \/ Myreceive \/ ReceiveRaises
  \/ ClearOne \/ ClearRaises \/ ClearDone
  \/ SendHeart \/ TlogIf \/ WalkOne \/ WalkDone
  \/ \E m \in FromServer : ServerSends(m)
  \/ ServerReads \/ Close

PySpec == PyInit /\ [][PyNext]_vars

(***************************************************************************)
(* The network thread runs, and so does a send it is in: the interpreter   *)
(* gives every thread its turn.                                            *)
(***************************************************************************)
FairPySpec ==
  /\ PySpec
  /\ WF_vars(Connect) /\ WF_vars(StartTimer)
  /\ WF_vars(Myreceive) /\ WF_vars(ReceiveRaises)
  /\ WF_vars(ClearOne \/ ClearRaises \/ ClearDone)
  /\ WF_vars(Send("net") \/ SendRaises("net"))

----------------------------------------------------------------------------
(* Properties *)

\* Though a recv is followed by one message at most, and select does not tell
\* of messages that are in read_buf already, none is left there complete:
\* a recv is no longer than any message.
NothingWaits == NetReady /\ inbox # << >> => got < SizeOf(Head(inbox))

\* The three threads write to the socket without a lock; a message is torn
\* apart by another only when the send buffer was too full for it.
TornOnlyWhenFull == torn => short

\* handle_clear_session deletes from the list it counts through.  When it
\* returns, and does not end the network thread, the session is gone from the
\* list with all its entries.
ClearedOrDead ==
  [][net.at = "clear" /\ net'.at = "select"
       => \A k \in DOMAIN cfgs' : cfgs'[k].session # net.session]_vars

\* tlog_if walks the list while the network thread changes it.  A walk during
\* which nothing was deleted makes one upload for each entry that matches,
\* those appended on the way included.
EachMatchOnce ==
  [][walk.at = "walk" /\ walk'.at = "idle" /\ walk.whole
       => walk.made = Cardinality({k \in DOMAIN cfgs : cfgs[k].value = Checkif})]_vars

\* A configuration the server has sent is listed, or the network thread ends.
CfgKept ==
  \A s \in Session :
    (\E k \in DOMAIN inbox : inbox[k].id = "CFG_INFO_REQ" /\ inbox[k].cfg.session = s)
      ~> (net.at = "dead" \/ \E k \in DOMAIN cfgs : cfgs[k].session = s)
=============================================================================
