----------------------------- MODULE ReadBuffer -----------------------------
(***************************************************************************)
(* One end of a connection: how the bytes that arrive become messages.     *)
(* libnframe's CGMThread::OnMsgOneConDeal reads into the connection's      *)
(* buffer and calls ParseNetMsg as long as it takes messages off the       *)
(* front; ParseNetMsg (trace_server/AsyncCommThread.cpp:139-163, and the   *)
(* same code in the client and, for both kinds of header, in the gateway)  *)
(* swaps the header in place to look at it, and leaves it swapped when the *)
(* message is not complete.                                                *)
(*                                                                         *)
(* Sizes are scaled: a header is Header bytes, a length field has four     *)
(* bytes (MSG_HEAD) or two (RecordHeader) of Base values each.  What the   *)
(* reader and the writer of a connection are is told by its link:          *)
(*   toServer   from a client or the gateway, which have heartbeat timers  *)
(*   toClient   from the server, which answers heartbeats and sends none   *)
(*              of its own accord                                          *)
(*   toGateway  from the server too; the gateway looks at the first byte   *)
(*              to tell its messages from FastCGI records                  *)
(*   fromNginx  FastCGI records                                            *)
(*                                                                         *)
(* The assumption ReadMax < Base * Base is that of server and clients,     *)
(* whose buffers have 10240 bytes.  The gateway gives its connection to    *)
(* the server 102400 (async_cgi/AsyncCommThread.cpp:118), more than the    *)
(* 65536 from which a length read in the wrong order can be a small one:   *)
(* what is said here of four-byte lengths does not reach that far.  The    *)
(* padding of a FastCGI record counts as part of its content.              *)
(***************************************************************************)
EXTENDS Integers, Sequences, Functions

CONSTANTS Header,     \* sizeof(MSG_HEAD), kRecordHeader: 8
          MinLook,    \* 4: OnMsgOneConDeal does not look at less
          Base,       \* 256
          ReadMax,    \* the size of read_buf: 10240
          Lens,       \* lengths of messages
          HeartBeatLen,  \* of the body of a heartbeat: "nothing"
          Links,      \* the kinds of connection
          Ids,        \* names of messages: 0 .. NIds - 1, used in turn
          MaxTransit  \* bound: messages sent and not handed over

ASSUME ReadBufferAssumption ==
  /\ Header \in Nat /\ MinLook \in 1 .. Header
  /\ Base \in Nat /\ Base >= 2
  /\ ReadMax \in Nat /\ ReadMax < Base * Base
  /\ Lens \subseteq 1 .. Base * Base - 1
  /\ HeartBeatLen \in Lens
  /\ Links \subseteq {"toServer", "toClient", "toGateway", "fromNginx"}
  /\ Ids \subseteq Nat /\ 0 \in Ids /\ MaxTransit \in Nat

VARIABLES link,      \* what this connection is
          transit,   \* messages sent and not handed over: the first is the
                     \* one whose header is at the front of read_buf
          read_idx,  \* how many of their bytes are in read_buf
          host,      \* is the header at the front in host byte order?
          pc,        \* where OnMsgOneConDeal is
          open,      \* FALSE: ReleaseConnection
          spoiled,   \* a message composed in read_buf wrote over bytes that
                     \* wait there
          misread,   \* a length was taken that is not the message's
          next,      \* the name of the next message
          handed     \* the message handed to HandleMsg last

vars == <<link, transit, read_idx, host, pc, open, spoiled, misread, next, handed>>

Message == [id : Ids, len : Lens]

\* The bytes of the header's length field.
Width == IF link = "fromNginx" THEN 2 ELSE 4

\* The bytes a message takes on the wire.
Total(m) == Header + m.len

\* All bytes of the messages of s.
Bytes(s) == SumFunction([k \in DOMAIN s |-> Total(s[k])])

InNet == Bytes(transit) - read_idx

\* The connection still carries what was sent.
Whole == open /\ ~spoiled /\ ~misread

----------------------------------------------------------------------------
(* The other end *)

Sent(len) ==
  /\ transit' = Append(transit, [id |-> next, len |-> len])
  /\ next' = IF next + 1 \in Ids THEN next + 1 ELSE 0
  /\ UNCHANGED <<link, read_idx, host, pc, open, spoiled, misread, handed>>

SendMsg(len) == Whole /\ Len(transit) < MaxTransit /\ Sent(len)

\* Mutant: a heartbeat only when nothing is under way.
HeartBeatWhenQuiet ==
  /\ Whole /\ link = "toServer" /\ transit = << >>
  /\ Sent(HeartBeatLen)

\* TIMER_ID_HEARTBEAT of a client or the gateway.  (The server has no such
\* timer: its answers to heartbeats are among the messages of SendMsg.)
SendHeartBeatMsg ==
  /\ Whole /\ link = "toServer" /\ Len(transit) <= MaxTransit /\ InNet = 0
  /\ Sent(HeartBeatLen)

----------------------------------------------------------------------------
(* OnMsgOneConDeal *)

\* epoll reports bytes, or the loop reads on: as many as there are, or fewer.
Read ==
  /\ Whole /\ pc \in {"idle", "reading"}
  /\ \E n \in 1 .. ReadMax - read_idx :
       /\ n <= InNet
       /\ read_idx' = read_idx + n
  /\ pc' = "looking"
  /\ UNCHANGED <<link, transit, host, open, spoiled, misread, next, handed>>

\* EAGAIN.
NothingToRead ==
  /\ Whole /\ pc = "reading" /\ InNet = 0
  /\ pc' = "idle"
  /\ UNCHANGED <<link, transit, read_idx, host, open, spoiled, misread, next, handed>>

\* A read into a full buffer returns 0, like the end of the connection.
NoRoom ==
  /\ Whole /\ pc \in {"idle", "reading"} /\ read_idx = ReadMax
  /\ InNet > 0 \/ pc = "reading"
  /\ open' = FALSE
  /\ UNCHANGED <<link, transit, read_idx, host, pc, spoiled, misread, next, handed>>

\* The other end closes, or the idle check does.
ReleaseConnection ==
  /\ Whole /\ pc \in {"idle", "reading"}
  /\ open' = FALSE
  /\ UNCHANGED <<link, transit, read_idx, host, pc, spoiled, misread, next, handed>>

----------------------------------------------------------------------------
(* ParseNetMsg *)

\* Mutant: only the low half of the length is swapped.
SwappedHalf(n) == (n % Base) * Base + n \div Base

\* The value of a length n, which has two bytes that are not 0 at most, read
\* in the other byte order.
\* (An int that is negative then becomes a size_t beyond every
\* buffer: its highest bit is set, its lower half 0.)
Swapped(n) ==
  IF Width = 4 THEN (n % Base) * Base * Base * Base + (n \div Base) * Base * Base
               ELSE (n % Base) * Base + n \div Base

Front == Head(transit)

\* The length the next look finds, which swaps the field first.
Seen == IF host THEN Swapped(Front.len) ELSE Front.len

\* The gateway takes a first byte 1 for the version of a FastCGI record.  A
\* length in host byte order has its low byte there, and no later look, which
\* swaps other fields, changes it.
TakenForRecord == link = "toGateway" /\ host /\ Front.len % Base = 1

\* Bytes have come, so a message they belong to is under way.
Looking == Whole /\ pc = "looking" /\ transit # << >>

\* Not enough for a header: nothing is touched.
TooShort ==
  /\ Looking /\ read_idx < Header
  /\ pc' = "reading"
  /\ UNCHANGED <<link, transit, read_idx, host, open, spoiled, misread, next, handed>>

\* The header stays as the look left it.  (What a message that is taken for a
\* record has where a record has its length may be too much, or not.)
Incomplete ==
  /\ Looking /\ read_idx >= Header
  /\ TakenForRecord \/ Header + Seen > read_idx
  /\ host' = (TakenForRecord \/ ~host)
  /\ pc' = "reading"
  /\ UNCHANGED <<link, transit, read_idx, open, spoiled, misread, next, handed>>

\* A look that finds a length its bytes satisfy, but of another message.
Misread ==
  /\ Looking /\ read_idx >= Header
  /\ \/ TakenForRecord
     \/ Header + Seen <= read_idx /\ Seen # Front.len
  /\ misread' = TRUE
  /\ UNCHANGED <<link, transit, read_idx, host, pc, open, spoiled, next, handed>>

\* The look that finds the message at the front complete.
Complete ==
  /\ Looking /\ ~TakenForRecord
  /\ read_idx >= Header /\ Header + Seen <= read_idx /\ Seen = Front.len

\* Mutant: the buffer is emptied after a message, whatever is behind it.
HandledAndEmptied ==
  /\ Complete
  /\ handed' = Front.id
  /\ transit' = IF InNet = 0 THEN << >> ELSE Tail(transit)
  /\ read_idx' = IF InNet = 0 THEN 0 ELSE read_idx - Total(Front)
  /\ host' = FALSE /\ pc' = "reading"
  /\ UNCHANGED <<link, open, spoiled, misread, next>>

\* HandleMsg, and the memmove after it.  The handler may compose an answer of
\* n bytes at the front of read_buf, over the message it handles and, when the
\* answer is longer, over what came behind it.
HandleMsg ==
  /\ Complete
  /\ handed' = Front.id
  /\ transit' = Tail(transit)
  /\ read_idx' = read_idx - Total(Front)
  /\ host' = FALSE
  /\ pc' = IF read_idx' >= MinLook THEN "looking" ELSE "reading"
  /\ \E n \in {0} \cup {Header + len : len \in Lens} :
       spoiled' = (n > Total(Front) /\ read_idx' > 0)
  /\ UNCHANGED <<link, open, misread, next>>

\* A message of this end's own accord, its own heartbeat among them, composed
\* at the front of read_buf.
Compose ==
  /\ Whole /\ pc = "idle" /\ read_idx > 0
  /\ spoiled' = TRUE
  /\ UNCHANGED <<link, transit, read_idx, host, pc, open, misread, next, handed>>

----------------------------------------------------------------------------
ReadBufferInit ==
  /\ link \in Links
  /\ transit = << >> /\ read_idx = 0 /\ host = FALSE /\ pc = "idle"
  /\ open = TRUE /\ spoiled = FALSE /\ misread = FALSE
  /\ next = 0 /\ handed = 0

ReadBufferNext ==
  \/ \E len \in Lens : SendMsg(len)
  \/ SendHeartBeatMsg
  \/ Read \/ NothingToRead \/ NoRoom \/ ReleaseConnection
  \/ TooShort \/ Incomplete \/ Misread \/ HandleMsg
  \/ Compose

ReadBufferSpec == ReadBufferInit /\ [][ReadBufferNext]_vars

(***************************************************************************)
(* The thread of this end runs, and the heartbeat timer of a client or the *)
(* gateway that writes to the server.                                      *)
(***************************************************************************)
ReadBufferFairness ==
  /\ WF_vars(Read) /\ WF_vars(NothingToRead) /\ WF_vars(NoRoom)
  /\ WF_vars(TooShort \/ Incomplete \/ Misread \/ HandleMsg)
  /\ WF_vars(SendHeartBeatMsg)

FairReadBufferSpec == ReadBufferSpec /\ ReadBufferFairness

----------------------------------------------------------------------------
(* Properties *)

ReadBufferTypeOK ==
  /\ link \in Links /\ transit \in Seq(Message) /\ read_idx \in 0 .. ReadMax
  /\ host \in BOOLEAN /\ pc \in {"idle", "reading", "looking"}
  /\ open \in BOOLEAN /\ spoiled \in BOOLEAN /\ misread \in BOOLEAN
  /\ next \in Ids /\ handed \in Ids

\* Between server and clients no look, on whatever swapped header,
\* takes a wrong length for a complete message: a length below the size of the
\* buffer, read in the wrong order, is beyond it.  (FastCGI's two-byte lengths
\* have no such room: 256 read in the wrong order is 1.  The gateway also
\* takes a swapped header for a record when it happens to begin with a 1.)
NeverMisread == link \in {"toServer", "toClient"} => ~misread

\* The handlers see the messages of the other end in order, each once, until
\* the connection is lost; for every kind of connection.
Stream == INSTANCE MessageStream WITH
            queue <- [k \in DOMAIN transit |-> transit[k].id],
            handed <- handed, lost <- ~Whole
InOrder == Stream!StreamSpec

\* Although every second look at a header cannot find its message complete,
\* each message to the server is handed over, because the heartbeats of the
\* other end make it look again; or the connection is lost.  (Towards clients
\* and the gateway nothing makes the reader look again: the server sends no
\* heartbeats, and the reader's own overwrites what waits.)
AllHandedOver ==
  \A id \in Ids :
    (link = "toServer" /\ transit # << >> /\ Front.id = id) ~>
      (~Whole \/ transit = << >> \/ Front.id # id)
=============================================================================
