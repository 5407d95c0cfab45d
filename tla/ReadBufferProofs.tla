-------------------------- MODULE ReadBufferProofs --------------------------
(***************************************************************************)
(* What the framing of messages promises for every size of header, buffer  *)
(* and message that ReadBufferAssumption admits:                           *)
(*   - a four-byte length read in the wrong byte order is never taken for  *)
(*     that of a complete message, although every other look at a header   *)
(*     reads it in the wrong order;                                        *)
(*   - the handlers see the messages in order, each once, until the        *)
(*     connection is lost.                                                 *)
(***************************************************************************)
EXTENDS ReadBuffer, TLAPS

----------------------------------------------------------------------------
(* Arithmetic *)

\* A number that is not 0 has a digit that is not 0.
LEMMA Digits ==
  ASSUME NEW n \in Nat, NEW b \in Nat, b >= 2
  PROVE  /\ n % b \in Nat /\ n \div b \in Nat
         /\ n = b * (n \div b) + (n % b)
<1>1. n % b \in 0 .. b - 1
  OBVIOUS
<1>2. n \div b \in Nat
  OBVIOUS
<1>3. n = b * (n \div b) + (n % b)
  OBVIOUS
<1>4. QED BY <1>1, <1>2, <1>3

LEMMA Scaled ==
  ASSUME NEW a \in Nat, NEW k \in Nat, a >= 1
  PROVE  a * k \in Nat /\ a * k >= k
BY Z3

LEMMA Powers ==
  ASSUME NEW a \in Nat, NEW b \in Nat
  PROVE  a * b * b = a * (b * b) /\ a * b * b * b = a * (b * (b * b))
BY Z3

\* A four-byte length below the square of Base, read in the wrong order, is
\* the length itself, which is then 0, or beyond every buffer.
LEMMA WrongOrder ==
  ASSUME Width = 4, NEW n \in Nat
  PROVE  /\ n = 0 => Swapped(n) = 0
         /\ n >= 1 => Swapped(n) \in Nat /\ Swapped(n) >= Base * Base
<1> DEFINE lo == n % Base
           hi == n \div Base
           K == Base * Base
<1>1. lo \in Nat /\ hi \in Nat /\ n = Base * hi + lo /\ Base \in Nat /\ K \in Nat
  BY Digits, ReadBufferAssumption
<1>2. Base * K \in Nat /\ Base * K >= K
  BY <1>1, Scaled, ReadBufferAssumption
<1>3. Swapped(n) = lo * (Base * K) + hi * K
  <2>1. Swapped(n) = lo * Base * Base * Base + hi * Base * Base
    BY DEF Swapped
  <2>2. /\ lo * Base * Base * Base = lo * (Base * K)
        /\ hi * Base * Base = hi * K
    BY <1>1, Powers
  <2>3. QED BY <2>1, <2>2
<1>4. CASE n = 0
  <2>1. lo = 0 /\ hi = 0
    BY <1>4, ReadBufferAssumption
  <2> HIDE DEF K
  <2>2. QED BY <1>1, <1>2, <1>3, <1>4, <2>1
<1>5. CASE n >= 1
  <2> HIDE DEF lo, hi, K
  <2>1. lo >= 1 \/ hi >= 1
    BY <1>1, <1>5
  <2>2. CASE lo >= 1
    <3>1. lo * (Base * K) \in Nat /\ lo * (Base * K) >= Base * K
      BY <1>1, <1>2, <2>2, Scaled
    <3>2. hi * K \in Nat
      BY <1>1
    <3>3. QED BY <1>1, <1>2, <1>3, <3>1, <3>2, <1>5 DEF K
  <2>3. CASE hi >= 1
    <3>1. hi * K \in Nat /\ hi * K >= K
      BY <1>1, <2>3, Scaled
    <3>2. lo * (Base * K) \in Nat
      BY <1>1, <1>2
    <3>3. QED BY <1>1, <1>3, <3>1, <3>2, <1>5 DEF K
  <2>4. QED BY <2>1, <2>2, <2>3
<1>6. QED BY <1>4, <1>5

----------------------------------------------------------------------------
(* The inductive invariant *)

ReadBufferInv ==
  /\ link \in Links
  /\ transit \in Seq(Message)
  /\ read_idx \in Nat /\ read_idx <= ReadMax
  /\ host \in BOOLEAN
  /\ next \in Ids
  /\ NeverMisread

LEMMA FrontIsMessage ==
  ASSUME ReadBufferInv, transit # << >>
  PROVE  /\ Front \in Message /\ Front.id \in Ids /\ Front.len \in Nat
         /\ Total(Front) \in Nat /\ Tail(transit) \in Seq(Message)
<1>1. Front \in Message /\ Tail(transit) \in Seq(Message)
  BY DEF ReadBufferInv, Front
<1>2. Front.id \in Ids /\ Front.len \in Lens
  BY <1>1 DEF Message
<1>3. \A len \in Lens : len \in Nat
  BY ReadBufferAssumption
<1>4. Front.len \in Nat
  BY <1>2, <1>3
<1>5. QED BY <1>1, <1>2, <1>4, ReadBufferAssumption DEF Total

LEMMA SentKeeps ==
  ASSUME ReadBufferInv, NEW len \in Lens, Sent(len)
  PROVE  ReadBufferInv'
<1>1. [id |-> next, len |-> len] \in Message
  BY DEF Message, ReadBufferInv
<1>2. transit' \in Seq(Message)
  BY <1>1 DEF Sent, ReadBufferInv
<1>3. next' \in Ids
  BY ReadBufferAssumption DEF Sent, ReadBufferInv
<1>4. QED BY <1>2, <1>3 DEF Sent, ReadBufferInv, NeverMisread

\* With a four-byte length, a complete message is never another one than the
\* message at the front: the wrong order would need a larger buffer.
LEMMA NoMisread ==
  ASSUME ReadBufferInv, Misread
  PROVE  link \notin {"toServer", "toClient"}
<1> SUFFICES ASSUME link \in {"toServer", "toClient"} PROVE FALSE
  OBVIOUS
<1>0. Width = 4 /\ ~TakenForRecord
  BY DEF Width, TakenForRecord
<1>1. Front.len \in Nat
  BY FrontIsMessage DEF Misread, Looking
<1>2. Header + Seen <= read_idx /\ Seen # Front.len
  BY <1>0 DEF Misread
<1>3. host /\ Seen = Swapped(Front.len)
  BY <1>2 DEF Seen
<1>4. Front.len >= 1
  BY <1>0, <1>1, <1>2, <1>3, WrongOrder
<1>5. Swapped(Front.len) \in Nat /\ Swapped(Front.len) >= Base * Base
  BY <1>0, <1>1, <1>4, WrongOrder
<1>6. Base * Base \in Nat /\ ReadMax < Base * Base /\ Header \in Nat /\ ReadMax \in Nat
  BY ReadBufferAssumption
<1> DEFINE x == Swapped(Front.len)
           K == Base * Base
<1> HIDE DEF x, K
<1>7. x \in Nat /\ x >= K /\ Header + x <= read_idx /\ K \in Nat /\ ReadMax < K
  BY <1>2, <1>3, <1>5, <1>6 DEF x, K
<1>8. QED BY <1>6, <1>7 DEF ReadBufferInv

LEMMA ReadBufferInductive ==
  ASSUME ReadBufferInv, [ReadBufferNext]_vars
  PROVE  ReadBufferInv'
<1>1. ASSUME NEW len \in Lens, SendMsg(len) PROVE ReadBufferInv'
  BY <1>1, SentKeeps DEF SendMsg
<1>2. CASE SendHeartBeatMsg
  BY <1>2, SentKeeps, ReadBufferAssumption DEF SendHeartBeatMsg
<1>3. CASE Read
  <2>1. PICK n \in 1 .. ReadMax - read_idx : read_idx' = read_idx + n
    BY <1>3 DEF Read
  <2>2. read_idx' \in Nat /\ read_idx' <= ReadMax
    BY <2>1, ReadBufferAssumption DEF ReadBufferInv
  <2>3. QED BY <1>3, <2>2 DEF Read, ReadBufferInv, NeverMisread
<1>4. CASE NothingToRead \/ NoRoom \/ ReleaseConnection \/ TooShort \/ Compose
  BY <1>4 DEF NothingToRead, NoRoom, ReleaseConnection, TooShort, Compose,
              ReadBufferInv, NeverMisread
<1>5. CASE Incomplete
  BY <1>5 DEF Incomplete, ReadBufferInv, NeverMisread
<1>6. CASE Misread
  <2>1. link \notin {"toServer", "toClient"}
    BY <1>6, NoMisread
  <2>2. QED BY <1>6, <2>1 DEF Misread, ReadBufferInv, NeverMisread
<1>7. CASE HandleMsg
  <2>1. Header + Seen <= read_idx /\ Seen = Front.len /\ transit # << >>
    BY <1>7 DEF HandleMsg, Complete, Looking
  <2>2. Front.len \in Nat /\ Total(Front) = Header + Front.len
    BY <2>1, FrontIsMessage DEF Total
  <2>3. read_idx' = read_idx - Total(Front)
    BY <1>7 DEF HandleMsg
  <2>4. read_idx' \in Nat /\ read_idx' <= ReadMax
    BY <2>1, <2>2, <2>3, ReadBufferAssumption DEF ReadBufferInv
  <2>5. transit' \in Seq(Message)
    BY <1>7, <2>1, FrontIsMessage DEF HandleMsg
  <2>6. QED BY <1>7, <2>4, <2>5 DEF HandleMsg, ReadBufferInv, NeverMisread
<1>8. CASE UNCHANGED vars
  BY <1>8 DEF vars, ReadBufferInv, NeverMisread
<1>9. QED
  BY <1>1, <1>2, <1>3, <1>4, <1>5, <1>6, <1>7, <1>8 DEF ReadBufferNext

LEMMA ReadBufferInvInit == ReadBufferInit => ReadBufferInv
<1> SUFFICES ASSUME ReadBufferInit PROVE ReadBufferInv
  OBVIOUS
<1>1. transit \in Seq(Message)
  BY DEF ReadBufferInit
<1>2. read_idx \in Nat /\ read_idx <= ReadMax /\ next \in Ids
  BY ReadBufferAssumption DEF ReadBufferInit
<1>3. link \in Links /\ host \in BOOLEAN /\ ~misread
  BY DEF ReadBufferInit
<1>4. QED BY <1>1, <1>2, <1>3 DEF ReadBufferInv, NeverMisread

LEMMA ReadBufferInvHolds == ReadBufferSpec => []ReadBufferInv
BY ReadBufferInvInit, ReadBufferInductive, PTL DEF ReadBufferSpec

\* ParseNetMsg of server and clients never takes the length of an incomplete
\* message, swapped once too often, for that of a complete one: for every
\* buffer below the square of Base (10240 bytes of 65536), whatever is sent
\* and however it is cut.
THEOREM NeverMisreadHolds == ReadBufferSpec => []NeverMisread
<1>1. ReadBufferInv => NeverMisread
  BY DEF ReadBufferInv
<1>2. QED BY <1>1, ReadBufferInvHolds, PTL

----------------------------------------------------------------------------
(* The refinement of MessageStream *)

ids == [k \in DOMAIN transit |-> transit[k].id]

LEMMA IdsOfSeq ==
  ASSUME NEW t \in Seq(Message)
  PROVE  LET i == [k \in DOMAIN t |-> t[k].id]
         IN  i \in Seq(Ids) /\ Len(i) = Len(t)
<1>1. DOMAIN t = 1 .. Len(t) /\ Len(t) \in Nat
  OBVIOUS
<1>2. \A k \in 1 .. Len(t) : t[k].id \in Ids
  <2> SUFFICES ASSUME NEW k \in 1 .. Len(t) PROVE t[k].id \in Ids
    OBVIOUS
  <2>1. t[k] \in Message
    OBVIOUS
  <2>2. QED BY <2>1 DEF Message
<1> DEFINE i == [k \in DOMAIN t |-> t[k].id]
<1>3. i \in [1 .. Len(t) -> Ids]
  BY <1>1, <1>2
<1> HIDE DEF i
<1>4. i \in Seq(Ids) /\ Len(i) = Len(t)
  BY <1>1, <1>3
<1>5. QED BY <1>4 DEF i

LEMMA SendIsSend ==
  ASSUME ReadBufferInv, ReadBufferInv', NEW len, Sent(len)
  PROVE  Stream!Send
<1> DEFINE m == [id |-> next, len |-> len]
<1>1. /\ transit \in Seq(Message) /\ Len(transit) \in Nat
      /\ transit' = Append(transit, m)
  BY DEF Sent, ReadBufferInv
<1>2. /\ transit' \in Seq(Message)
  BY DEF ReadBufferInv
<1>3. Len(transit') = Len(transit) + 1
      /\ \A k \in 1 .. Len(transit) : transit'[k] = transit[k]
  BY <1>1
<1>4. /\ ids \in Seq(Ids) /\ Len(ids) = Len(transit)
      /\ ids' \in Seq(Ids) /\ Len(ids') = Len(transit')
  BY <1>1, <1>2, IdsOfSeq DEF ids
<1>5. \A k \in 1 .. Len(transit) : ids'[k] = ids[k]
  BY <1>1, <1>3, <1>2 DEF ids
<1>6. Len(ids') = Len(ids) + 1 /\ SubSeq(ids', 1, Len(ids)) = ids
  <2> DEFINE s == SubSeq(ids', 1, Len(ids))
  <2>1. /\ s \in Seq(Ids) /\ Len(s) = Len(ids)
        /\ \A k \in 1 .. Len(ids) : s[k] = ids'[k]
    BY <1>1, <1>3, <1>4
  <2> HIDE DEF s
  <2>2. s = ids
    BY <1>4, <1>5, <2>1
  <2>3. QED BY <1>3, <1>4, <2>2 DEF s
<1>7. UNCHANGED <<handed, Whole>>
  BY DEF Sent, Whole
<1>8. QED BY <1>6, <1>7 DEF Stream!Send, ids

LEMMA HandleMsgIsHandOver ==
  ASSUME ReadBufferInv, ReadBufferInv', HandleMsg
  PROVE  Stream!HandOver
<1>1. /\ Whole /\ transit # << >> /\ handed' = Front.id /\ transit' = Tail(transit)
  BY DEF HandleMsg, Complete, Looking
<1>2. /\ transit \in Seq(Message) /\ Len(transit) \in Nat /\ Len(transit) >= 1
      /\ DOMAIN transit = 1 .. Len(transit)
  BY <1>1 DEF ReadBufferInv
<1>3. /\ ids \in Seq(Ids) /\ Len(ids) = Len(transit)
      /\ ids' \in Seq(Ids) /\ Len(ids') = Len(transit')
  <2>1. transit' \in Seq(Message)
    BY DEF ReadBufferInv
  <2>2. QED BY <1>2, <2>1, IdsOfSeq DEF ids
<1>4. ids # << >> /\ Head(ids) = Front.id
  BY <1>2, <1>3 DEF ids, Front
<1>5. ids' = Tail(ids)
  <2> DEFINE t == Tail(ids)
  <2>1. /\ Len(transit') = Len(transit) - 1
        /\ \A k \in 1 .. Len(transit) - 1 : transit'[k] = transit[k + 1]
    BY <1>1, <1>2
  <2>2. /\ t \in Seq(Ids) /\ Len(t) = Len(transit) - 1
        /\ \A k \in 1 .. Len(transit) - 1 : t[k] = ids[k + 1]
    BY <1>2, <1>3, <1>4
  <2>3. \A k \in 1 .. Len(transit) - 1 : ids'[k] = ids[k + 1]
    <3>1. DOMAIN transit' = 1 .. Len(transit) - 1
      BY <1>1, <1>2, <2>1
    <3>2. \A k \in 1 .. Len(transit) - 1 : k + 1 \in 1 .. Len(transit)
      BY <1>2
    <3>3. QED BY <1>2, <2>1, <3>1, <3>2 DEF ids
  <2> HIDE DEF t
  <2>4. ids' = t
    BY <1>3, <2>1, <2>2, <2>3
  <2>5. QED BY <2>4 DEF t
<1>6. QED BY <1>1, <1>4, <1>5 DEF Stream!HandOver, ids

LEMMA StepIsStreamStep ==
  ASSUME ReadBufferInv, ReadBufferInv', [ReadBufferNext]_vars
  PROVE  \/ Stream!Send \/ Stream!HandOver \/ Stream!Lose
         \/ UNCHANGED <<ids, handed, Whole>>
<1>1. ASSUME NEW len \in Lens, SendMsg(len) PROVE Stream!Send
  BY <1>1, SendIsSend DEF SendMsg
<1>2. CASE SendHeartBeatMsg
  BY <1>2, SendIsSend DEF SendHeartBeatMsg
<1>3. CASE Read \/ NothingToRead \/ TooShort \/ Incomplete
  BY <1>3 DEF Read, NothingToRead, TooShort, Incomplete, ids, Whole
<1>4. CASE NoRoom \/ ReleaseConnection \/ Misread \/ Compose
  BY <1>4 DEF NoRoom, ReleaseConnection, Misread, Looking, Compose, Whole, Stream!Lose
<1>5. CASE HandleMsg
  BY <1>5, HandleMsgIsHandOver
<1>6. CASE UNCHANGED vars
  BY <1>6 DEF vars, ids, Whole
<1>7. QED BY <1>1, <1>2, <1>3, <1>4, <1>5, <1>6 DEF ReadBufferNext

\* The handlers of server, client and gateway see the messages in the order
\* they were sent, each once, until the connection is lost: the framing code
\* implements the stream of messages that the protocol counts on.
THEOREM InOrderHolds == ReadBufferSpec => InOrder
<1>1. ReadBufferInit => Stream!StreamInit
  BY DEF ReadBufferInit, Stream!StreamInit, Whole
<1>2. ReadBufferInv /\ ReadBufferInv' /\ [ReadBufferNext]_vars =>
        [Stream!Send \/ Stream!HandOver \/ Stream!Lose]_<<ids, handed, ~Whole>>
  BY StepIsStreamStep
<1>3. QED
  BY <1>1, <1>2, ReadBufferInvHolds, PTL DEF ReadBufferSpec, InOrder, Stream!StreamSpec, ids
=============================================================================
