------------------------------- MODULE Buffer -------------------------------
(***************************************************************************)
(* muduo::net::Buffer as the gateway uses it (async_cgi/muduo/Buffer.h):   *)
(* a vector of bytes, of which those from readerIndex_ up to writerIndex_  *)
(* are waiting to be read.  retrieve moves the reader, append writes at    *)
(* the writer and, when the tail of the vector is too short, first moves   *)
(* the bytes to the front or makes the vector longer.                      *)
(*                                                                         *)
(* data[k + 1] is buffer_[k]; r and w are the two indices.                 *)
(***************************************************************************)
EXTENDS Integers, Sequences

CONSTANTS kCheapPrepend, kInitialSize

ASSUME BufferAssumption == kCheapPrepend \in Nat /\ kInitialSize \in Nat

\* Every buffer whose vector holds elements of E.
BufferOf(E) ==
  {b \in [data : Seq(E), r : Nat, w : Nat] :
     kCheapPrepend <= b.r /\ b.r <= b.w /\ b.w <= Len(b.data)}

NewBuffer == [data |-> [k \in 1 .. kCheapPrepend + kInitialSize |-> 0],
              r |-> kCheapPrepend, w |-> kCheapPrepend]

readableBytes(b) == b.w - b.r
writableBytes(b) == Len(b.data) - b.w
prependableBytes(b) == b.r

\* The bytes that wait, in order.
Content(b) == SubSeq(b.data, b.r + 1, b.w)

retrieveAll(b) == [b EXCEPT !.r = kCheapPrepend, !.w = kCheapPrepend]

retrieve(b, n) ==
  IF n < readableBytes(b) THEN [b EXCEPT !.r = @ + n] ELSE retrieveAll(b)

\* Mutant: a new vector, without what was there.
LongerFresh(b, n) ==
  [data |-> [k \in 1 .. b.w + n |-> 0], r |-> b.r, w |-> b.w]

\* buffer_.resize: what was there stays.
Longer(b, n) ==
  [data |-> [k \in 1 .. b.w + n |-> IF k <= Len(b.data) THEN b.data[k] ELSE 0],
   r |-> b.r, w |-> b.w]

\* std::copy to the front.
Moved(b) ==
  [data |-> [k \in DOMAIN b.data |->
               IF k > kCheapPrepend /\ k <= kCheapPrepend + readableBytes(b)
               THEN b.data[k - kCheapPrepend + b.r] ELSE b.data[k]],
   r |-> kCheapPrepend, w |-> kCheapPrepend + readableBytes(b)]

\* The condition under which the bytes are moved instead of the vector grown.
RoomInFront(b, n) ==
  writableBytes(b) + prependableBytes(b) >= n + kCheapPrepend

makeSpace(b, n) == IF RoomInFront(b, n) THEN Moved(b) ELSE Longer(b, n)

ensureWritableBytes(b, n) ==
  IF writableBytes(b) < n THEN makeSpace(b, n) ELSE b

\* std::copy to beginWrite, and hasWritten.
Written(b, s) ==
  [data |-> [k \in DOMAIN b.data |->
               IF k > b.w /\ k <= b.w + Len(s) THEN s[k - b.w] ELSE b.data[k]],
   r |-> b.r, w |-> b.w + Len(s)]

append(b, s) == Written(ensureWritableBytes(b, Len(s)), s)
=============================================================================
