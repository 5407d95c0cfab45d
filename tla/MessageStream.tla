---------------------------- MODULE MessageStream ---------------------------
(***************************************************************************)
(* What a connection promises to the handlers of the programs: messages    *)
(* are handed over one at a time, in the order they were sent, none twice  *)
(* and none left out, until the connection is lost.                        *)
(***************************************************************************)
EXTENDS Naturals, Sequences

VARIABLES queue,   \* sent, not handed over yet
          handed,  \* the message handed over last
          lost     \* the connection is closed, or its bytes are garbled

StreamInit == queue = << >> /\ lost = FALSE

Send ==
  /\ Len(queue') = Len(queue) + 1 /\ SubSeq(queue', 1, Len(queue)) = queue
  /\ UNCHANGED <<handed, lost>>

HandOver ==
  /\ ~lost /\ queue # << >>
  /\ handed' = Head(queue) /\ queue' = Tail(queue)

Lose == ~lost /\ lost' = TRUE /\ UNCHANGED <<queue, handed>>

StreamSpec == StreamInit /\ [][Send \/ HandOver \/ Lose]_<<queue, handed, lost>>
=============================================================================
