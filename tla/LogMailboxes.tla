---------------------------- MODULE LogMailboxes ----------------------------
(***************************************************************************)
(* What the trace server promises about the logs it stores, without        *)
(* vectors, cursors, connections or timers.  A session owns a list of      *)
(* mailboxes.  A mailbox selects uploads by service name, by machine       *)
(* address or by both, and holds what was uploaded for it and not fetched, *)
(* oldest first.                                                           *)
(*   - a fetch hands out a prefix of every mailbox of the session, once,   *)
(*     and no more than Batch logs in all;                                 *)
(*   - an upload is stored once per selector it meets; it may be refused   *)
(*     only when the mailbox, or an earlier one it also meets, is full;    *)
(*   - logs leave a mailbox by no other way, except with the mailbox:      *)
(*     replaced by one with the same selector, or its session forgotten.   *)
(***************************************************************************)
EXTENDS Ordered, Sequences

CONSTANTS Session, Name, Addr, Text,
          None,       \* no name, or no address, selected
          Capacity,   \* of a mailbox
          Batch       \* of a fetch

VARIABLES boxes,   \* session -> its mailboxes, in order
          given    \* what the last step handed out, per mailbox

vars == <<boxes, given>>

Init == boxes = [s \in {} |-> << >>] /\ given = << >>

Open(s) ==
  /\ s \notin DOMAIN boxes
  /\ boxes' = [r \in DOMAIN boxes \cup {s} |->
                 IF r = s THEN << >> ELSE boxes[r]]
  /\ given' = << >>

\* A new, empty mailbox takes the place of those it shares a selector with.
Arrange(s, name, addr) ==
  LET kept == InOrder({k \in {s} \X (1 .. Len(boxes[s])) :
                         /\ boxes[s][k[2]].name \notin {name} \ {None}
                         /\ boxes[s][k[2]].addr \notin {addr} \ {None}})
  IN /\ boxes' = [boxes EXCEPT ![s] =
                    Append([i \in DOMAIN kept |-> @[kept[i][2]]],
                           [name |-> name, addr |-> addr, unread |-> << >>])]
     /\ given' = << >>

Selected(b, name, addr) ==
  Cardinality({x \in {1} : b.name = name} \cup {x \in {2} : b.addr = addr})

Copies(t, n) == [i \in 1 .. n |-> t]

\* The mailboxes bs after n[i] copies of t came to the i-th, or n[i] logs left it.
Filled(bs, t, n) ==
  [i \in 1 .. Len(bs) |-> [bs[i] EXCEPT !.unread = @ \o Copies(t, n[i])]]
Emptied(bs, n) ==
  [i \in 1 .. Len(bs) |-> [bs[i] EXCEPT !.unread = SubSeq(@, n[i] + 1, Len(@))]]

Upload(s, name, addr, t) ==
  \E n \in [1 .. Len(boxes[s]) -> 0 .. 2] :
    /\ boxes' = [boxes EXCEPT ![s] = Filled(@, t, n)]
    /\ \A i \in 1 .. Len(boxes[s]) :
         LET wanted(j) == Selected(boxes[s][j], name, addr)
         IN /\ n[i] <= wanted(i)
            /\ Len(boxes'[s][i].unread) <= Capacity
            /\ n[i] < wanted(i) =>
                 \E j \in 1 .. i : /\ wanted(j) > 0
                                   /\ Len(boxes'[s][j].unread) = Capacity
    /\ given' = << >>

Fetch(s) ==
  \E n \in [1 .. Len(boxes[s]) -> 0 .. Batch] :
    /\ \A i \in 1 .. Len(boxes[s]) : n[i] <= Len(boxes[s][i].unread)
    /\ Cardinality(UNION {{i} \X (1 .. n[i]) : i \in DOMAIN n}) <= Batch
    /\ boxes' = [boxes EXCEPT ![s] = Emptied(@, n)]
    /\ given' = [i \in 1 .. Len(boxes[s]) |->
                   SubSeq(boxes[s][i].unread, 1, n[i])]

\* Expired sessions, or all of them when the process stops.
Forget(S) ==
  /\ boxes' = [s \in DOMAIN boxes \ S |-> boxes[s]]
  /\ given' = << >>

Next ==
  \/ \E s \in Session : Open(s)
  \/ \E S \in SUBSET DOMAIN boxes : Forget(S)
  \/ \E s \in DOMAIN boxes :
       \/ \E name \in Name \cup {None}, addr \in Addr \cup {None} :
            Arrange(s, name, addr)
       \/ \E name \in Name, addr \in Addr, t \in Text :
            Upload(s, name, addr, t)
       \/ Fetch(s)

Spec == Init /\ [][Next]_vars
=============================================================================
