------------------------------- MODULE Stall --------------------------------
(***************************************************************************)
(* Who waits for whom when socket buffers are full.  GM_CONN_INFO::        *)
(* WriteData, of libnframe, holds the connection's mutex and calls write   *)
(* again and again, 100 microseconds apart (AsyncCommThread.cpp:594,       *)
(* TraceClientThread.cpp:307), as long as the socket has no room.  The     *)
(* trace server writes in its only thread, which reads nothing meanwhile;  *)
(* in a client the application's threads and the network thread write to   *)
(* the same connection, and only the network thread reads.                 *)
(*                                                                         *)
(* A direction of a connection holds Cap messages.                      *)
(***************************************************************************)
EXTENDS Naturals, Sequences, SequencesExt

CONSTANTS Conn,  \* connections with clients: descriptors of the server
          Cap    \* room of a direction, in messages

ASSUME StallAssumption == Conn \subseteq Nat /\ Cap \in Nat \ {0}

VARIABLES client,    \* "runs"; "deaf": the network thread ended, the rest of
                     \* the process goes on; "gone": the process ended
          toServer, toClient,  \* the two directions: kinds of messages
          thread,    \* of a client's threads: what each is writing
          out        \* what the server has to write before it reads again

vars == <<client, toServer, toClient, thread, out>>

Thread == {"app", "net"}

\* A thread that is not in WriteData.
Idle == "none"

Full(chan, f) == Len(chan[f]) = Cap

----------------------------------------------------------------------------
(* A client *)

Calls(f, t, m) == thread' = [thread EXCEPT ![f][t] = m]

\* The application logs something that is traced.
TLogIf(f) ==
  /\ client[f] # "gone" /\ thread[f]["app"] = Idle
  /\ Calls(f, "app", "LOG_INFO_REQ")
  /\ UNCHANGED <<client, toServer, toClient, out>>

\* The heartbeat timer, in the network thread of the C++ client.
SendHeartBeatMsg(f) ==
  /\ client[f] = "runs" /\ thread[f]["net"] = Idle
  /\ Calls(f, "net", "HEARTBEAT_MSG")
  /\ UNCHANGED <<client, toServer, toClient, out>>

\* setConfig acknowledges a configuration with a log.
OnNetMsg(f) ==
  /\ client[f] = "runs" /\ thread[f]["net"] = Idle /\ toClient[f] # << >>
  /\ toClient' = [toClient EXCEPT ![f] = Tail(@)]
  /\ IF Head(toClient[f]) = "CFG_INFO_REQ"
       THEN Calls(f, "net", "LOG_INFO_REQ")
       ELSE UNCHANGED thread
  /\ UNCHANGED <<client, toServer, out>>

\* One of the threads gets the mutex, and its message the room it waits for.
WriteData(f, t) ==
  /\ thread[f][t] # Idle /\ ~Full(toServer, f)
  /\ toServer' = [toServer EXCEPT ![f] = Append(@, thread[f][t])]
  /\ thread' = [thread EXCEPT ![f][t] = Idle]
  /\ UNCHANGED <<client, toClient, out>>

\* An exception ends the network thread of a Python client outside a write.
GoesDeaf(f) ==
  /\ client[f] = "runs" /\ thread[f]["net"] = Idle
  /\ client' = [client EXCEPT ![f] = "deaf"]
  /\ UNCHANGED <<toServer, toClient, thread, out>>

\* The process ends: the kernel resets its connection.
Ends(f) ==
  /\ client[f] # "gone"
  /\ client' = [client EXCEPT ![f] = "gone"]
  /\ toServer' = [toServer EXCEPT ![f] = << >>]
  /\ toClient' = [toClient EXCEPT ![f] = << >>]
  /\ thread' = [thread EXCEPT ![f] = [t \in Thread |-> Idle]]
  /\ UNCHANGED out

----------------------------------------------------------------------------
(* The trace server *)

\* Mutant: the loop serves the first descriptor that is ready.
HandleFirst(f) ==
  /\ out = << >> /\ toServer[f] # << >>
  /\ \A g \in Conn : g < f => toServer[g] = << >>
  /\ toServer' = [toServer EXCEPT ![f] = Tail(@)]
  /\ out' = IF Head(toServer[f]) = "HEARTBEAT_MSG"
              THEN << <<f, "HEARTBEAT_MSG">> >> ELSE << >>
  /\ UNCHANGED <<client, toClient, thread>>

\* HandleMsg: a heartbeat is answered, a log is stored.
HandleMsg(f) ==
  /\ out = << >> /\ toServer[f] # << >>
  /\ toServer' = [toServer EXCEPT ![f] = Tail(@)]
  /\ out' = IF Head(toServer[f]) = "HEARTBEAT_MSG"
              THEN << <<f, "HEARTBEAT_MSG">> >> ELSE << >>
  /\ UNCHANGED <<client, toClient, thread>>

\* A browser sets a configuration: one message for each client, in the order
\* of the descriptors.
SendCfgInfo2Clients ==
  /\ out = << >>
  /\ LET fds == SetToSortSeq({f \in Conn : client[f] # "gone"}, <)
     IN  out' = [k \in DOMAIN fds |-> <<fds[k], "CFG_INFO_REQ">>]
  /\ UNCHANGED <<client, toServer, toClient, thread>>

\* Mutant: the loop over the clients does not get past one that disappeared.
SendMsgInsists ==
  /\ out # << >>
  /\ LET f == Head(out)[1] IN
       /\ client[f] # "gone" => ~Full(toClient, f)
       /\ out' = IF client[f] = "gone" THEN out ELSE Tail(out)
       /\ toClient' = IF client[f] = "gone" THEN toClient
                        ELSE [toClient EXCEPT ![f] = Append(@, Head(out)[2])]
  /\ UNCHANGED <<client, toServer, thread>>

\* WriteData in the server: the write to a connection that was reset fails.
SendMsg ==
  /\ out # << >>
  /\ LET f == Head(out)[1] IN
       /\ client[f] # "gone" => ~Full(toClient, f)
       /\ out' = Tail(out)
       /\ toClient' = IF client[f] = "gone" THEN toClient
                        ELSE [toClient EXCEPT ![f] = Append(@, Head(out)[2])]
  /\ UNCHANGED <<client, toServer, thread>>

----------------------------------------------------------------------------
StallInit ==
  /\ client = [f \in Conn |-> "runs"]
  /\ toServer = [f \in Conn |-> << >>] /\ toClient = [f \in Conn |-> << >>]
  /\ thread = [f \in Conn |-> [t \in Thread |-> Idle]]
  /\ out = << >>

StallNext ==
  \/ \E f \in Conn :
       \/ TLogIf(f) \/ SendHeartBeatMsg(f) \/ OnNetMsg(f)
       \/ GoesDeaf(f) \/ Ends(f)
       \/ HandleMsg(f)
       \/ \E t \in Thread : WriteData(f, t)
  \/ SendCfgInfo2Clients
  \/ SendMsg

StallSpec == StallInit /\ [][StallNext]_vars

(***************************************************************************)
(* A loop reads every descriptor that has input in each round, whatever    *)
(* else it does between rounds.  A network thread that waits for a mutex   *)
(* the application gives back, or for room that comes again and again,     *)
(* gets it; the application's threads have no such promise.                *)
(***************************************************************************)
StallFairness ==
  /\ WF_vars(SendMsg)
  /\ \A f \in Conn :
       /\ SF_vars(HandleMsg(f)) /\ SF_vars(OnNetMsg(f))
       /\ SF_vars(WriteData(f, "net"))

FairStallSpec == StallSpec /\ StallFairness

----------------------------------------------------------------------------
(* Properties *)

\* Nobody empties the direction from the server to f: its network thread has
\* ended, or is in WriteData itself, held up by a direction to the server
\* that is full.
Unread(f) ==
  \/ client[f] = "deaf"
  \/ thread[f]["net"] # Idle /\ Full(toServer, f)

\* The server and a client wait for each other, or the server for a client
\* that does not read.
Stuck ==
  /\ out # << >>
  /\ LET f == Head(out)[1] IN
       client[f] # "gone" /\ Full(toClient, f) /\ Unread(f)

Waiting(f) == \E t \in Thread : thread[f][t] # Idle

\* This is the only way in which the threads of any client stay in WriteData
\* for ever, those of the client that is stuck with the server and those of
\* all others: else a direction somebody waits to write to has room again.
RoomAgain ==
  \A f \in Conn : (Waiting(f) /\ Full(toServer, f)) ~> (~Full(toServer, f) \/ Stuck)

\* And the only way in which the server stays in its loop over the clients
\* that are to hear of a configuration.
ConfigsGoOut == (out # << >>) ~> (out = << >> \/ Stuck)
=============================================================================
