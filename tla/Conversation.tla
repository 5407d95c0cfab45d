---------------------------- MODULE Conversation ----------------------------
(***************************************************************************)
(* What the fields of the messages carry from one program to the next: a   *)
(* browser's request, typed into a form, through the gateway to the server *)
(* and its answer back; the filter that reaches the client; the log that   *)
(* the client uploads and the browser fetches.  One request is under way   *)
(* at a time: TraceServer, TraceSystem and CgiGateway model who may        *)
(* overtake whom, this module what the serialising and parsing in between  *)
(* keeps of the contents.                                                  *)
(***************************************************************************)
EXTENDS ProtoMessages

CONSTANTS FormText,    \* texts a browser can send in a form
          LoggedText,  \* texts a program passes to TLog
          Number,      \* what atol makes of a typed number: a long
          Time,        \* time_t of a request, not bounded by 2^31
          ConnFd,      \* descriptors of connections from nginx
          ContentMax,  \* sizeof(content) - 1 in UploadLog
          SetId,       \* TRACE_LOG_SET_ID
          MaxStored    \* bound: logs stored and not fetched

ASSUME ConversationAssumption ==
  /\ ContentMax \in Nat /\ SetId \in Int32 /\ MaxStored \in Nat
  /\ Number \subseteq Int64 /\ ConnFd \subseteq Int32 /\ Time \subseteq Nat
  /\ \A text \in FormText \cup LoggedText : text \in Seq(Byte)

VARIABLES stage,    \* how far the request under way has come
          asked,    \* what the browser sent, and fd and time of its request
          wire,     \* the message between the gateway or a client and the server
          push,     \* CFG_INFO_REQ messages on their way to the client
          logs,     \* the logs stored with the session's one configuration
          fetched,  \* what the last fetch took from them
          filter,   \* the client's filter of the session
          shown     \* the answer the gateway turned into a page

conversation == <<stage, asked, wire, push, logs, fetched, filter, shown>>

\* The session, the names of the client, and the password of the server.
Sid == <<"plain">>
Gns == <<"plain">>
IpPort == <<"plain", "plain">>
Pass == <<"plain">>
Ok == <<"plain", "plain">>
NotOk == <<"plain", "plain", "plain">>
ErrorCode == 1
NoFilter == [session_id |-> << >>]
NoAnswer == [ret |-> 0]

----------------------------------------------------------------------------
(* The gateway composes a request. *)

Asking(request, w) ==
  /\ stage = "idle" /\ push = << >>
  /\ stage' = "asked" /\ wire' = w /\ asked' = request
  /\ UNCHANGED <<push, logs, fetched, filter, shown>>

LoginReq_Sent(password, fd, time) ==
  Asking([kind |-> "login", texts |-> {password}, fd |-> fd, time |-> time],
         LoginReq_Serialize(LoginReq(password, fd, time)))

SetConfig_Sent(session, p1, p2, p3, fd, time) ==
  Asking([kind |-> "config", texts |-> {session, p3}, p2 |-> p2, p3 |-> p3,
          fd |-> fd, time |-> time],
         CfgInfoReq_Serialize(
           [CfgInfoReq(session, Int32Of(p1), p2, p3) EXCEPT
              !.gns_name = Gns, !.fd = Int32Of(fd),
              !.req_begin_time = Int32Of(time)]))

GetLog_Sent(session, seq, fd, time) ==
  Asking([kind |-> "fetch", texts |-> {session}, fd |-> fd, time |-> time],
         GetLogReq_Serialize(GetLogReq(session, Gns, seq, fd, time)))

----------------------------------------------------------------------------
(* The server answers what it can read and drops the rest. *)

Dropped ==
  stage' = "dropped" /\ UNCHANGED <<asked, wire, push, logs, fetched, filter, shown>>

LoginLogic ==
  LET req == LoginReq_Parse(wire) IN
  /\ stage = "asked" /\ asked.kind = "login"
  /\ IF req.ok
     THEN /\ stage' = "answered"
          /\ wire' = LoginResp_Serialize(
                       IF req.msg.password = Pass
                       THEN LoginResp(Sid, req.msg.fd, req.msg.req_begin_time, 0, Ok)
                       ELSE LoginResp(<< >>, req.msg.fd, req.msg.req_begin_time,
                                      ErrorCode, NotOk))
          /\ UNCHANGED <<asked, push, logs, fetched, filter, shown>>
     ELSE Dropped

SetConfig ==
  LET req == CfgInfoReq_Parse(wire)
      cfg == req.msg
      found == cfg.session_id = Sid IN
  /\ stage = "asked" /\ asked.kind = "config"
  /\ IF req.ok
     THEN /\ stage' = "answered"
          /\ logs' = IF found THEN << >> ELSE logs
          /\ push' = IF found
                     THEN <<CfgInfoReq_Serialize(
                              CfgInfoReq(Sid, cfg.p1, cfg.p2, cfg.p3))>>
                     ELSE << >>
          /\ wire' = CfgInfoResp_Serialize(
                       CfgInfoResp(IF found THEN 0 ELSE ErrorCode,
                                   IF found THEN << >> ELSE NotOk,
                                   cfg.fd, cfg.req_begin_time))
          /\ UNCHANGED <<asked, fetched, filter, shown>>
     ELSE Dropped

\* Mutant: the answer names the wrong connection.
AnswerAnyone(ret, ret_msg, req, texts) ==
  GetLogResp(ret, ret_msg, 0, req.req_begin_time, texts)

GetLogAnswer(ret, ret_msg, req, texts) ==
  GetLogResp(ret, ret_msg, req.fd, req.req_begin_time, texts)

GetLog ==
  LET req == GetLogReq_Parse(wire)
      found == req.msg.session_id = Sid IN
  /\ stage = "asked" /\ asked.kind = "fetch"
  /\ IF req.ok
     THEN /\ stage' = "answered"
          /\ fetched' = IF found THEN logs ELSE << >>
          /\ logs' = IF found THEN << >> ELSE logs
          /\ wire' = GetLogResp_Serialize(
                       IF found
                       THEN GetLogAnswer(0, << >>, req.msg,
                                         <<LogText(<< >>, Gns, logs)>>)
                       ELSE GetLogAnswer(ErrorCode, NotOk, req.msg, << >>))
          /\ UNCHANGED <<asked, push, filter, shown>>
     ELSE Dropped

----------------------------------------------------------------------------
(* The gateway reads the answer and looks for the connection it is for. *)

CheckConn(msg) ==
  msg.fd = asked.fd /\ msg.req_begin_time = asked.time

Reading(kind, resp) ==
  /\ stage = "answered" /\ asked.kind = kind
  /\ stage' = IF ~resp.ok THEN "refused"
              ELSE IF CheckConn(resp.msg) THEN "shown" ELSE "mismatch"
  /\ shown' = IF stage' = "shown" THEN resp.msg ELSE NoAnswer
  /\ UNCHANGED <<asked, wire, push, logs, fetched, filter>>

LoginResp_Read == Reading("login", LoginResp_Parse(wire))
SetConfigResp_Read == Reading("config", CfgInfoResp_Parse(wire))
GetLogResp_Read == Reading("fetch", GetLogResp_Parse(wire))

\* The browser reads its page, or gives up.
NextRequest ==
  /\ stage \in {"shown", "mismatch", "refused", "dropped"}
  /\ stage' = "idle" /\ wire' = << >> /\ shown' = NoAnswer /\ fetched' = << >>
  /\ UNCHANGED <<asked, push, logs, filter>>

----------------------------------------------------------------------------
(* The client *)

\* Mutant: the second number is kept in an int.
SavedNarrow(cfg) ==
  [session_id |-> cfg.session_id, p1 |-> cfg.p1, p2 |-> Int32Of(cfg.p2), p3 |-> cfg.p3]

Saved(cfg) ==
  [session_id |-> cfg.session_id, p1 |-> cfg.p1, p2 |-> cfg.p2, p3 |-> cfg.p3]

setConfig ==
  LET req == CfgInfoReq_Parse(Head(push)) IN
  /\ push # << >>
  /\ push' = Tail(push)
  /\ filter' = IF req.ok /\ req.msg.p1 = SetId THEN Saved(req.msg) ELSE filter
  /\ UNCHANGED <<stage, asked, wire, logs, fetched, shown>>

\* vsnprintf writes what fits, in bytes, after the time and the place.
Content(text) == <<"plain">> \o SubSeq(text, 1, Min({Len(text), ContentMax}))

UploadLog(text) ==
  /\ stage = "idle" /\ filter # NoFilter
  /\ stage' = "uploaded"
  /\ wire' = LogInfo_Serialize(LogInfo(Gns, IpPort, filter.session_id, Content(text)))
  /\ UNCHANGED <<asked, push, logs, fetched, filter, shown>>

\* Mutant: a line is cut to the length of a content.
LineCut(msg) == SubSeq(msg.gns_name \o <<"plain">> \o msg.ip_port \o msg.log_text,
                       1, ContentMax + 4)

Line(msg) == msg.gns_name \o <<"plain">> \o msg.ip_port \o msg.log_text

SaveLog ==
  LET req == LogInfo_Parse(wire) IN
  /\ stage = "uploaded" /\ stage' = "idle" /\ wire' = << >>
  /\ logs' = IF /\ req.ok /\ req.msg.session_id = Sid
                /\ req.msg.gns_name = Gns /\ Len(logs) < MaxStored
             THEN Append(logs, Line(req.msg)) ELSE logs
  /\ UNCHANGED <<asked, push, fetched, filter, shown>>

----------------------------------------------------------------------------
ConversationInit ==
  /\ stage = "idle" /\ asked = [kind |-> "none"] /\ wire = << >>
  /\ push = << >> /\ logs = << >> /\ fetched = << >>
  /\ filter = NoFilter /\ shown = NoAnswer

Ask ==
  \E fd \in ConnFd, time \in Time, text \in FormText :
    \/ LoginReq_Sent(text, fd, time)
    \/ \E session \in FormText, p1, p2 \in Number :
         SetConfig_Sent(session, p1, p2, text, fd, time)
    \/ \E seq \in Number : GetLog_Sent(text, seq, fd, time)

ConversationNext ==
  \/ Ask
  \/ LoginLogic \/ SetConfig \/ GetLog
  \/ LoginResp_Read \/ SetConfigResp_Read \/ GetLogResp_Read
  \/ NextRequest
  \/ setConfig \/ SaveLog
  \/ \E text \in LoggedText : UploadLog(text)

ConversationSpec == ConversationInit /\ [][ConversationNext]_conversation

----------------------------------------------------------------------------
(* Properties *)

\* The only requests that stay without an answer are those with a text that is
\* not UTF-8, which SerializeToString lets pass and ParseFromString does not.
\* A text the server took from one message is accepted again inside another:
\* no log it stored makes the gateway refuse the answer that carries it (and,
\* with it, every other log of the same fetch).
OnlyMalformedIsLost ==
  /\ stage = "dropped" => \E text \in asked.texts : ~Utf8(text)
  /\ stage \in {"answered", "shown"} => \A text \in asked.texts : Utf8(text)
  /\ stage # "refused"

\* An answer finds the connection its request came on exactly when the
\* request's time_t fits the int32 field that carried it.
AnswersComeHome ==
  stage \in {"shown", "mismatch"} =>
    (stage = "shown" <=> asked.time < Half32)

\* The filter a client starts to work with is the one typed into the form:
\* the same long p2 and the same text p3, through two messages.
FilterAsTyped ==
  [][filter' # filter => filter' = [session_id |-> Sid, p1 |-> SetId,
                                    p2 |-> asked.p2, p3 |-> asked.p3]]_conversation
=============================================================================
