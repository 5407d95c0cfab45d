--------------------------- MODULE ProtoMessages ---------------------------
(***************************************************************************)
(* The twelve messages the programs exchange, as common/trace.proto names  *)
(* their fields and common/trace.pb.h and trace.pb.cc read and write them. *)
(* Per message, in the order of the generated code: the values a variable  *)
(* of the class can have, the one its constructor and Clear leave, what    *)
(* _InternalParse does with a field (its cases in the order of the         *)
(* numbers, which have no gap in any of the messages), what                *)
(* _InternalSerialize writes, the length ByteSizeLong announces, MergeFrom *)
(* and, for a message a handler composes, its set_ accessors.              *)
(***************************************************************************)
EXTENDS ProtoWire

----------------------------------------------------------------------------
(* LoginReq: gateway -> server: a browser logs in. *)

LoginReqMsg == [user_name : Seq(Byte), password : Seq(Byte), fd : Int32,
  req_begin_time : Int32, unknown : Seq(Token)]

EmptyLoginReq == [user_name |-> << >>, password |-> << >>, fd |-> 0,
  req_begin_time |-> 0, unknown |-> << >>]

LoginReq_Cases ==
  <<Field("user_name", "string"), Field("password", "string"),
    Field("fd", "int32"), Field("req_begin_time", "int32")>>

LoginReq_Serialize(m) ==
  StringField(1, m.user_name) \o StringField(2, m.password) \o
    IntField(3, m.fd) \o IntField(4, m.req_begin_time) \o m.unknown

LoginReq_ByteSize(m) ==
  StringSize(m.user_name) + StringSize(m.password) + IntSize(m.fd) +
    IntSize(m.req_begin_time) + UnknownSize(m.unknown)

LoginReq_MergeFrom(to, from) == [
  user_name |-> Given(to.user_name, from.user_name),
  password |-> Given(to.password, from.password),
  fd |-> NonZero(to.fd, from.fd),
  req_begin_time |-> NonZero(to.req_begin_time, from.req_begin_time),
  unknown |-> to.unknown \o from.unknown]

LoginReq(password, fd, req_begin_time) ==
  [EmptyLoginReq EXCEPT
    !.password = password, !.fd = Int32Of(fd),
    !.req_begin_time = Int32Of(req_begin_time)]

----------------------------------------------------------------------------
(* LoginResp: server -> gateway: the new session. *)

LoginRespMsg == [session_id : Seq(Byte), fd : Int32,
  req_begin_time : Int32, ret : Int32, ret_msg : Seq(Byte),
  unknown : Seq(Token)]

EmptyLoginResp == [session_id |-> << >>, fd |-> 0, req_begin_time |-> 0,
  ret |-> 0, ret_msg |-> << >>, unknown |-> << >>]

LoginResp_Cases ==
  <<Field("session_id", "string"), Field("fd", "int32"),
    Field("req_begin_time", "int32"), Field("ret", "int32"),
    Field("ret_msg", "string")>>

LoginResp_Serialize(m) ==
  StringField(1, m.session_id) \o IntField(2, m.fd) \o
    IntField(3, m.req_begin_time) \o IntField(4, m.ret) \o
    StringField(5, m.ret_msg) \o m.unknown

LoginResp_ByteSize(m) ==
  StringSize(m.session_id) + IntSize(m.fd) + IntSize(m.req_begin_time) +
    IntSize(m.ret) + StringSize(m.ret_msg) + UnknownSize(m.unknown)

LoginResp_MergeFrom(to, from) == [
  session_id |-> Given(to.session_id, from.session_id),
  fd |-> NonZero(to.fd, from.fd),
  req_begin_time |-> NonZero(to.req_begin_time, from.req_begin_time),
  ret |-> NonZero(to.ret, from.ret),
  ret_msg |-> Given(to.ret_msg, from.ret_msg),
  unknown |-> to.unknown \o from.unknown]

LoginResp(session_id, fd, req_begin_time, ret, ret_msg) ==
  [EmptyLoginResp EXCEPT
    !.session_id = session_id, !.fd = Int32Of(fd),
    !.req_begin_time = Int32Of(req_begin_time), !.ret = Int32Of(ret),
    !.ret_msg = ret_msg]

----------------------------------------------------------------------------
(* GnsInfoReq: client -> server: who the client is. *)

GnsInfoReqMsg == [gns_name : Seq(Seq(Byte)), ip_port : Seq(Seq(Byte)),
  unknown : Seq(Token)]

EmptyGnsInfoReq == [gns_name |-> << >>, ip_port |-> << >>,
  unknown |-> << >>]

GnsInfoReq_Cases ==
  <<Field("gns_name", "strings"), Field("ip_port", "strings")>>

GnsInfoReq_Serialize(m) ==
  StringFields(1, m.gns_name) \o StringFields(2, m.ip_port) \o m.unknown

GnsInfoReq_ByteSize(m) ==
  StringsSize(m.gns_name) + StringsSize(m.ip_port) + UnknownSize(m.unknown)

GnsInfoReq_MergeFrom(to, from) == [
  gns_name |-> to.gns_name \o from.gns_name,
  ip_port |-> to.ip_port \o from.ip_port,
  unknown |-> to.unknown \o from.unknown]

----------------------------------------------------------------------------
(* CfgInfoReq: gateway -> server and server -> client: a filter. *)

CfgInfoReqMsg == [session_id : Seq(Byte), p1 : Int32, p2 : Int64,
  p3 : Seq(Byte), gns_name : Seq(Byte), ip_port : Seq(Byte), fd : Int32,
  req_begin_time : Int32, unknown : Seq(Token)]

EmptyCfgInfoReq == [session_id |-> << >>, p1 |-> 0, p2 |-> 0, p3 |-> << >>,
  gns_name |-> << >>, ip_port |-> << >>, fd |-> 0, req_begin_time |-> 0,
  unknown |-> << >>]

\* Mutant: p2 is an int32.
CfgInfoReq_CasesNarrow ==
  <<Field("session_id", "string"), Field("p1", "int32"), Field("p2", "int32"),
    Field("p3", "string"), Field("gns_name", "string"),
    Field("ip_port", "string"), Field("fd", "int32"),
    Field("req_begin_time", "int32")>>

CfgInfoReq_Cases ==
  <<Field("session_id", "string"), Field("p1", "int32"), Field("p2", "int64"),
    Field("p3", "string"), Field("gns_name", "string"),
    Field("ip_port", "string"), Field("fd", "int32"),
    Field("req_begin_time", "int32")>>

CfgInfoReq_Serialize(m) ==
  StringField(1, m.session_id) \o IntField(2, m.p1) \o IntField(3, m.p2) \o
    StringField(4, m.p3) \o StringField(5, m.gns_name) \o
    StringField(6, m.ip_port) \o IntField(7, m.fd) \o
    IntField(8, m.req_begin_time) \o m.unknown

CfgInfoReq_ByteSize(m) ==
  StringSize(m.session_id) + IntSize(m.p1) + IntSize(m.p2) +
    StringSize(m.p3) + StringSize(m.gns_name) + StringSize(m.ip_port) +
    IntSize(m.fd) + IntSize(m.req_begin_time) + UnknownSize(m.unknown)

CfgInfoReq_MergeFrom(to, from) == [
  session_id |-> Given(to.session_id, from.session_id),
  p1 |-> NonZero(to.p1, from.p1), p2 |-> NonZero(to.p2, from.p2),
  p3 |-> Given(to.p3, from.p3),
  gns_name |-> Given(to.gns_name, from.gns_name),
  ip_port |-> Given(to.ip_port, from.ip_port),
  fd |-> NonZero(to.fd, from.fd),
  req_begin_time |-> NonZero(to.req_begin_time, from.req_begin_time),
  unknown |-> to.unknown \o from.unknown]

CfgInfoReq(session_id, p1, p2, p3) ==
  [EmptyCfgInfoReq EXCEPT
    !.session_id = session_id, !.p1 = Int32Of(p1), !.p2 = p2, !.p3 = p3]

----------------------------------------------------------------------------
(* CfgInfoResp: server -> gateway: whether the filter was taken. *)

CfgInfoRespMsg == [ret : Int32, ret_msg : Seq(Byte), fd : Int32,
  req_begin_time : Int32, unknown : Seq(Token)]

EmptyCfgInfoResp == [ret |-> 0, ret_msg |-> << >>, fd |-> 0,
  req_begin_time |-> 0, unknown |-> << >>]

CfgInfoResp_Cases ==
  <<Field("ret", "int32"), Field("ret_msg", "string"), Field("fd", "int32"),
    Field("req_begin_time", "int32")>>

CfgInfoResp_Serialize(m) ==
  IntField(1, m.ret) \o StringField(2, m.ret_msg) \o IntField(3, m.fd) \o
    IntField(4, m.req_begin_time) \o m.unknown

CfgInfoResp_ByteSize(m) ==
  IntSize(m.ret) + StringSize(m.ret_msg) + IntSize(m.fd) +
    IntSize(m.req_begin_time) + UnknownSize(m.unknown)

CfgInfoResp_MergeFrom(to, from) == [ret |-> NonZero(to.ret, from.ret),
  ret_msg |-> Given(to.ret_msg, from.ret_msg),
  fd |-> NonZero(to.fd, from.fd),
  req_begin_time |-> NonZero(to.req_begin_time, from.req_begin_time),
  unknown |-> to.unknown \o from.unknown]

CfgInfoResp(ret, ret_msg, fd, req_begin_time) ==
  [EmptyCfgInfoResp EXCEPT
    !.ret = Int32Of(ret), !.ret_msg = ret_msg, !.fd = Int32Of(fd),
    !.req_begin_time = Int32Of(req_begin_time)]

----------------------------------------------------------------------------
(* LogInfo: client -> server: one log. *)

LogInfoMsg == [gns_name : Seq(Byte), ip_port : Seq(Byte),
  session_id : Seq(Byte), log_text : Seq(Byte), unknown : Seq(Token)]

EmptyLogInfo == [gns_name |-> << >>, ip_port |-> << >>,
  session_id |-> << >>, log_text |-> << >>, unknown |-> << >>]

LogInfo_Cases ==
  <<Field("gns_name", "string"), Field("ip_port", "string"),
    Field("session_id", "string"), Field("log_text", "string")>>

LogInfo_Serialize(m) ==
  StringField(1, m.gns_name) \o StringField(2, m.ip_port) \o
    StringField(3, m.session_id) \o StringField(4, m.log_text) \o m.unknown

LogInfo_ByteSize(m) ==
  StringSize(m.gns_name) + StringSize(m.ip_port) +
    StringSize(m.session_id) + StringSize(m.log_text) +
    UnknownSize(m.unknown)

LogInfo_MergeFrom(to, from) == [
  gns_name |-> Given(to.gns_name, from.gns_name),
  ip_port |-> Given(to.ip_port, from.ip_port),
  session_id |-> Given(to.session_id, from.session_id),
  log_text |-> Given(to.log_text, from.log_text),
  unknown |-> to.unknown \o from.unknown]

LogInfo(gns_name, ip_port, session_id, log_text) ==
  [EmptyLogInfo EXCEPT
    !.gns_name = gns_name, !.ip_port = ip_port, !.session_id = session_id,
    !.log_text = log_text]

----------------------------------------------------------------------------
(* GetLogReq: gateway -> server: a browser fetches its logs. *)

GetLogReqMsg == [session_id : Seq(Byte), gns_name : Seq(Byte),
  ip_port : Seq(Byte), seq : Int32, fd : Int32, req_begin_time : Int32,
  unknown : Seq(Token)]

EmptyGetLogReq == [session_id |-> << >>, gns_name |-> << >>,
  ip_port |-> << >>, seq |-> 0, fd |-> 0, req_begin_time |-> 0,
  unknown |-> << >>]

GetLogReq_Cases ==
  <<Field("session_id", "string"), Field("gns_name", "string"),
    Field("ip_port", "string"), Field("seq", "int32"), Field("fd", "int32"),
    Field("req_begin_time", "int32")>>

GetLogReq_Serialize(m) ==
  StringField(1, m.session_id) \o StringField(2, m.gns_name) \o
    StringField(3, m.ip_port) \o IntField(4, m.seq) \o IntField(5, m.fd) \o
    IntField(6, m.req_begin_time) \o m.unknown

GetLogReq_ByteSize(m) ==
  StringSize(m.session_id) + StringSize(m.gns_name) +
    StringSize(m.ip_port) + IntSize(m.seq) + IntSize(m.fd) +
    IntSize(m.req_begin_time) + UnknownSize(m.unknown)

GetLogReq_MergeFrom(to, from) == [
  session_id |-> Given(to.session_id, from.session_id),
  gns_name |-> Given(to.gns_name, from.gns_name),
  ip_port |-> Given(to.ip_port, from.ip_port),
  seq |-> NonZero(to.seq, from.seq), fd |-> NonZero(to.fd, from.fd),
  req_begin_time |-> NonZero(to.req_begin_time, from.req_begin_time),
  unknown |-> to.unknown \o from.unknown]

GetLogReq(session_id, gns_name, seq, fd, req_begin_time) ==
  [EmptyGetLogReq EXCEPT
    !.session_id = session_id, !.gns_name = gns_name, !.seq = Int32Of(seq),
    !.fd = Int32Of(fd), !.req_begin_time = Int32Of(req_begin_time)]

----------------------------------------------------------------------------
(* GetLogRespOld: no program of the repository sends it. *)

GetLogRespOldMsg == [ret : Int32, ret_msg : Seq(Byte),
  log_text : Seq(Byte), cur_len : Int32, fd : Int32,
  req_begin_time : Int32, unknown : Seq(Token)]

EmptyGetLogRespOld == [ret |-> 0, ret_msg |-> << >>, log_text |-> << >>,
  cur_len |-> 0, fd |-> 0, req_begin_time |-> 0, unknown |-> << >>]

GetLogRespOld_Cases ==
  <<Field("ret", "int32"), Field("ret_msg", "string"),
    Field("log_text", "string"), Field("cur_len", "int32"),
    Field("fd", "int32"), Field("req_begin_time", "int32")>>

GetLogRespOld_Serialize(m) ==
  IntField(1, m.ret) \o StringField(2, m.ret_msg) \o
    StringField(3, m.log_text) \o IntField(4, m.cur_len) \o
    IntField(5, m.fd) \o IntField(6, m.req_begin_time) \o m.unknown

GetLogRespOld_ByteSize(m) ==
  IntSize(m.ret) + StringSize(m.ret_msg) + StringSize(m.log_text) +
    IntSize(m.cur_len) + IntSize(m.fd) + IntSize(m.req_begin_time) +
    UnknownSize(m.unknown)

GetLogRespOld_MergeFrom(to, from) == [ret |-> NonZero(to.ret, from.ret),
  ret_msg |-> Given(to.ret_msg, from.ret_msg),
  log_text |-> Given(to.log_text, from.log_text),
  cur_len |-> NonZero(to.cur_len, from.cur_len),
  fd |-> NonZero(to.fd, from.fd),
  req_begin_time |-> NonZero(to.req_begin_time, from.req_begin_time),
  unknown |-> to.unknown \o from.unknown]

----------------------------------------------------------------------------
(* LogText: the logs of one configuration, inside GetLogResp. *)

LogTextMsg == [ip_port : Seq(Byte), gns_name : Seq(Byte),
  text : Seq(Seq(Byte)), unknown : Seq(Token)]

EmptyLogText == [ip_port |-> << >>, gns_name |-> << >>, text |-> << >>,
  unknown |-> << >>]

LogText_Cases ==
  <<Field("ip_port", "string"), Field("gns_name", "string"),
    Field("text", "strings")>>

LogText_Serialize(m) ==
  StringField(1, m.ip_port) \o StringField(2, m.gns_name) \o
    StringFields(3, m.text) \o m.unknown

LogText_ByteSize(m) ==
  StringSize(m.ip_port) + StringSize(m.gns_name) + StringsSize(m.text) +
    UnknownSize(m.unknown)

LogText_MergeFrom(to, from) == [
  ip_port |-> Given(to.ip_port, from.ip_port),
  gns_name |-> Given(to.gns_name, from.gns_name),
  text |-> to.text \o from.text, unknown |-> to.unknown \o from.unknown]

LogText(ip_port, gns_name, text) ==
  [EmptyLogText EXCEPT
    !.ip_port = ip_port, !.gns_name = gns_name, !.text = text]

\* GetLogResp's repeated messages, each written even when it is empty.
LogTextFields(num, texts) ==
  [k \in DOMAIN texts |-> [num |-> num, kind |-> "message",
                            val |-> LogText_Serialize(texts[k])]]

LogTextsSize(texts) ==
  FoldLeft(LAMBDA size, t : size + 1 + Delimited(LogText_ByteSize(t)), 0, texts)

----------------------------------------------------------------------------
(* GetLogResp: server -> gateway: the logs fetched. *)

GetLogRespMsg == [ret : Int32, ret_msg : Seq(Byte), fd : Int32,
  req_begin_time : Int32, log_text : Seq(LogTextMsg), unknown : Seq(Token)]

EmptyGetLogResp == [ret |-> 0, ret_msg |-> << >>, fd |-> 0,
  req_begin_time |-> 0, log_text |-> << >>, unknown |-> << >>]

GetLogResp_Cases ==
  <<Field("ret", "int32"), Field("ret_msg", "string"), Field("fd", "int32"),
    Field("req_begin_time", "int32"),
    Repeated("log_text", EmptyLogText, LogText_Cases)>>

GetLogResp_Serialize(m) ==
  IntField(1, m.ret) \o StringField(2, m.ret_msg) \o IntField(3, m.fd) \o
    IntField(4, m.req_begin_time) \o LogTextFields(5, m.log_text) \o
    m.unknown

GetLogResp_ByteSize(m) ==
  IntSize(m.ret) + StringSize(m.ret_msg) + IntSize(m.fd) +
    IntSize(m.req_begin_time) + LogTextsSize(m.log_text) +
    UnknownSize(m.unknown)

GetLogResp_MergeFrom(to, from) == [ret |-> NonZero(to.ret, from.ret),
  ret_msg |-> Given(to.ret_msg, from.ret_msg),
  fd |-> NonZero(to.fd, from.fd),
  req_begin_time |-> NonZero(to.req_begin_time, from.req_begin_time),
  log_text |-> to.log_text \o from.log_text,
  unknown |-> to.unknown \o from.unknown]

GetLogResp(ret, ret_msg, fd, req_begin_time, log_text) ==
  [EmptyGetLogResp EXCEPT
    !.ret = Int32Of(ret), !.ret_msg = ret_msg, !.fd = Int32Of(fd),
    !.req_begin_time = Int32Of(req_begin_time), !.log_text = log_text]

----------------------------------------------------------------------------
(* HeartBeatMsg: in every direction: the sender is alive. *)

HeartBeatMsgMsg == [reserve : Seq(Byte), unknown : Seq(Token)]

EmptyHeartBeatMsg == [reserve |-> << >>, unknown |-> << >>]

HeartBeatMsg_Cases ==
  <<Field("reserve", "string")>>

HeartBeatMsg_Serialize(m) ==
  StringField(1, m.reserve) \o m.unknown

HeartBeatMsg_ByteSize(m) ==
  StringSize(m.reserve) + UnknownSize(m.unknown)

HeartBeatMsg_MergeFrom(to, from) == [
  reserve |-> Given(to.reserve, from.reserve),
  unknown |-> to.unknown \o from.unknown]

----------------------------------------------------------------------------
(* ClearSessionReq: server -> client: a session has ended. *)

ClearSessionReqMsg == [session_id : Seq(Byte), unknown : Seq(Token)]

EmptyClearSessionReq == [session_id |-> << >>, unknown |-> << >>]

ClearSessionReq_Cases ==
  <<Field("session_id", "string")>>

ClearSessionReq_Serialize(m) ==
  StringField(1, m.session_id) \o m.unknown

ClearSessionReq_ByteSize(m) ==
  StringSize(m.session_id) + UnknownSize(m.unknown)

ClearSessionReq_MergeFrom(to, from) == [
  session_id |-> Given(to.session_id, from.session_id),
  unknown |-> to.unknown \o from.unknown]
----------------------------------------------------------------------------
(* ParseFromString *)

LoginReq_Parse(wire) == ParseFrom(EmptyLoginReq, LoginReq_Cases, wire)
LoginResp_Parse(wire) == ParseFrom(EmptyLoginResp, LoginResp_Cases, wire)
GnsInfoReq_Parse(wire) == ParseFrom(EmptyGnsInfoReq, GnsInfoReq_Cases, wire)
CfgInfoReq_Parse(wire) == ParseFrom(EmptyCfgInfoReq, CfgInfoReq_Cases, wire)
CfgInfoResp_Parse(wire) == ParseFrom(EmptyCfgInfoResp, CfgInfoResp_Cases, wire)
LogInfo_Parse(wire) == ParseFrom(EmptyLogInfo, LogInfo_Cases, wire)
GetLogReq_Parse(wire) == ParseFrom(EmptyGetLogReq, GetLogReq_Cases, wire)
GetLogRespOld_Parse(wire) == ParseFrom(EmptyGetLogRespOld, GetLogRespOld_Cases, wire)
LogText_Parse(wire) == ParseFrom(EmptyLogText, LogText_Cases, wire)
GetLogResp_Parse(wire) == ParseFrom(EmptyGetLogResp, GetLogResp_Cases, wire)
HeartBeatMsg_Parse(wire) == ParseFrom(EmptyHeartBeatMsg, HeartBeatMsg_Cases, wire)
ClearSessionReq_Parse(wire) == ParseFrom(EmptyClearSessionReq, ClearSessionReq_Cases, wire)
============================================================================
