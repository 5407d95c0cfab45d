----------------------------- MODULE PyMessages ----------------------------
(***************************************************************************)
(* The same twelve messages as the Python client knows them: the field     *)
(* descriptors of trace_client/python/trace_pb2.py (type 9 is string, 5    *)
(* int32, 3 int64, 11 message; label 3 is repeated), from which the Python *)
(* library parses and serialises.  They stand in the order of their        *)
(* numbers, which have no gap in any of the messages.                      *)
(***************************************************************************)
EXTENDS ProtoWire

PyLoginReq ==
  <<Field("user_name", "string"), Field("password", "string"),
    Field("fd", "int32"), Field("req_begin_time", "int32")>>

PyLoginResp ==
  <<Field("session_id", "string"), Field("fd", "int32"),
    Field("req_begin_time", "int32"), Field("ret", "int32"),
    Field("ret_msg", "string")>>

PyGnsInfoReq ==
  <<Field("gns_name", "strings"), Field("ip_port", "strings")>>

\* Mutant: the numbers of p2 and p3 are swapped.
PyCfgInfoReqSwapped ==
  <<Field("session_id", "string"), Field("p1", "int32"), Field("p3", "string"),
    Field("p2", "int64"), Field("gns_name", "string"),
    Field("ip_port", "string"), Field("fd", "int32"),
    Field("req_begin_time", "int32")>>

PyCfgInfoReq ==
  <<Field("session_id", "string"), Field("p1", "int32"), Field("p2", "int64"),
    Field("p3", "string"), Field("gns_name", "string"),
    Field("ip_port", "string"), Field("fd", "int32"),
    Field("req_begin_time", "int32")>>

PyCfgInfoResp ==
  <<Field("ret", "int32"), Field("ret_msg", "string"), Field("fd", "int32"),
    Field("req_begin_time", "int32")>>

PyLogInfo ==
  <<Field("gns_name", "string"), Field("ip_port", "string"),
    Field("session_id", "string"), Field("log_text", "string")>>

PyGetLogReq ==
  <<Field("session_id", "string"), Field("gns_name", "string"),
    Field("ip_port", "string"), Field("seq", "int32"), Field("fd", "int32"),
    Field("req_begin_time", "int32")>>

PyGetLogRespOld ==
  <<Field("ret", "int32"), Field("ret_msg", "string"),
    Field("log_text", "string"), Field("cur_len", "int32"),
    Field("fd", "int32"), Field("req_begin_time", "int32")>>

PyLogText ==
  <<Field("ip_port", "string"), Field("gns_name", "string"),
    Field("text", "strings")>>

PyEmptyLogText ==
  [ip_port |-> << >>, gns_name |-> << >>, text |-> << >>, unknown |-> << >>]

PyGetLogResp ==
  <<Field("ret", "int32"), Field("ret_msg", "string"), Field("fd", "int32"),
    Field("req_begin_time", "int32"),
    Repeated("log_text", PyEmptyLogText, PyLogText)>>

PyHeartBeatMsg ==
  <<Field("reserve", "string")>>

PyClearSessionReq ==
  <<Field("session_id", "string")>>

----------------------------------------------------------------------------
(***************************************************************************)
(* What the Python library writes for a flat message m with those          *)
(* descriptors: the fields in the order of their numbers, a field with its *)
(* default value left out, then the fields it did not know.                *)
(***************************************************************************)
PyField(field, num, value) ==
  CASE field.type = "string" -> StringField(num, value)
    [] field.type = "strings" -> StringFields(num, value)
    [] OTHER -> IntField(num, value)

PySerialize(fields, m) ==
  FoldLeft(LAMBDA w, num : w \o PyField(fields[num], num, m[fields[num].name]),
           << >>, [num \in DOMAIN fields |-> num]) \o m.unknown

\* Reading: what the descriptors say decides, as in the generated C++ code.
PyParse(fields, empty, wire) == ParseFrom(empty, fields, wire)
============================================================================
