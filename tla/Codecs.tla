------------------------------- MODULE Codecs ------------------------------
(***************************************************************************)
(* The codecs of ProtoMessages and PyMessages, probed: a step picks a      *)
(* message of one class, a second one to merge into it, or a wire as a     *)
(* peer may send it, and the invariants say what serialising and parsing   *)
(* must do with it.  No state of a program is modelled here.               *)
(***************************************************************************)
EXTENDS ProtoMessages, PyMessages

CONSTANT ProbeNumbers   \* the field numbers of the wires picked
ASSUME ProbeAssumption == ProbeNumbers \subseteq Nat

VARIABLE probe      \* the message or wire picked last

MsgNames == {"LoginReq", "LoginResp", "GnsInfoReq", "CfgInfoReq",
             "CfgInfoResp", "LogInfo", "GetLogReq", "GetLogRespOld",
             "LogText", "GetLogResp", "HeartBeatMsg", "ClearSessionReq"}

Empty(name) ==
  CASE name = "LoginReq" -> EmptyLoginReq
    [] name = "LoginResp" -> EmptyLoginResp
    [] name = "GnsInfoReq" -> EmptyGnsInfoReq
    [] name = "CfgInfoReq" -> EmptyCfgInfoReq
    [] name = "CfgInfoResp" -> EmptyCfgInfoResp
    [] name = "LogInfo" -> EmptyLogInfo
    [] name = "GetLogReq" -> EmptyGetLogReq
    [] name = "GetLogRespOld" -> EmptyGetLogRespOld
    [] name = "LogText" -> EmptyLogText
    [] name = "GetLogResp" -> EmptyGetLogResp
    [] name = "HeartBeatMsg" -> EmptyHeartBeatMsg
    [] name = "ClearSessionReq" -> EmptyClearSessionReq

Serialize(name, m) ==
  CASE name = "LoginReq" -> LoginReq_Serialize(m)
    [] name = "LoginResp" -> LoginResp_Serialize(m)
    [] name = "GnsInfoReq" -> GnsInfoReq_Serialize(m)
    [] name = "CfgInfoReq" -> CfgInfoReq_Serialize(m)
    [] name = "CfgInfoResp" -> CfgInfoResp_Serialize(m)
    [] name = "LogInfo" -> LogInfo_Serialize(m)
    [] name = "GetLogReq" -> GetLogReq_Serialize(m)
    [] name = "GetLogRespOld" -> GetLogRespOld_Serialize(m)
    [] name = "LogText" -> LogText_Serialize(m)
    [] name = "GetLogResp" -> GetLogResp_Serialize(m)
    [] name = "HeartBeatMsg" -> HeartBeatMsg_Serialize(m)
    [] name = "ClearSessionReq" -> ClearSessionReq_Serialize(m)

ByteSize(name, m) ==
  CASE name = "LoginReq" -> LoginReq_ByteSize(m)
    [] name = "LoginResp" -> LoginResp_ByteSize(m)
    [] name = "GnsInfoReq" -> GnsInfoReq_ByteSize(m)
    [] name = "CfgInfoReq" -> CfgInfoReq_ByteSize(m)
    [] name = "CfgInfoResp" -> CfgInfoResp_ByteSize(m)
    [] name = "LogInfo" -> LogInfo_ByteSize(m)
    [] name = "GetLogReq" -> GetLogReq_ByteSize(m)
    [] name = "GetLogRespOld" -> GetLogRespOld_ByteSize(m)
    [] name = "LogText" -> LogText_ByteSize(m)
    [] name = "GetLogResp" -> GetLogResp_ByteSize(m)
    [] name = "HeartBeatMsg" -> HeartBeatMsg_ByteSize(m)
    [] name = "ClearSessionReq" -> ClearSessionReq_ByteSize(m)

MergeFrom(name, to, from) ==
  CASE name = "LoginReq" -> LoginReq_MergeFrom(to, from)
    [] name = "LoginResp" -> LoginResp_MergeFrom(to, from)
    [] name = "GnsInfoReq" -> GnsInfoReq_MergeFrom(to, from)
    [] name = "CfgInfoReq" -> CfgInfoReq_MergeFrom(to, from)
    [] name = "CfgInfoResp" -> CfgInfoResp_MergeFrom(to, from)
    [] name = "LogInfo" -> LogInfo_MergeFrom(to, from)
    [] name = "GetLogReq" -> GetLogReq_MergeFrom(to, from)
    [] name = "GetLogRespOld" -> GetLogRespOld_MergeFrom(to, from)
    [] name = "LogText" -> LogText_MergeFrom(to, from)
    [] name = "GetLogResp" -> GetLogResp_MergeFrom(to, from)
    [] name = "HeartBeatMsg" -> HeartBeatMsg_MergeFrom(to, from)
    [] name = "ClearSessionReq" -> ClearSessionReq_MergeFrom(to, from)

Parse(name, wire) ==
  CASE name = "LoginReq" -> LoginReq_Parse(wire)
    [] name = "LoginResp" -> LoginResp_Parse(wire)
    [] name = "GnsInfoReq" -> GnsInfoReq_Parse(wire)
    [] name = "CfgInfoReq" -> CfgInfoReq_Parse(wire)
    [] name = "CfgInfoResp" -> CfgInfoResp_Parse(wire)
    [] name = "LogInfo" -> LogInfo_Parse(wire)
    [] name = "GetLogReq" -> GetLogReq_Parse(wire)
    [] name = "GetLogRespOld" -> GetLogRespOld_Parse(wire)
    [] name = "LogText" -> LogText_Parse(wire)
    [] name = "GetLogResp" -> GetLogResp_Parse(wire)
    [] name = "HeartBeatMsg" -> HeartBeatMsg_Parse(wire)
    [] name = "ClearSessionReq" -> ClearSessionReq_Parse(wire)

MsgOf(name) ==
  CASE name = "LoginReq" -> LoginReqMsg
    [] name = "LoginResp" -> LoginRespMsg
    [] name = "GnsInfoReq" -> GnsInfoReqMsg
    [] name = "CfgInfoReq" -> CfgInfoReqMsg
    [] name = "CfgInfoResp" -> CfgInfoRespMsg
    [] name = "LogInfo" -> LogInfoMsg
    [] name = "GetLogReq" -> GetLogReqMsg
    [] name = "GetLogRespOld" -> GetLogRespOldMsg
    [] name = "LogText" -> LogTextMsg
    [] name = "GetLogResp" -> GetLogRespMsg
    [] name = "HeartBeatMsg" -> HeartBeatMsgMsg
    [] name = "ClearSessionReq" -> ClearSessionReqMsg

PyFields(name) ==
  CASE name = "LoginReq" -> PyLoginReq
    [] name = "LoginResp" -> PyLoginResp
    [] name = "GnsInfoReq" -> PyGnsInfoReq
    [] name = "CfgInfoReq" -> PyCfgInfoReq
    [] name = "CfgInfoResp" -> PyCfgInfoResp
    [] name = "LogInfo" -> PyLogInfo
    [] name = "GetLogReq" -> PyGetLogReq
    [] name = "GetLogRespOld" -> PyGetLogRespOld
    [] name = "LogText" -> PyLogText
    [] name = "GetLogResp" -> PyGetLogResp
    [] name = "HeartBeatMsg" -> PyHeartBeatMsg
    [] name = "ClearSessionReq" -> PyClearSessionReq


----------------------------------------------------------------------------
(* What is picked *)

SomeTexts == {<<"plain">>, <<"lead">>, <<"lead", "cont">>}

SomeLogTexts ==
  {LogText(<<"plain">>, << >>, texts) :
     texts \in {<< >>, <<<<"lead", "cont">>, << >>>>, <<<<"cont">>>>}}
  \cup {LogText(<< >>, <<"lead">>, << >>)}

\* A field no message has.
Strange == [num |-> 9, kind |-> "varint", val |-> 1]

SomeValues(type) ==
  CASE type = "string" -> SomeTexts
    [] type = "strings" -> {<<<< >>>>} \cup {<<<<"plain">>, t>> : t \in SomeTexts}
    [] type = "messages" ->
         {<<t>> : t \in SomeLogTexts} \cup {<<EmptyLogText, EmptyLogText>>}
    [] type = "int32" -> {1, -1}
    [] type = "int64" -> {-1, Half32}

\* m with one field set, or with an unknown field.
WithOne(name, m) ==
  {[m EXCEPT !.unknown = <<Strange>>]} \cup
  UNION {{[m EXCEPT ![PyFields(name)[num].name] = v] :
            v \in SomeValues(PyFields(name)[num].type)} :
         num \in DOMAIN PyFields(name)}

Few(name) == {Empty(name)} \cup WithOne(name, Empty(name))
Many(name) == UNION {WithOne(name, m) : m \in Few(name)}

SomeTokens ==
  [num : ProbeNumbers, kind : {"varint"}, val : {1, Half32, 2 * Half64 - 1}]
    \cup {TextToken(num, text) : num \in ProbeNumbers, text \in SomeTexts}

NoProbe == [what |-> "none"]

PickMessage ==
  /\ probe.what = "none"
  /\ \E name \in MsgNames : \E m \in Many(name) :
       probe' = [what |-> "message", name |-> name, m |-> m]

PickMerge ==
  /\ probe.what = "none"
  /\ \E name \in MsgNames : \E a \in Few(name), b \in Few(name) :
       probe' = [what |-> "merge", name |-> name, to |-> a, from |-> b]

\* The field of token u, if it has bytes, is a text: bytes that are a message
\* inside another are picked as one, by PickMessage.
Text(name, u) ==
  u.num \in DOMAIN PyFields(name) => PyFields(name)[u.num].type # "messages"

PickWire ==
  /\ probe.what = "none"
  /\ \E name \in MsgNames : \E s, t \in {u \in SomeTokens : Text(name, u)} :
       probe' = [what |-> "wire", name |-> name, wire |-> <<s, t>>]

Unpick == probe.what # "none" /\ probe' = NoProbe

ProbeInit == probe = NoProbe
ProbeNext == PickMessage \/ PickMerge \/ PickWire \/ Unpick
ProbeSpec == ProbeInit /\ [][ProbeNext]_probe

----------------------------------------------------------------------------
(* Properties *)

\* The texts of a value of a field.
TextsIn(type, value) ==
  CASE type = "string" -> {value}
    [] type = "strings" -> {value[k] : k \in DOMAIN value}
    [] type = "messages" ->
         UNION {{value[k].ip_port, value[k].gns_name} \cup
                {value[k].text[j] : j \in DOMAIN value[k].text} :
                k \in DOMAIN value}
    [] OTHER -> {}

Valid(name, m) ==
  \A num \in DOMAIN PyFields(name) :
    \A text \in TextsIn(PyFields(name)[num].type, m[PyFields(name)[num].name]) :
      Utf8(text)

\* A message read from any wire is one the class can hold (the casts of
\* _InternalParse), and passing it on loses nothing: what it serialises to is
\* accepted and read as the same message, unknown fields included.
PassesOn(name, w) ==
  LET read == Parse(name, w) IN
  read.ok => /\ read.msg \in MsgOf(name)
             /\ Parse(name, Serialize(name, read.msg)) = read

PassedOn == probe.what = "wire" => PassesOn(probe.name, probe.wire)

\* Parsing what a message serialises to gives the message back when its texts
\* are UTF-8 and fails when one is not (_InternalSerialize only complains,
\* _InternalParse gives up).
ReadBack(name, m) ==
  LET read == Parse(name, Serialize(name, m)) IN
  /\ read.ok = Valid(name, m)
  /\ read.ok => read.msg = m

\* ByteSizeLong announces what _InternalSerialize writes, inside GetLogResp
\* too, where a wrong length would cut the next LogText.
SizeIsLength(name, m) == ByteSize(name, m) = WireSize(Serialize(name, m))

\* MergeFrom does what parsing the two messages one after the other does.
MergeIsConcatenation(name, to, from) ==
  LET both == Parse(name, Serialize(name, to) \o Serialize(name, from)) IN
  both.ok => both.msg = MergeFrom(name, to, from)

\* The five routines the generated code has per message fit each other.
RoundTrips ==
  /\ probe.what = "message" =>
       ReadBack(probe.name, probe.m) /\ SizeIsLength(probe.name, probe.m)
  /\ probe.what = "merge" =>
       MergeIsConcatenation(probe.name, probe.to, probe.from)

\* The Python client writes what the C++ programs write and reads what they
\* read: its descriptors name the same fields with the same numbers and types.
PythonWrites(name, m) ==
  name # "GetLogResp" => PySerialize(PyFields(name), m) = Serialize(name, m)

PythonReads(name, w) == PyParse(PyFields(name), Empty(name), w) = Parse(name, w)

PythonAgrees ==
  probe.what = "message" =>
    /\ PythonWrites(probe.name, probe.m)
    /\ PythonReads(probe.name, Serialize(probe.name, probe.m))
=============================================================================
