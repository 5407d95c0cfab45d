# TLA+ verification of tracelog

This directory models the tracelog framework: the trace server, the trace
clients embedded in services (in C++ and in Python), the FastCGI gateway behind
the web page, the messages they exchange and the framing that carries these.
The modules are translated from the code under `src/`; TLC checks them on small
instances, and TLAPS proves for every value of the constants every safety
property that these checks pass: of the server, of its composition with the
clients, of the gateway and its buffers, of the Python client, of the framing,
of the messages and of what they carry; and that the server and the framing
implement their abstract specifications. Paths below are relative to `src/`; `S:` stands for
`trace_server/AsyncCommThread.cpp`, `H:` for `trace_server/helper.cpp`, `C:`
for `trace_client/cpp/TraceClientThread.cpp`, `P:` for
`trace_client/python/TraceClientThread.py` and `A:` for
`async_cgi/AsyncCommThread.cpp`.

## 1. Inventory of the system

| part | code | state | operations |
|---|---|---|---|
| trace server | `trace_server/` | `g_map_fd_cli_info` (who reported what on which connection), `g_map_session_info` (sessions, their configurations and stored logs), `s_ConnMgr.m_mapFdConn` | `GNS_INFO_REQ`, `LOG_INFO_REQ`, `LOGIN_REQ`, `SET_CONF_REQ`, `GET_LOG_REQ`, `HEARTBEAT_MSG`, connection opened / released, the 30 s descriptor check, the 300 s session check |
| C++ trace client | `trace_client/cpp/` | `m_cfgInfos` (filters of the sessions), `m_pCon`, `m_has_report_gns` | `CFG_INFO_REQ`, `CLEAR_SESSION_REQ`, heartbeat and report timers, `TLogIf` / `UploadLog` from any application thread |
| Python trace client | `trace_client/python/` | `cfgs`, a socket, three threads | the same messages, no reconnection |
| async CGI | `async_cgi/` | one FastCGI codec per nginx connection (`SelfConn`), one connection to the server (`m_pCon`) | FastCGI records, the requests to the server, matching answers to nginx connections by descriptor and second, a 10 s timeout, a 120 s descriptor check, a 120 s heartbeat |
| libnframe | `netframe_lib/` (headers and a binary `libnframe.so`) | epoll set, connection map, one read buffer per connection | read loop, `ParseNetMsg`, `WriteData`, idle check, timers, local messages |
| FastCGI and forms | `async_cgi/AsyncCommThread.cpp`, `fastcgi.h`, `cgicc_lib`, `muduo/Buffer.h` | two buffers and a map of parameters per nginx connection | gathering records, decoding parameters and forms, cutting a page into records |
| messages | `common/trace.proto`, `trace.pb.*`, `trace_pb2.py` | none of their own | serialising, parsing, sizes, merging of twelve messages |
| HTTP and JSON texts, logging, utilities | `async_cgi/helper.cpp`, `common/` | none | formatting |

How the parts interact: the server is one thread running one handler at a time;
clients and the CGI talk to it over TCP connections with length-prefixed
protobuf messages; there are no acknowledgements and no retransmission. The
browser logs in (a session is created), sets configurations (the server sends
the filter to the clients of that service name or address), clients upload the
lines that pass the filter, the server stores them per configuration, the
browser polls for them. Sessions end by expiry; clients are told with
`CLEAR_SESSION_REQ`, or when they next upload for a session the server does not
know. A server restart loses every session.

What is hard, and what makes each part correct:

- **Server.** Three tables change independently: connections are closed by the
  peer, by the idle check (behind the back of the virtual
  `ReleaseConnection`), and their descriptors are reused; sessions expire on a
  coarse timer while uploads for them go on; the store of logs is a vector with
  a cursor, trimmed only when it is full. Correct means: the tables agree (no
  descriptor is taken for its previous owner, no client is told something false
  of a session), the cursor stays inside the vector, logs are handed out in
  order and once, sessions end when nobody uses them, and an upload meets at
  most one configuration per selector.
- **Client.** The report, the heartbeat and the reading of messages race with
  the loss of the connection, and every message out is composed in the buffer
  messages are read into. Correct means: the client traces for exactly the live
  sessions that asked for it, reports itself again when the server lost it, and
  never harms the service it is embedded in.
- **Gateway.** An answer is matched to a browser's request by a descriptor and
  a second, both reusable; the timeout, the late answer, nginx closing the
  connection and the next request on a kept connection all reset the same few
  fields; the connection to the server is forgotten whenever any connection
  fails. nginx cuts what it sends anywhere, and a kept connection carries the
  next request over the same buffers. Correct means: each request is forwarded
  and answered once, as it was typed, a timeout is final, every request ends,
  its page arrives whole, and the server is found again.
- **Framing.** The header of a message is swapped to host order in the buffer
  itself, at every look, before the message is known to be complete; answers
  are composed in the same buffer; a write to a full socket waits. Correct
  means: messages are handed over in order and once, no wrong length is taken
  for one, and the only threads that wait for ever are those of ends that wait
  for each other.
- **Messages.** Correct means: what one program writes another reads as meant,
  up to the width of the fields, in both languages.
- **Python client.** Three threads share a list and a non-blocking socket
  without a lock, and an exception ends the thread it meets. Correct means:
  nothing but a full send buffer spoils a message, and what the threads do to
  the list in the meantime harms no complete walk over it.

## 2. The modules

| module | models |
|---|---|
| `CfgLogs` | the stored logs of one configuration: `logs`, `log_idx`, the storing half of `SaveLog` and the fetching half of `GetLogByGnsEqually`, as operators |
| `Ordered` | the order in which the code's loops walk `std::map` and `vector` |
| `TraceServer` | every handler, timer and connection callback of the server, its crashes and restart |
| `LogMailboxes` | abstract specification: what the server promises about stored logs |
| `TraceServerMailboxes` | the refinement mapping from `TraceServer` to `LogMailboxes` |
| `TraceClient` | the C++ client: timers, handlers, an upload, crash and start |
| `TraceSystem` | composition: server, clients, browser, TCP connections, messages in flight, the shared read buffers |
| `CgiGateway` | the FastCGI gateway with nginx and the server as its environment |
| `Buffer`, `CgiForm`, `FcgiCodec` | one nginx connection byte by byte: muduo's buffer, the decoding of forms, records, parameters and pages |
| `ProtoWire`, `ProtoMessages`, `PyMessages` | protobuf's wire format as the generated code uses it, the twelve messages in C++, their descriptors in Python |
| `Codecs` | the messages probed: every routine of the generated code against the others |
| `Conversation` | what the messages carry: a request from the form through gateway and server to the client, and the answer and the logs back |
| `ReadBuffer` | the read loop and `ParseNetMsg` over one connection's buffer |
| `MessageStream` | abstract specification of the framing: messages in order, each once, until the connection is lost |
| `Stall` | `WriteData` on full sockets: the server and two clients of two threads |
| `PyClient` | the Python client's three threads |
| `TraceServerProofs` | theorems about `CfgLogs`, `TraceServer` and `TraceServerMailboxes` |
| `TraceSystemProofs`, `CgiGatewayProofs`, `PyClientProofs`, `ReadBufferProofs` | theorems about the module of that name |
| `Folding` | lemmas about folds over sequences, for the next two |
| `FcgiCodecProofs` | theorems about `CgiForm`, `Buffer` and `FcgiCodec` |
| `CodecsProofs` | theorems about the messages (`Codecs`) and about `Conversation` |
| `MC...` | values of the constants for TLC |

### TraceServer

One thread runs the handlers one at a time, so a handler is one action and has
the handler's name. `conns` is `m_mapFdConn` (an entry may be absent, a
connection, or NULL: `operator[]` in `SendMsg` inserts NULL), `cliInfo` is
`g_map_fd_cli_info`, `sessions` is `g_map_session_info` with `active_time`
replaced by the age, `now - active_time`, in ticks. `issued` is a history
variable, the uuids given out, which are never given out twice. `untilCheck`
counts down to the session timer. `sent` is what the last handler wrote.
`Die` ends the process: by SIGFPE when the share of a fetch is divided by
zero, by SIGSEGV when `CheckFDExpireTime` follows a NULL entry.

`CheckFDExpireTime` and the read loop live in `libnframe.so`, of which there is
only the binary. Its disassembly shows what the modules assume: the idle check
closes connections and erases them from `m_mapFdConn` without calling the
virtual `ReleaseConnection`, and tests no entry for NULL; `OnMsgOneConDeal`
returns -1 when the peer has closed (EPOLLRDHUP or a read of 0); and
`SetupConnection` adds a client's descriptor to the epoll set but not to
`m_mapFdConn`.

Abstracted: the text of a log, without the prefix the server puts before it; a
client reports one name and one address, as the C++ and Python clients do
(C:337-338); messages that do not parse and unknown ids change nothing and are
left out; a write that fails changes nothing in the server (no caller looks at
`SendMsg`'s result).

### TraceClient and TraceSystem

`con` is `m_pCon`: NULL, a block whose connect left no descriptor ("dead"), or
a connection; `reported` is `m_has_report_gns`, which the constructor leaves to
chance; `filters` is `m_cfgInfos`. The handler of a configuration is that of
the example subclass (`tracelog.cpp:17-40`), which acknowledges with an upload.

In `TraceSystem` a descriptor of the server is one connection; either end may
go first. A connection exists in `backlog` before the server accepts it. Both
ends compose outgoing messages in the connection's read buffer (S:586, C:299);
when that holds input that was not handled, the input is overwritten. What
becomes of it depends on lengths, so it is a nondeterministic choice: unharmed;
or the last message composed has the length of the first ones that wait and
takes their place (`Covered`): they are *missed*, and the end handles its own
message as if the other had sent it; or the parser does not find a message
boundary again: that end is *deaf* until its read buffer is full and the
connection is closed. An answer is composed over the message it answers, which
goes away with whatever covers it, so that only a message to another connection
(`Overwrite`) or of the client's own accord (`Use`) can replace one that waits.

The server's idle check (`ServerChecksIdle`) meets connections whose client is
gone without the server having heard of it (`Orphans`): the others send a
heartbeat every 120 s, and it allows 12000. It leaves behind whom it closed,
and an entry NULL ends the process there. A process that hangs for 12000 s
with its connection open is not covered.

Left out of the composition: stored logs (`MaxPreserveLogs = 0` in these runs:
no property there is about them); a write fails only when the server's end is
gone; partial reads and full socket buffers; concurrent application threads (an
upload is one step). What a client does with the messages only the server
handles, when it finds one of its own, is what its handler does with any unknown
one: nothing (C:157-178).

### CgiGateway

`table` is `m_mapFdConn`, `codec` the fields of `FastCgiCodec` the control
depends on, `pCon` is `m_pCon`, `links` are the connections to the server that
are not closed, remembered or not, `wire` the forwarded and unanswered
requests, each carrying the descriptor and the second that the protocol sends
along (A:477-583). `nginx` is what the connection is being used for and how
many of the request's records were not read. Seconds are names that may be
reused once nothing remembers them, and `elapsed` is how long ago they were, up
to one more than the timeout: time goes on for ever in a finite model.
`asks` and `heard` are history: how often a request was forwarded, and what its
connection received.

Abstracted: a request is three records (begin, parameters, end of input);
malformed records, which close the connection (`bWaitClose`), and chunked
answers are left out; answers on one connection are not kept in order, which
allows more than TCP does; nginx's closing of a connection is one step with its
notice; nginx uses a connection again only after the answer to a complete
request; requests are numbered in the order they are sent.

### FcgiCodec, CgiForm, Buffer

`CgiGateway` takes a request as three records; `FcgiCodec` takes one connection
and looks inside. nginx encodes the forms a browser filled in as parameters
and body, cuts both anywhere (`Piece`), and starts the next request when the
answer is written; the gateway's actions have the names of its handlers.
`codec` is `FastCgiCodec`, its two buffers are `Buffer`s with their vector and
indices, so that bytes left behind, moved or overwritten are those of the code.
A byte is a number below `Base`, and the characters with a meaning (`=`, `&`,
`%`, `+`, digits, upper case) are constants; with `Base = 16` a long length and
an escaped character fit small instances. A record that arrives while a request
waits for its answer (nginx sends only an abort then) asks the server again, as
the code does (A:287). Form decoding is compared with what a browser encodes
(`FormData`), the page with what nginx puts together of the records.

### ProtoWire, ProtoMessages, PyMessages, Codecs, Conversation

A serialised message is a sequence of tokens, a field number with a varint, a
text or a message inside. Of a text's bytes only their part in a UTF-8
character matters, since parsing verifies UTF-8 and serialising merely
complains. Integers keep their width, with 2^31, 2^63 and the seven bits of a
varint's byte as constants. `ProtoMessages` has, per message, what the
generated class does: values, `_InternalParse` by field number (the fields of each message
are numbered from 1 without a gap, so that its cases are a tuple),
`_InternalSerialize`, `ByteSizeLong`, `MergeFrom`, accessors. `Codecs` is no
program: a step picks messages, pairs or wires for the invariants.
`Conversation` has one request under way at a time (who overtakes whom is the
business of `TraceSystem` and `CgiGateway`) and carries contents: what was
typed, the descriptor and the `time_t` of the request, the filter, the line a
client logs, cut by `vsnprintf` in bytes.

### ReadBuffer and MessageStream

`transit` are the messages sent and not handed over, of which `read_idx` bytes
are in the buffer; `host` tells in which order the last look left the header at
the front. `Incomplete` is a look that finds too little and leaves the header
swapped; the next look swaps it back and reads the length in the wrong order;
`Misread` is a look that would take such a length for a complete message.
A handler's answer, composed over the message it handles, spoils what is
behind it when it is longer; so does a message composed while part of another
waits. `link` is the kind of connection. Its ends decide two things. Heartbeats,
which carry a body ("nothing"), are sent to the server only, by the timers of
clients and gateway (C:65-77, A:123-135); the server has no such timer (S:60-66)
and answers the ones it gets, which is one of the messages of `SendMsg`. And the
gateway tells the server's messages from nginx's by the first byte (A:245): a
header that a look left in host order may begin with a 1, and is then taken for
a record (`TakenForRecord`). Lengths have two bytes in FastCGI's `RecordHeader`
(`fromNginx`), which is swapped the same way (A:275), and four otherwise.

### Stall

Directions of a connection hold `Cap` messages. The server writes in its only
thread (`out` is what it has left to write before it reads again); a client's
network and application threads write to one connection, and only the network
thread reads. `deaf` is a Python client whose network thread has ended.

### PyClient

`net`, `timer` and `walk` are where the three threads are, `left` what each has
still to send of its message, `wire` what is in the send buffer. One turn of
`mysend`'s loop, of `handle_clear_session`'s loop and of `tlog_if`'s loop is a
step each, since the interpreter may switch threads in between. `recv(10)` is
scaled to messages of its own order of size. A connection ends once.

## 3. What is checked

Twelve runs. Each property has a mutant in `PROJECT.json`: a plausible bug of
the modelled code under which the run finds the property violated.

| run | instance | shows |
|---|---|---|
| `server_logs` | 1 descriptor, 2 configurations, 2 texts, 2 addresses, 1 name, store of 2, fetch of 3 | `TypeOK`; `MessagesMatchSessions`: what a client is told of a session is true; `WindowsSound`; `FetchShares`: a fetch leaves out no configuration with logs; `KeepsMailboxes`, the refinement of `LogMailboxes` |
| `server_expiry` | 2 sessions, expiry 1 tick, check every 2 | `SessionAgeBound`; `IdleSessionsEnd` (liveness) |
| `server_maintained` | | the finding, section 6 |
| `system_clients` | 2 clients of different services and machines on 2 descriptors next to the CGI's, 1 session, 1 configuration asked for, of either client or of both, 1 message in flight | `ListedAsItIs`: the server takes no client for another; `OnlyAsked`: no client traces what was asked of another; `NullIsListed`: an entry NULL needs a listed client that the idle check closed |
| `system_configs` | 1 client, 1 session with up to 2 configurations, 2 filters the client knows and one it does not, 2 messages in flight | `ConfigsAtWork`: the one filter a client keeps is that of the configuration of its service, or of a later one for its machine; `SelectorsDistinct`: settings leave no two configurations with one selector |
| `system_stale_filters` | 1 client, 1 session, 1 filter, 2 messages in flight | `StaleFiltersEnd` (liveness); `LiveFiltersKept` |
| `cgi_requests` | 2 connections, 2 requests, 2 server connections, 3 seconds, timeout 1 | `ForwardedOnce`, `AnsweredOnce`, `TimeoutsFinal`; `EveryRequestEnds`, `ServerRegained` (liveness) |
| `codecs` | messages with up to two fields set, pairs of messages, wires of two tokens; a conversation with texts that are and are not UTF-8, numbers inside and outside int32 | `PassedOn`, `RoundTrips`: parsing, serialising, sizes and merging fit each other; `PythonAgrees`; `OnlyMalformedIsLost`: only a text that is not UTF-8 loses a request, and no stored log loses an answer; `AnswersComeHome`: an answer is matched exactly while `time_t` fits an int32; `FilterAsTyped` |
| `gateway_http` | forms of up to two entries with special and long values in body and URL, records of 5 or 32 bytes, pages around the longest record | `AskedAsTyped`, `NothingGivenUp`, `BuffersHold`, `PageIsWhole` |
| `framing` | a header of 2, messages of 6 lengths in a buffer of 15, four kinds of connection with lengths of two and four digits of base 4, 2 messages under way and heartbeats | `NeverMisread`, between server and clients; `InOrder`, the refinement of `MessageStream`; `AllHandedOver` (liveness), towards the server |
| `stall` | 2 clients, room for 1 message per direction | `RoomAgain`, `ConfigsGoOut` (liveness): nobody waits for ever but the server and a client for each other, or for a client that does not read |
| `py_client` | 2 sessions, 2 values, messages of 2 bytes, 2 listed configurations | `NothingWaits`: no complete message waits in `read_buf`; `TornOnlyWhenFull`; `ClearedOrDead`, `EachMatchOnce` (action properties); `CfgKept` (liveness) |

Why the bounds are enough. In `system_clients` two descriptors let one be taken
over while the other stays, and let both clients be connected at a
time and exchange their descriptors; one configuration is asked for there,
since what a second does to the first is the question of `system_configs`. Two
configurations are needed for one to be replaced by another's selector, for
one to overflow before another, and for the second a client reads to replace the
filter of the first; two addresses (in `system_configs` an address and none) for
them to differ in one selector only. A store of 2 with a fetch of 3 shared by one or two
configurations gives shares of 3 and 1: whole and partial fetches, a cursor
inside and at the end of a full vector. Two sessions may expire together or
apart. `MaxFlight = 2` with one client lets a message
be composed over a waiting one, and cover one or two; with two clients it is 1,
and the wire holds
no more than what a handler adds. It holds up only steps nobody waits for, never a handler, so that it makes no deadlock.
A third, unknown filter covers the client's settings that change nothing
(`SetId`).
Two nginx connections let a request be pending while the other's descriptor is
abandoned and taken again, and let an entry NULL stand before and after it;
two server connections let one be forgotten while a second is opened; three
second names are one more than requests, so that a new second always has a
name. `MaxAsked`, `MaxCfgs`, `NReq`, `NLinks` bound how much the environment
asks, and expiry and check intervals of 0 to 2 ticks keep every order of the
timers and messages. In `framing` the lengths 1 and 4, 3 and 12 are each other
read backwards, 5 is its own mirror image, and the longest message fills the
buffer but for one byte; four names tell two messages under way from those
before and after them. In `gateway_http` a form of eight characters has a
four-byte length, records of 5 cut inside lengths, escapes and names, and the
buffers start with room for 4 and are reused by later requests; pages of 7, 8,
9, 16 and 17 lie around one and two full records. In `codecs` two fields set
are what a swapped field number, a lost field or a wrong size needs, and the
numbers 3 and 4, -1 and 9 lie on both sides of 2^31 = 4. In `stall` room for
one message is the hardest case; in `py_client` a send buffer of one message
meets every partial send, and two entries of one session are what deleting
while walking goes wrong on.

`system_clients` and `system_configs` use a VIEW without `sent` and `said`, which
hand a step's output to the wire within the step, without what a process
that is gone died of, and without `reported` of a client that has no connection
to come: no guard, no update and no
property of these runs depends on what an earlier step left in them. They use
symmetry too, of invariants only: the two clients change places with their names
and addresses, the two known filters with each other.

**Fairness.** The server: its clock and its due timers run (`FairSpec`); nothing
is owed by peers, and no restart. The system: both loops handle what arrives
and notice a closed end, since they are epoll loops that return to waiting;
client timers are permanent timers of libnframe; the application keeps tracing,
as the example does every ten seconds (`trace_client/cpp/main.cpp:27-34`).
Strong fairness appears there only on the client's steps that the bound
`MaxFlight` can disable. The gateway: time passes, its three permanent timers fire, the
server answers what it received or dies, and closes what stays idle (12000 s,
S:75), so that a forgotten connection ends. Nothing is owed by nginx, and a
stopped server or gateway need not return. The framing: the reading thread
runs, and, where the other end is a client or the gateway, its heartbeat timer.
Towards clients and gateway no fairness makes anything arrive: the server
speaks only when it is spoken to, and what the reader's own heartbeat brings
back is composed over what waits. Stalls: the epoll loop serves every
ready descriptor in each round, hence strong fairness of reading one descriptor
although writing disables it; a network thread gets a mutex, or room, that is
free again and again (the mutex is the kernel's, and `WriteData` tries every
100 microseconds); the application's threads are owed nothing. The Python
client: its network thread runs, and a send it is in goes on.

**What the properties exempt, and why.** `StaleFiltersEnd` and `ConfigsAtWork`
speak of clients that kept their place in the stream of messages and missed
none; an overwritten read buffer is described in section 6. `ConfigsAtWork`
speaks of configurations for a whole service, of kinds the client knows: a later
one for the client's machine rightly replaces the filter, which is the other
case of `Right`, and one for a machine only may never reach it (section 6).
`AllHandedOver` lets the
connection be lost instead, and needs the heartbeats: a message whose last
bytes arrive on the wrong look is found complete only at the next. It is
therefore stated for connections to the server only; a message of the server
can wait at a client or the gateway until the server sends another.
The gateway's
answering properties exempt a request that received an answer before it was
complete: the descriptor and second of an abandoned request were taken again
(section 6, observations). `KeepsMailboxes` allows an upload to be refused when
an *earlier* configuration it also meets is full: the loop is left by `break`
(S:433). `RoomAgain` and `ConfigsGoOut` exempt exactly the state `Stuck`, which
the code reaches. `TornOnlyWhenFull` exempts a send buffer that was too full
once, and `ClearedOrDead` a clear that ends the network thread.

## 4. What is proved

The first part of `TraceServerProofs` shows for every sound window that storing appends to the unread
logs or, exactly when they fill the store, changes nothing unread (`OfferOK`),
and that a fetch hands out a prefix of the unread logs, no longer than asked,
and leaves the rest (`FetchOK`).

Its second part proves for all constants that satisfy `ServerAssumption`
(descriptors are a finite set of naturals, uuids are ordered like naturals, the
empty name is no name, the limits are naturals) and `MaxPreserveAssumption`:

| theorem | property |
|---|---|
| `TypeCorrect` | `Spec => []TypeOK` |
| `WindowsAreSound` | `Spec => []WindowsSound` |
| `SelectorsAreDistinct` | `Spec => []SelectorsDistinct` |
| `SessionAgesBounded` | `Spec => []SessionAgeBound` |
| `MessagesAreTrue` | `Spec => []MessagesMatchSessions` |
| `NullEntriesListed` | `Spec => []NullIsListed` |

The argument. `TypeOK` alone is not inductive: a fetch advances `log_idx` by
`Len(logs) - log_idx`, which is a natural number only when the cursor lies
inside the vector. The inductive invariant `IInv` adds `Sound`: every
configuration of every session has a sound window. There is one lemma per
action (`SetConfigOK`, `SaveLogOK`, ...), which rests on what its helpers return
(`NewCfgsOK`, `StoredOK`, `RemainingOK`, `InOrderOK`). The selectors need the
invariant that all sessions' configurations are distinct, preserved by
`SetConfig` because what it keeps shares no selector with what it appends
(`NewCfgsDistinct`), and by the log operations because they keep selectors
(`SameSelectors`). The age bound ties the ages to the countdown of the timer:
at every tick both sides move by one, and the check, at zero, drops what
exceeds the limit.

The loops walk a set of positions in order (`InOrder` chooses a sequence that
does). That there is one, that it is the only one and that it visits every
position (`OrderingsExist`, `InOrderCovers`) is an induction on the number of
positions, carried out by a smallest counterexample (`FirstOf`).

The messages: every queue of messages is composed by walking an ordered set of
positions (`InOrder`), so that a property of the set's elements is one of every
message; each handler composes for sessions that are alive after it, or, in
the expiry check, for those it has just erased. `NullIsListed` follows from
whom the handlers write to: an open connection, or a client that is listed.

Its third part proves `ServerKeepsMailboxes`, `Spec => KeepsMailboxes`: every step of the server is one of `LogMailboxes` under the
mapping of `TraceServerMailboxes`, or changes no mailbox. `LoginLogic` opens,
`SetConfig` arranges (what it keeps is what the abstract step keeps, in the same
order, `KeptBoxes`), `SaveLog` uploads (`StoredBoxes`: how many copies each
configuration took, and that one took fewer than it was met only behind a full
one), `GetLog` fetches (`FetchParts`: a fetch is the concatenation of a prefix of
every mailbox, and together no more than `MaxGetLogs`, `SharesTogether`),
`CheckSessionExpireTime` and `Die` forget sessions, and every other step is a
`Forget` of nothing. It needs `IInv` for the windows, and that a handler's answer
is the only `GET_LOG_RESP` of its step (`OneAnswer`). `FetchesAreShared` proves
`FetchShares` with the same lemmas.

`TraceSystemProofs` proves of the composition, from `ServerAssumption`,
`MaxPreserveAssumption` and `SystemAssumption` (every client has a name and an
address, the gateway's connection has a descriptor):

| theorem | property |
|---|---|
| `SystemRunsServer` | `SystemSpec => Spec`: in the composition the server runs as specified alone, so that its theorems hold there too |
| `ListIsRight` | `SystemSpec => []ListedAsItIs` |
| `TracesOnlyAsked` | `SystemSpec => []OnlyAsked` |
| `ConfigsWork` | `SystemSpec => []ConfigsAtWork` |
| `LiveFiltersAreKept` | `SystemSpec => LiveFiltersKept`, an action property |

The inductive invariant `SystemInv` says what may be on its way. Up a connection
go messages of the client that opened it, and what the server wrote there itself
over a waiting one (`GoingUp`), so that whoever is
listed is listed as it is. Down go heartbeats, clears of sessions that are over,
configurations that were asked and concern the client, and what the client wrote
there itself (`GoingDown`); that a
session is over stays true because uuids are never given out twice (`Ended`,
`OverStays`). So no filter of a live session is removed, and none appears that
nobody asked for (`Filtered`, `OnlyAsked`). `AtWork` is `ConfigsAtWork` with what
is under way: of the messages coming to a client, the last that sets a filter
for the session sets a right one, or there is none and the filter it has is right
(`Hears`, `EndsIn`). The steps fall in three groups: those that write nothing
about sessions (`QuietStep`), a report, which is answered by a replay of every
configuration of the name (`ReplayTold`), and a setting, which goes to every
client it concerns (`SettingTold`, `SettingHeeded`); both rest on the order of
the walks covering all positions, and a replay on there being one configuration
of the name at most (`NamedOnce`): with two, their order would decide.

`CgiGatewayProofs` proves of the gateway, from `CgiAssumption` (descriptors
are positive, names of seconds are finitely many and more than requests), that
`CgiInv` holds (`GatewayInvariance`) and with it `ForwardedOnce`, `AnsweredOnce`
and `TimeoutsFinal`. Its parts are the ways the few fields of a connection could
go wrong: a request has one connection (`Owned`); a request nginx did not send
left no trace (`Unsent`); while records are read nothing was forwarded and the
codec is blank (`Reading`); a pending request received nothing but early answers
(`Pending`); what is forwarded carries the descriptor and second of its request
(`Stamped`); of the receipts of a request one at most is an answer to a steady
request or the timeout (`AnsweredAlone`); and when a request was given up, its second has passed and its
codec does not hold it (`Late`), so that no answer can find it any more. That
`Tick` finds an unused second is a counting argument (`FreshSecond`): requests
remember at most one each. `ReadyIsBlank` shows that a record never starts while
the codec still holds a request, so that the branch A:287-294 is not reached
from nginx's side of the protocol as modelled.

`PyClientProofs` proves `NothingWaitsHolds`, `TornOnlyWhenFullHolds`,
`ClearedOrDeadHolds` and `EachMatchOnceHolds`, the safety properties of the
Python client. The invariant has a part per hazard: what is in `read_buf` is
less than the message it belongs to (`BufferInv`); while the send buffer was
never too full, every message went out at once (`SendInv`); while nothing was
deleted the entries passed are not the session's, and once something was, the
range is longer than the list (`ClearInv`); a complete walk has made one upload
per match passed (`WalkInv`).

`ReadBufferProofs` proves, from `ReadBufferAssumption` (a base of at least 2, a
buffer smaller than its square, lengths below that square), `NeverMisreadHolds`,
for connections between server and clients, and `InOrderHolds`, for all kinds. A length below Base squared read in the wrong order is a
sum of its digits times Base squared or more (`WrongOrder`): it is 0 only when
the length is, and otherwise beyond the buffer. The refinement maps every step
of the loop to one of `MessageStream` or a stutter.

`FcgiCodecProofs` begins with `CgiForm`: what a browser encodes is decoded to
what was typed: a text (`DecodesEncoded`), a form (`ParsesFormData`), and the map
of parameters `onRequest` makes of body and URL (`QmapIsTyped`). It assumes of
the characters with a meaning what ASCII grants (`FormAssumption`): they are
different ones, none is a digit or a letter, and there are the square of the
radix many characters in all. Every operator here is a fold, and induction over
data is out of reach (section 5); what is proved instead, in `Folding`, is that a
fold is the last of a row of states, each a step from the one before (`Trace`),
and that what each step keeps holds of the whole row (`Reaches`); both by the
smallest position at which it would fail (`LeastOf`). The proofs then say, for
each k, in which state the fold is after k characters or pairs (`Known`, `After`).

Next comes muduo's `Buffer`: for every vector, indices and
contents `append` concatenates in all three ways of finding room
(`AppendIsConcatenation`) and `retrieve` takes the front (`RetrieveIsFront`).
The branch of `makeSpace` that moves bytes to the front is never reached by the
gateway, which appends only to buffers nothing was retrieved from but
everything: `gateway_http` does not exercise it, and only the theorem speaks of
it. Then come `readLen` against
the lengths nginx writes (`ReadsLength`: one byte, or four with the flag and
arithmetic modulo 2^32), `parseAllParams` against the parameters
(`ParsesStream`), and `respond` against what nginx reads of its records
(`RespondsWhole`, for every length of page, also a multiple of
`FCGI_MAX_LENGTH`). The inductive invariant `FcgiInv` says, record by record,
that what the two buffers hold and what nginx has not sent make the stream of
the forms that were typed (`ReadingParams`, `ReadingBody`), that a request
finds nothing of the one before it (`Cleaned`), and that nothing is asked or
given up before it is whole (`NotYet`). From it follow `QuestionsAreAsTyped`,
`NoneIsGivenUp`, `BuffersHoldTheStreams` and `PagesAreWhole`, the four
properties of the run `gateway_http`, for all forms, pages, sizes of buffers and
cuts. `FcgiAssumption` is what nginx grants: lengths below 2^31, an even number
of characters, two names that differ, records of one byte or more.

`CodecsProofs` proves of the messages, from `WireAssumption` (the widths are those
of integers: int64 is the wider and a multiple of int32, as 2^63 is of 2^31),
for each of the twelve classes:

| theorem | of | says |
|---|---|---|
| `MessagesComeBack` | every message a program can hold | what is serialised parses, exactly when all its texts are UTF-8, to the same message |
| `SizesAreLengths` | every message | `ByteSizeLong` announces what `_InternalSerialize` writes, also for messages inside |
| `MergedAsRead` | every two messages | written one after the other they are read as `MergeFrom` merges them |
| `WiresArePassedOn` | every sequence of tokens | what is read of it is a message of the class, and survives being passed on |
| `PythonWritesTheSame` | every flat message | Python writes what C++ writes |
| `PythonReadsTheSame` | every wire | Python reads what C++ reads |

Such a message has fields of their types, and among its unknown fields none
that its class knows (`Clean`), which is what a constructor, the accessors and a
parse leave (`ParsedSound`). The run `codecs` picks from small sets of such
messages and wires, which is the invariant `Picked` (`OnlySuchPicked`); with it
the theorems give `RoundTrips` (`RoutinesFit`), `PassedOn` (`NothingLost`) and
`PythonAgrees` (`SameLanguage`) for any field numbers probed and any widths.

The argument. `ReadsTo(cases, M, b, w, T, m)` says of the part w of a wire: parsed
from b on, it leaves m, if all texts in T are UTF-8, and fails otherwise. It
holds of nothing, and there is a lemma for what each kind of field adds to it
(`StringStep`, `NumberStep`, `StringsStep`, `MessagesStep`, `UnknownStep`);
chained in the order of `_InternalSerialize` they give each class's lemma
(`CfgInfoReqParsed`, ...): what was written merges into what was there. Reading
from the empty message and reading two in a row are its cases. `Sized` is built
up likewise. That an integer survives is `NumbersBack`: an int32 is written as
the long of its value, and cutting a long to 32 bits leaves one that fits.
Messages nest to a depth of one, so that the lemma for `LogText` comes first and
is used by `GetLogResp`; no induction is needed.

`ConversationKept` proves the inductive invariant `ConversationInv` of
`Conversation`, from `ConversationAssumption` (texts typed or logged are sequences
of bytes, longs fit an int64, descriptors an int32, times are naturals). The
properties speak of the last stage of a request only; the invariant says what
each stage hands to the next: what is on the wire is legible exactly when what
was typed is (`Asks`) and carries the descriptor and the cut time of its request
(`Answers`); a message to the client carries the filter that was typed
(`PushedAsTyped`); the stored logs are legible (`LogsLegible`), since the server
stores what it could parse, and for this reason alone no answer is refused. For
each message a lemma says what its reader finds (`LoginReqSent`, ...,
`GetLogRespSent`). From the invariant follow `OnlyMalformed`
(`OnlyMalformedIsLost`), `AnswersHome` (`AnswersComeHome`) and `FilterTyped`
(`FilterAsTyped`), for any texts, longs, descriptors, times and numbers of logs.

## 5. What is only model-checked, and what is not modelled

Liveness and everything under fairness stay with TLC: `IdleSessionsEnd`,
`StaleFiltersEnd`, `EveryRequestEnds`, `ServerRegained`, `AllHandedOver`,
`RoomAgain`, `ConfigsGoOut`, `CfgKept`: fairness is beyond the prover. All other
properties of the passing runs have a theorem in section 4, for every value of
the constants that the assumptions named there allow. Induction over data is
beyond it too, since the library offers it only through operator parameters: the
proofs about folds go by the smallest position instead, with one lemma per fold
that says it is the last of a row of states (`Folding`).

Not modelled, and why:

- Data races of application threads in the C++ client (`m_cfgInfos`, C:379, and
  two threads composing in `read_buf` at a time): undefined behaviour after
  which nothing can be promised.
- Streams nginx does not encode: `readLen` leaves one to three bytes of a cut
  length unread.
- Multipart forms and cookies in cgicc, which no page of the repository uses;
  HTTP headers and the JSON texts (jsoncpp is not in the repository); logging.
- The locks and timers of libnframe: only its binary uses them.
- The wall clock's jumps: ticks advance by one.
- The gateway's buffer for the server's answers has 102400 bytes (A:118), more
  than the square of 256: an answer of 65536 bytes, read in the wrong order, is
  one of 256. `NeverMisread` is stated for the 10240 bytes of the server and
  its clients only; an answer of `maxGetLogs` long lines may get there.
- A write to nginx that is cut short (A:154-159, 406-411: the number of bytes
  written is only logged): pages are written whole or not at all.
- FastCGI's two-byte lengths have no such room either: a record of 256 bytes
  that arrives in pieces may be read as one of 1 byte. `InOrder` ends there
  (`Whole`), for either width.

Next: stored logs followed through the gateway to the browser in one module (the
fetch hands them out before they arrive).

## 6. Findings

| statement | what the code does |
|---|---|
| `README.md:21`: the server maintains each session's configurations and logs (`SessionsMaintained`) | a fetch for a session without configurations divides by zero (H:72) and every session is lost |

Observations, modelled where noted, that contradict no statement checkable here:

- A message composed in the read buffer overwrites a message waiting
  there (S:586, C:299). If it is as long, the waiting one is lost without a
  trace, a configuration for instance, and the end handles its own message;
  otherwise that end is deaf until its buffer is full (`TraceSystem`).
- A client keeps one filter per session (C:358-375): of two configurations that
  concern it, one for its service and one for its machine, the one it reads last
  is at work for both, while the server stores logs for both (`Right`).
- A message of the server whose last bytes come at a look that reads the length
  in the wrong order waits until the server sends another one (`ReadBuffer`).
- The gateway takes a server's message whose header an earlier look left in host
  order for a FastCGI record when its length is 1 modulo 256 (A:245,
  `TakenForRecord`).
- A report whose write failed counts as made (C:343), so that the client stays
  unknown until its connection is lost again.
- The assertion that the failing connection is `m_pCon` (C:116) meets NULL when
  a `SendMsg` inside the handler failed: the embedding process ends.
- The gateway forgets its connection to the server when one of nginx's fails
  (A:99), and a late answer inserts an entry NULL (A:369) that the next
  descriptor check dereferences.
- The server and a client whose sockets are full in both directions wait for
  each other, the server with everybody else (`Stuck` of `Stall`).
- Clearing a session in the Python client raises IndexError unless its entry is
  the last (P:184-187): the network thread ends, the process goes on
  and uploads (`ClearRaises`, `GoesDeaf`).
- After 2^31 seconds no answer finds its connection (A:545).
- A configuration for a name *and* an address is sent to that machine when it
  is set, but replayed to every client of the name when it reports (S:219), and
  one for an address only is never replayed.
- Expiry tells only the machine of a configuration that has an address (S:98),
  although the comment at S:94 speaks of all related clients; the others find
  out when they upload (`StaleFiltersEnd`).
- The NULL entries of S:579 end the server at its next descriptor check
  (modelled; needs a listed client closed by the idle check: one that is gone
  without the server having heard of it, since a live one sends heartbeats).
- A refused connect leaves the C++ client with a block without descriptor that
  nothing replaces (C:55): it never connects again (modelled, state "dead").
- Within one second, the answer to an abandoned request may be given to the
  request that took its descriptor (A:375; modelled, exempted above).
- With more configurations than `maxGetLogs`, every share of a fetch is zero, and
  nothing is fetched again.

## 7. Running the checks

    tlc -config MCTraceServerLogs.cfg MCTraceServer.tla
    tlapm TraceServerProofs.tla

and likewise for the other runs named in `PROJECT.json` and the other modules of
proofs; every run takes about three minutes or less with two workers, `CodecsProofs`
a quarter of an hour with two threads and the other proofs less.
