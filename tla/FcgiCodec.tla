------------------------------ MODULE FcgiCodec -----------------------------
(***************************************************************************)
(* One connection between nginx and the gateway, byte by byte: nginx sends *)
(* a request as FastCGI records, cut where it likes; the gateway gathers   *)
(* them in two buffers, decodes the parameters and the form and composes   *)
(* a question to the trace server; it answers with a page cut into         *)
(* records, and the connection carries the next request                    *)
(* (async_cgi/AsyncCommThread.cpp:273-325, 473-533, 622-830, fastcgi.h).   *)
(* CgiGateway models the connections, the timeouts and the server.         *)
(***************************************************************************)
EXTENDS Buffer, CgiForm

CONSTANTS FCGI_MAX_LENGTH,  \* the longest content of a record
          Align,            \* 8: kRecordHeader, and what records are padded to
          QUERY_STRING, CONTENT_TYPE,  \* two names of parameters
          Standard,         \* application/x-www-form-urlencoded
          QueryForms, PostForms,   \* the forms a browser fills in
          PageLength,       \* the lengths of the pages
          Piece             \* the lengths of the records nginx cuts

Word == Base * Base * Base * Base   \* a long length has four bytes

\* What nginx names in a request, in a length of thirty-one bits.
Named == {QUERY_STRING, CONTENT_TYPE, Standard} \cup {FormData(q) : q \in QueryForms}

ASSUME FcgiAssumption ==
  /\ FCGI_MAX_LENGTH \in Nat /\ Align \in 1 .. FCGI_MAX_LENGTH
  /\ PageLength \subseteq Nat /\ Piece \subseteq Nat \ {0}
  /\ Base % 2 = 0
  /\ QueryForms \cup PostForms \subseteq Seq(Seq(Char) \X Seq(Char))
  /\ {QUERY_STRING, CONTENT_TYPE, Standard} \subseteq Seq(Char)
  /\ QUERY_STRING # CONTENT_TYPE
  /\ \A text \in Named : Len(text) < Word \div 2

VARIABLES typed,     \* nginx: the two forms of the request, <<post, query>>
          params,    \* nginx: the bytes of parameters not sent yet
          post,      \* nginx: the bytes of the body not sent yet
          sending,   \* nginx: the record it sends next, or "none"
          codec,     \* the gateway: FastCgiCodec of the connection
          asked,     \* the maps onRequest made of this request
          page,      \* what respond was given, of this request
          reply      \* the records written for it

vars == <<typed, params, post, sending, codec, asked, page, reply>>

NoPage == << -1 >>

Idle == [gotRequest_ |-> FALSE, params_ |-> NoParams, stdin_ |-> NewBuffer,
         paramsStream_ |-> NewBuffer, bWaitClose |-> FALSE]

----------------------------------------------------------------------------
(* The stream of parameters *)

\* A length below 128 is one byte, a longer one four with the first bit set.
LenBytes(n) ==
  IF n < Base \div 2 THEN <<n>>
  ELSE LET upper == n \div Base
           top == upper \div Base IN
       <<Base \div 2 + (top \div Base), top % Base, upper % Base, n % Base>>

Param(name, value) ==
  LenBytes(Len(name)) \o LenBytes(Len(value)) \o name \o value

\* The parameters of a request: the form in its URL and the type of its body.
ParamStream(query, type) ==
  Param(QUERY_STRING, FormData(query)) \o
  (IF type = << >> THEN << >> ELSE Param(CONTENT_TYPE, type))

Failed == -1
At(b, k) == b.data[b.r + k]

\* Mutant: the length of a long value is taken from its last byte.
readLenShort(b) ==
  IF At(b, 1) < Base \div 2
  THEN [len |-> At(b, 1), buf |-> retrieve(b, 1)]
  ELSE [len |-> At(b, 4), buf |-> retrieve(b, 4)]

\* readLen: -1 when fewer than four bytes of a long length are there.
readLen(b) ==
  IF readableBytes(b) < 1 THEN [len |-> Failed, buf |-> b]
  ELSE IF At(b, 1) < Base \div 2
  THEN [len |-> At(b, 1), buf |-> retrieve(b, 1)]
  ELSE IF readableBytes(b) < 4 THEN [len |-> Failed, buf |-> b]
  ELSE [len |-> (((At(b, 1) * Base + At(b, 2)) * Base + At(b, 3)) * Base + At(b, 4))
                  % (Word \div 2),
        buf |-> retrieve(b, 4)]

\* One turn of parseAllParams.
TakeParam(p) ==
  LET name == readLen(p.buf)
      value == readLen(name.buf)
      b == value.buf
      chars == Content(b) IN
  IF readableBytes(p.buf) = 0 \/ ~p.ok THEN p
  ELSE IF name.len = Failed \/ value.len = Failed
            \/ readableBytes(b) < (name.len + value.len) % Word
  THEN [p EXCEPT !.ok = FALSE, !.buf = b]
  ELSE [ok |-> TRUE, buf |-> retrieve(retrieve(b, name.len), value.len),
        map |-> Assign(p.map, SubSeq(chars, 1, name.len),
                           SubSeq(chars, name.len + 1, name.len + value.len))]

parseAllParams(c) ==
  FoldLeft(LAMBDA p, k : TakeParam(p),
           [ok |-> TRUE, buf |-> c.paramsStream_, map |-> c.params_],
           Content(c.paramsStream_))

----------------------------------------------------------------------------
(* Records *)

Value(map, name) == IF name \in DOMAIN map THEN map[name] ELSE << >>

\* onRequest: the map of this request, whatever method it names, joins those
\* composed before; stdin_ is retrieved, the rest is left to ResetConnStatus.
onRequest(c) ==
  /\ asked' = Append(asked, qmap(Content(c.stdin_), Value(c.params_, QUERY_STRING)))

\* ResetConnStatus, and the same three calls of HandleNginxMsg.
Cleared(c) ==
  [c EXCEPT !.gotRequest_ = FALSE, !.params_ = NoParams,
            !.stdin_ = retrieveAll(@), !.paramsStream_ = retrieveAll(@)]

ResetConnStatus(c) == Cleared(c)

Chunk(content, k, n) ==
  [type |-> "stdout", content |-> SubSeq(content, (k - 1) * n + 1, k * n),
   padding |-> (-n) % Align]

\* The chunks of FCGI_MAX_LENGTH bytes, and one more for what is left over.
Full(out) == Len(out) \div FCGI_MAX_LENGTH
FullChunks(out) == [k \in 1 .. Full(out) |-> Chunk(out, k, FCGI_MAX_LENGTH)]

\* Mutant: a record for what is left over, also when nothing is.
LastChunkAlways(out) ==
  LET rest == SubSeq(out, Full(out) * FCGI_MAX_LENGTH + 1, Len(out)) IN
  <<[type |-> "stdout", content |-> rest, padding |-> (-Len(rest)) % Align]>>

LastChunk(out) ==
  LET rest == SubSeq(out, Full(out) * FCGI_MAX_LENGTH + 1, Len(out)) IN
  IF rest = << >> THEN << >>
  ELSE <<[type |-> "stdout", content |-> rest, padding |-> (-Len(rest)) % Align]>>

endStdout == [type |-> "stdout", content |-> << >>, padding |-> 0]
endRequest == [type |-> "end", content |-> [k \in 1 .. Align |-> 0], padding |-> 0]

EmptyResult == <<0>>

respond(out) ==
  LET text == IF out = << >> THEN EmptyResult ELSE out
      stdout == IF Len(text) <= FCGI_MAX_LENGTH
                THEN <<[type |-> "stdout", content |-> text,
                        padding |-> (-Len(text)) % Align]>>
                ELSE FullChunks(text) \o LastChunk(text) IN
  stdout \o <<endStdout, endRequest>>

----------------------------------------------------------------------------
(* The gateway: HandleNginxMsg.  A record that comes while the request is  *)
(* still to be answered asks the server again, and clears the request.     *)

Pending(c) == IF c.gotRequest_ THEN Cleared(c) ELSE c

\* nginx sends nothing but an abort before the answer.
onBeginRequest ==
  /\ sending = "begin" /\ ~codec.bWaitClose
  /\ sending' = IF params = << >> THEN "endOfParams" ELSE "params"
  /\ UNCHANGED <<typed, params, post, codec, asked, page, reply>>

\* How much of `bytes' nginx puts into the next record.
Cuts(bytes) == {Min({n, Len(bytes)}) : n \in Piece}

onParams ==
  /\ sending = "params"
  /\ \E n \in Cuts(params) :
       /\ params' = SubSeq(params, n + 1, Len(params))
       /\ codec' = [codec EXCEPT !.paramsStream_ = append(@, SubSeq(params, 1, n))]
       /\ sending' = IF n = Len(params) THEN "endOfParams" ELSE "params"
  /\ UNCHANGED <<typed, post, asked, page, reply>>

onEndOfParams ==
  LET p == parseAllParams(codec) IN
  /\ sending = "endOfParams"
  /\ codec' = [codec EXCEPT !.paramsStream_ = p.buf, !.params_ = p.map,
                            !.bWaitClose = ~p.ok]
  /\ sending' = IF post = << >> THEN "endOfStdin" ELSE "stdin"
  /\ UNCHANGED <<typed, params, post, asked, page, reply>>

onStdin ==
  /\ sending = "stdin"
  /\ \E n \in Cuts(post) :
       /\ post' = SubSeq(post, n + 1, Len(post))
       /\ codec' = [codec EXCEPT !.stdin_ = append(@, SubSeq(post, 1, n))]
       /\ sending' = IF n = Len(post) THEN "endOfStdin" ELSE "stdin"
  /\ UNCHANGED <<typed, params, asked, page, reply>>

onEndOfStdin ==
  /\ sending = "endOfStdin" /\ sending' = "none"
  /\ onRequest(codec)
  /\ codec' = [codec EXCEPT !.gotRequest_ = TRUE, !.stdin_ = retrieveAll(@)]
  /\ UNCHANGED <<typed, params, post, page, reply>>

\* kFcgiAbortRequest is a type the switch does not know: the connection is
\* closed, after the branch for a request that is complete.
onAbort ==
  /\ sending = "none" /\ codec.gotRequest_
  /\ onRequest(codec)
  /\ codec' = [Pending(codec) EXCEPT !.bWaitClose = TRUE]
  /\ UNCHANGED <<typed, params, post, sending, page, reply>>

\* LoginResp, SetConfigResp, GetLogResp: the page of the server's answer.
Answer ==
  /\ sending = "none" /\ codec.gotRequest_
  /\ \E n \in PageLength :
       LET out == [k \in 1 .. n |-> k] IN page' = out /\ reply' = respond(out)
  /\ codec' = ResetConnStatus(codec)
  /\ UNCHANGED <<typed, params, post, sending, asked>>

\* nginx starts a request on the connection, kept or new.
Request ==
  /\ sending = "none" /\ ~codec.gotRequest_
  /\ \E q \in QueryForms, p \in PostForms, type \in {<< >>, Standard} :
       /\ typed' = <<p, q>>
       /\ post' = FormData(p)
       /\ params' = ParamStream(q, type)
  /\ sending' = "begin"
  /\ codec' = IF codec.bWaitClose THEN Idle ELSE codec
  /\ asked' = << >> /\ page' = NoPage /\ reply' = << >>

----------------------------------------------------------------------------
FcgiInit ==
  /\ typed = <<<< >>, << >>>> /\ params = << >> /\ post = << >>
  /\ sending = "none" /\ codec = Idle
  /\ asked = << >> /\ page = NoPage /\ reply = << >>

FcgiNext ==
  \/ Request
  \/ onBeginRequest \/ onParams \/ onEndOfParams
  \/ onStdin \/ onEndOfStdin \/ onAbort
  \/ Answer

FcgiSpec == FcgiInit /\ [][FcgiNext]_vars

----------------------------------------------------------------------------
(* Properties *)

\* However nginx cuts the streams, and whatever the requests before left in
\* the buffers, the first question composed for a request has the parameters
\* its browser typed: those posted first, then those of the URL.
AskedAsTyped ==
  asked # << >> => asked[1] = Typed(typed[1] \o typed[2])

\* Streams that nginx encoded are decoded: no request is given up for its
\* parameters.
NothingGivenUp == codec.bWaitClose => Len(asked) > 1

\* The two buffers are well formed and between them and nginx no byte of the
\* request is lost, doubled or out of place.
BuffersHold ==
  /\ codec.stdin_ \in BufferOf(Char) /\ codec.paramsStream_ \in BufferOf(Char)
  /\ sending \in {"params", "endOfParams"} =>
       \E q \in QueryForms, type \in {<< >>, Standard} :
         Content(codec.paramsStream_) \o params = ParamStream(q, type)
  /\ sending \in {"stdin", "endOfStdin"} =>
       Content(codec.stdin_) \o post = FormData(typed[1])

\* The seen page: what nginx puts together of the stdout records.
Stdout(records) ==
  FoldLeft(LAMBDA out, rec : IF rec.type = "stdout" THEN out \o rec.content ELSE out,
           << >>, records)

\* nginx gets the page, whole and in order, in records that it can read: no
\* content longer than the length field, each padded to a multiple of eight,
\* an empty one to end the page and nothing after the end of the request.
PageIsWhole ==
  page # NoPage =>
    /\ Stdout(reply) = IF page = << >> THEN EmptyResult ELSE page
    /\ \A k \in DOMAIN reply :
         /\ Len(reply[k].content) <= FCGI_MAX_LENGTH
         /\ (Len(reply[k].content) + reply[k].padding) % Align = 0
         /\ reply[k].content = << >> <=> k = Len(reply) - 1
         /\ reply[k].type = "end" <=> k = Len(reply)
=============================================================================
