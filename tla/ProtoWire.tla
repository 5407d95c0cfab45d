------------------------------ MODULE ProtoWire -----------------------------
(***************************************************************************)
(* The wire format of protobuf as the generated code of common/trace.pb.cc *)
(* uses it through the library: a serialised message is a sequence of      *)
(* tokens, a field number with a varint, a text or a message inside.       *)
(*                                                                         *)
(* A text is the sequence of its bytes, of which only the part in a UTF-8  *)
(* character matters: a plain byte is a character, a lead byte needs the   *)
(* continuation byte after it.  Integers keep their width: 2^31, 2^63 and  *)
(* the 2^7 values of one byte of a varint are constants, so that TLC meets *)
(* their limits with small numbers.                                        *)
(***************************************************************************)
EXTENDS Integers, FiniteSets, SequencesExt

CONSTANTS Half32,   \* 2^31: an int32 is in -Half32 .. Half32 - 1
          Half64,   \* 2^63
          Group     \* 2^7: what one byte of a varint holds

ASSUME WireAssumption ==
  /\ Half32 \in Nat /\ Half32 >= 2
  /\ Half64 \in Nat /\ Half64 > Half32 /\ Half64 % Half32 = 0
  /\ Group \in Nat /\ Group >= 2

Byte == {"plain", "lead", "cont"}

Int32 == -Half32 .. Half32 - 1
Int64 == -Half64 .. Half64 - 1

Token == [num : Nat, kind : {"varint"}, val : 0 .. 2 * Half64 - 1]
    \cup [num : Nat, kind : {"text"}, val : Seq(Byte)]

\* WireFormatLite::VerifyUtf8String.
Utf8(text) ==
  \A k \in DOMAIN text :
    /\ text[k] = "lead" => k < Len(text) /\ text[k + 1] = "cont"
    /\ text[k] = "cont" => k > 1 /\ text[k - 1] = "lead"

----------------------------------------------------------------------------
(* Integers *)

\* The value of n in a signed integer with 2 * half values.
Signed(n, half) == ((n + half) % (2 * half)) - half

\* Mutant: no cast.
Int32Uncast(n) == n

Int32Of(n) == Signed(n, Half32)
Int64Of(n) == Signed(n, Half64)

\* WriteInt32ToArray, WriteInt64ToArray: a negative int32 is sign-extended.
Varint(n) == n % (2 * Half64)

VarintSize(u) == 1 + Cardinality({k \in 1 .. 9 : u >= Group ^ k})

----------------------------------------------------------------------------
(* What one field adds to the wire, and to its length.  Every field number *)
(* of trace.proto is below 16, so a tag is one byte.                       *)

IntField(num, n) ==
  IF n = 0 THEN << >> ELSE <<[num |-> num, kind |-> "varint", val |-> Varint(n)]>>

TextToken(num, text) == [num |-> num, kind |-> "text", val |-> text]

StringField(num, text) ==
  IF text = << >> THEN << >> ELSE <<TextToken(num, text)>>

\* A repeated field: every element, the empty ones too.
StringFields(num, texts) ==
  [k \in DOMAIN texts |-> TextToken(num, texts[k])]

\* A length and what it announces.
Delimited(n) == VarintSize(n) + n

IntSize(n) == IF n = 0 THEN 0 ELSE 1 + VarintSize(Varint(n))

StringSize(text) == IF text = << >> THEN 0 ELSE 1 + Delimited(Len(text))

StringsSize(texts) ==
  FoldLeft(LAMBDA size, text : size + 1 + Delimited(Len(text)), 0, texts)

FlatSize(wire) ==
  FoldLeft(LAMBDA size, t :
             size + 1 + (IF t.kind = "varint" THEN VarintSize(t.val)
                                              ELSE Delimited(Len(t.val))),
           0, wire)

UnknownSize(unknown) == FlatSize(unknown)

\* The bytes the tokens take, messages inside messages too.
WireSize(wire) ==
  FoldLeft(LAMBDA size, t :
             size + (IF t.kind = "message" THEN 1 + Delimited(FlatSize(t.val))
                                           ELSE FlatSize(<<t>>)),
           0, wire)

----------------------------------------------------------------------------
(* Parsing.  The cases of a message say, per field number, which field it  *)
(* is and how it is read.  A number without a case, or with another wire   *)
(* type than its case reads, is kept as an unknown field.                  *)

Field(name, type) ==
  [name |-> name, type |-> type,
   kind |-> IF type \in {"string", "strings"} THEN "text" ELSE "varint"]

\* A field that holds messages of the class with these cases.
Repeated(name, empty, cases) ==
  [name |-> name, kind |-> "message", type |-> "messages",
   empty |-> empty, cases |-> cases]

Accepts(cases, t) == t.num \in DOMAIN cases /\ cases[t.num].kind = t.kind

\* One token, into message m of a class that holds no messages.
Read(cases, m, t) ==
  IF ~Accepts(cases, t)
  THEN [ok |-> TRUE, msg |-> [m EXCEPT !.unknown = Append(@, t)]]
  ELSE LET name == cases[t.num].name IN
       CASE cases[t.num].type = "string" ->
              [ok |-> Utf8(t.val), msg |-> [m EXCEPT ![name] = t.val]]
         [] cases[t.num].type = "strings" ->
              [ok |-> Utf8(t.val), msg |-> [m EXCEPT ![name] = Append(@, t.val)]]
         [] cases[t.num].type = "int32" ->
              [ok |-> TRUE, msg |-> [m EXCEPT ![name] = Int32Of(t.val)]]
         [] cases[t.num].type = "int64" ->
              [ok |-> TRUE, msg |-> [m EXCEPT ![name] = Int64Of(t.val)]]

\* The message read, and whether all of it could be read.
ParseFlat(empty, cases, wire) ==
  FoldLeft(LAMBDA r, t : IF r.ok THEN Read(cases, r.msg, t) ELSE r,
           [ok |-> TRUE, msg |-> empty], wire)

\* One token, which may be a message to be parsed itself.
ReadAny(cases, m, t) ==
  IF t.kind = "message" /\ Accepts(cases, t)
  THEN LET field == cases[t.num]
           inner == ParseFlat(field.empty, field.cases, t.val)
       IN  [ok |-> inner.ok, msg |-> [m EXCEPT ![field.name] = Append(@, inner.msg)]]
  ELSE Read(cases, m, t)

\* ParseFromString.
ParseFrom(empty, cases, wire) ==
  FoldLeft(LAMBDA r, t : IF r.ok THEN ReadAny(cases, r.msg, t) ELSE r,
           [ok |-> TRUE, msg |-> empty], wire)

----------------------------------------------------------------------------
(* MergeFrom, field by field *)

\* A string of `from' is taken when it is not empty, a number when not 0.
Given(to, from) == IF from = << >> THEN to ELSE from
NonZero(to, from) == IF from = 0 THEN to ELSE from
=============================================================================
