---------------------------- MODULE CodecsProofs ----------------------------
(***************************************************************************)
(* The messages and what travels in them, for every text, every long, any  *)
(* lengths of a text and of a message, and any width of the integers.      *)
(*                                                                         *)
(* A wire is parsed token by token, a fold.  ReadsTo says of a part of a   *)
(* wire what it makes of a message and which of its texts must be UTF-8;   *)
(* each kind of field adds its part (the ...Step lemmas), so that for each *)
(* class the fields in the order of _InternalSerialize give its MergeFrom  *)
(* (the ...Parsed lemmas).  Sized says the same of lengths.  A CASE over   *)
(* the names of the classes is met once, in the ...Codec and ...Fielded    *)
(* lemmas; the theorems speak of MsgNames.                                 *)
(*                                                                         *)
(* Codecs picks what it probes from small sets, and its invariants follow  *)
(* from theorems about all messages and wires.  Conversation's follow from *)
(* ConversationInv, which says at each stage what the wire can hold and    *)
(* that it is legible exactly when what was asked is.                      *)
(***************************************************************************)
EXTENDS Codecs, Conversation, Folding, FiniteSetTheorems

----------------------------------------------------------------------------
(* The folds of parsing *)

\* ParseFrom from a state on.
Turn(cases, r, t) == IF r.ok THEN ReadAny(cases, r.msg, t) ELSE r
ParsedAll(cases, b, s) ==
  FoldLeft(LAMBDA r, t : IF r.ok THEN ReadAny(cases, r.msg, t) ELSE r, b, s)

\* ParseFrom, one token after the other.
ParsedRuns(cases, b, s, S) ==
  \E f : /\ f \in [0 .. Len(s) -> S] /\ f[0] = b
         /\ \A k \in 1 .. Len(s) : f[k] = Turn(cases, f[k - 1], s[k])
         /\ ParsedAll(cases, b, s) = f[Len(s)]

\* ParseFrom is the last of a row of states.
LEMMA ParsedSteps ==
  ASSUME NEW cases, NEW C, NEW s \in Seq(C), NEW b, NEW S, b \in S
  PROVE  (\A k \in 1 .. Len(s) : \A x \in S : Turn(cases, x, s[k]) \in S) => ParsedRuns(cases, b, s, S)
<1>0. SUFFICES ASSUME \A k \in 1 .. Len(s) : \A x \in S : Turn(cases, x, s[k]) \in S
      PROVE  ParsedRuns(cases, b, s, S)
  OBVIOUS
<1> DEFINE n == Len(s)
           base == b
           step == [p \in (1 .. n) \X S |-> Turn(cases, p[2], s[p[1]])]
           turn(f, t) == IF t = {} THEN base
                         ELSE Turn(cases, f[t \ {Max(t)}], s[Max(t)])
           iter == CHOOSE iter : iter = [t \in SUBSET DOMAIN s |-> turn(iter, t)]
<1>1. DOMAIN s = 1 .. n /\ n \in Nat
  OBVIOUS
<1>a. ParsedAll(cases, b, s) = iter[DOMAIN s]
  BY DEF ParsedAll, Turn, FoldLeft, MapThenFoldSet
<1>2. step \in [(1 .. n) \X S -> S] /\ base \in S
  BY <1>0
<1> HIDE DEF n, base
<1>3. \E h : h = [t \in SUBSET (1 .. n) |-> turn(h, t)]
  <2>1. PICK h : Folded(S, base, n, step, h)
    <3> HIDE DEF step
    <3>1. QED BY <1>1, <1>2, FoldIs
  <2> DEFINE g == [t \in SUBSET (1 .. n) |-> h[t]]
  <2>2. ASSUME NEW t \in SUBSET (1 .. n) PROVE g[t] = turn(g, t)
    BY <2>1 DEF Folded
  <2>3. g = [t \in SUBSET (1 .. n) |-> turn(g, t)]
    <3>1. g = [t \in SUBSET (1 .. n) |-> g[t]]
      OBVIOUS
    <3> HIDE DEF turn, g
    <3>2. QED BY <2>2, <3>1
  <2>4. QED BY <2>3
<1>4. iter = [t \in SUBSET (1 .. n) |-> turn(iter, t)]
  BY <1>1, <1>3
<1>5. \A t \in SUBSET (1 .. n) : iter[t] = turn(iter, t)
  <2> HIDE DEF turn, iter
  <2>1. QED BY <1>4
<1> HIDE DEF iter
<1>6. Iterates(iter, S, base, n, step)
  <2>1. iter[{}] = base
    BY <1>5
  <2>2. ASSUME NEW t \in SUBSET (1 .. n), t # {}, iter[t \ {Max(t)}] \in S
        PROVE  iter[t] = step[<<Max(t), iter[t \ {Max(t)}]>>]
    <3>1. Max(t) \in 1 .. n
      BY <1>1, <2>2, LastIn
    <3>2. QED BY <1>5, <2>2, <3>1
  <2>3. QED BY <2>1, <2>2 DEF Iterates
<1>7. PICK f : Trace(f, S, base, n, step) /\ iter[1 .. n] = f[n]
  <2> HIDE DEF step
  <2>1. HasTrace(iter, S, base, n, step)
    BY <1>1, <1>2, <1>6, TraceOf
  <2>2. QED BY <2>1 DEF HasTrace
<1>8. ASSUME NEW k \in 1 .. n PROVE f[k] = Turn(cases, f[k - 1], s[k])
  <2>1. k - 1 \in 0 .. n
    BY <1>1
  <2>2. <<k, f[k - 1]>> \in (1 .. n) \X S
    BY <1>7, <2>1 DEF Trace
  <2>3. QED BY <1>7, <2>2 DEF Trace
<1>9. QED BY <1>1, <1>a, <1>7, <1>8 DEF ParsedRuns, Trace, n, base

\* ParseFlat from a state on.
FlatTurn(cases, r, t) == IF r.ok THEN Read(cases, r.msg, t) ELSE r
FlatAll(cases, b, s) ==
  FoldLeft(LAMBDA r, t : IF r.ok THEN Read(cases, r.msg, t) ELSE r, b, s)

\* ParseFlat, one token after the other.
FlatRuns(cases, b, s, S) ==
  \E f : /\ f \in [0 .. Len(s) -> S] /\ f[0] = b
         /\ \A k \in 1 .. Len(s) : f[k] = FlatTurn(cases, f[k - 1], s[k])
         /\ FlatAll(cases, b, s) = f[Len(s)]

\* ParseFlat is the last of a row of states.
LEMMA FlatSteps ==
  ASSUME NEW cases, NEW C, NEW s \in Seq(C), NEW b, NEW S, b \in S
  PROVE  (\A k \in 1 .. Len(s) : \A x \in S : FlatTurn(cases, x, s[k]) \in S)
         => FlatRuns(cases, b, s, S)
<1>0. SUFFICES ASSUME \A k \in 1 .. Len(s) : \A x \in S : FlatTurn(cases, x, s[k]) \in S
      PROVE  FlatRuns(cases, b, s, S)
  OBVIOUS
<1> DEFINE n == Len(s)
           base == b
           step == [p \in (1 .. n) \X S |-> FlatTurn(cases, p[2], s[p[1]])]
           turn(f, t) == IF t = {} THEN base
                         ELSE FlatTurn(cases, f[t \ {Max(t)}], s[Max(t)])
           iter == CHOOSE iter : iter = [t \in SUBSET DOMAIN s |-> turn(iter, t)]
<1>1. DOMAIN s = 1 .. n /\ n \in Nat
  OBVIOUS
<1>a. FlatAll(cases, b, s) = iter[DOMAIN s]
  BY DEF FlatAll, FlatTurn, FoldLeft, MapThenFoldSet
<1>2. step \in [(1 .. n) \X S -> S] /\ base \in S
  BY <1>0
<1> HIDE DEF n, base
<1>3. \E h : h = [t \in SUBSET (1 .. n) |-> turn(h, t)]
  <2>1. PICK h : Folded(S, base, n, step, h)
    <3> HIDE DEF step
    <3>1. QED BY <1>1, <1>2, FoldIs
  <2> DEFINE g == [t \in SUBSET (1 .. n) |-> h[t]]
  <2>2. ASSUME NEW t \in SUBSET (1 .. n) PROVE g[t] = turn(g, t)
    BY <2>1 DEF Folded
  <2>3. g = [t \in SUBSET (1 .. n) |-> turn(g, t)]
    <3>1. g = [t \in SUBSET (1 .. n) |-> g[t]]
      OBVIOUS
    <3> HIDE DEF turn, g
    <3>2. QED BY <2>2, <3>1
  <2>4. QED BY <2>3
<1>4. iter = [t \in SUBSET (1 .. n) |-> turn(iter, t)]
  BY <1>1, <1>3
<1>5. \A t \in SUBSET (1 .. n) : iter[t] = turn(iter, t)
  <2> HIDE DEF turn, iter
  <2>1. QED BY <1>4
<1> HIDE DEF iter
<1>6. Iterates(iter, S, base, n, step)
  <2>1. iter[{}] = base
    BY <1>5
  <2>2. ASSUME NEW t \in SUBSET (1 .. n), t # {}, iter[t \ {Max(t)}] \in S
        PROVE  iter[t] = step[<<Max(t), iter[t \ {Max(t)}]>>]
    <3>1. Max(t) \in 1 .. n
      BY <1>1, <2>2, LastIn
    <3>2. QED BY <1>5, <2>2, <3>1
  <2>3. QED BY <2>1, <2>2 DEF Iterates
<1>7. PICK f : Trace(f, S, base, n, step) /\ iter[1 .. n] = f[n]
  <2> HIDE DEF step
  <2>1. HasTrace(iter, S, base, n, step)
    BY <1>1, <1>2, <1>6, TraceOf
  <2>2. QED BY <2>1 DEF HasTrace
<1>8. ASSUME NEW k \in 1 .. n PROVE f[k] = FlatTurn(cases, f[k - 1], s[k])
  <2>1. k - 1 \in 0 .. n
    BY <1>1
  <2>2. <<k, f[k - 1]>> \in (1 .. n) \X S
    BY <1>7, <2>1 DEF Trace
  <2>3. QED BY <1>7, <2>2 DEF Trace
<1>9. QED BY <1>1, <1>a, <1>7, <1>8 DEF FlatRuns, Trace, n, base

----------------------------------------------------------------------------
(* Integers *)

\* The remainder of a division is below the divisor.
LEMMA Remainder ==
  ASSUME NEW a \in Int, NEW d \in Nat, d >= 1
  PROVE  a % d \in 0 .. d - 1
OBVIOUS

\* What a division leaves of a multiple and a little more.
LEMMA RemainderIs ==
  ASSUME NEW q \in Int, NEW d \in Nat, d >= 1, NEW r \in 0 .. d - 1
  PROVE  (q * d + r) % d = r
<1> DEFINE a == q * d + r
           k == a \div d
           s == a % d
<1>1. a \in Int /\ k \in Int /\ s \in 0 .. d - 1 /\ a = d * k + s
  BY Z3
<1>2. q * d - d * k \in Int /\ d * (q - k) = q * d - d * k
  BY <1>1, Z3
<1>3. d * (q - k) = s - r
  BY <1>1, <1>2
<1> DEFINE e == q - k
<1>4. e \in Int
  BY <1>1
<1>5. d * e = s - r
  BY <1>3
<1>6. s - r < d /\ s - r > 0 - d
  BY <1>1
<1> HIDE DEF e, k, s, a
<1>7. e = 0
  <2>1. e >= 1 => d * e >= d
    BY <1>4, Z3
  <2>2. e <= 0 - 1 => d * e <= 0 - d
    BY <1>4, Z3
  <2>3. QED BY <1>4, <1>5, <1>6, <2>1, <2>2, <1>1
<1>8. QED BY <1>1, <1>5, <1>7 DEF s, a

\* A number is its quotient and its remainder.
LEMMA Quotient ==
  ASSUME NEW a \in Nat, NEW d \in Nat, d >= 1
  PROVE  a \div d \in Int /\ a = d * (a \div d) + (a % d)
<1>1. a % d \in 0 .. d - 1
  OBVIOUS
<1>2. a \div d \in Int
  OBVIOUS
<1>3. a = d * (a \div d) + (a % d)
  OBVIOUS
<1>4. QED BY <1>2, <1>3

\* The 2^64 values of a varint are a whole number of rounds of an int32.
LEMMA Rounds ==
  /\ Half32 \in Nat /\ Half32 >= 1 /\ Half64 \in Nat /\ Half64 >= Half32
  /\ \E q \in Nat : 2 * Half64 = q * (2 * Half32)
<1>1. Half32 \in Nat /\ Half32 >= 1 /\ Half64 \in Nat /\ Half64 >= 1
  BY WireAssumption
<1> DEFINE q == Half64 \div Half32
<1>2. q \in Int /\ Half64 = Half32 * q + (Half64 % Half32)
  BY <1>1, Quotient
<1>3. Half64 = Half32 * q
  BY <1>1, <1>2, WireAssumption
<1> HIDE DEF q
<1>4. q >= 1
  <2>1. q <= 0 => Half32 * q <= 0
    BY <1>1, <1>2, Z3
  <2>2. QED BY <1>1, <1>2, <1>3, <2>1
<1>5. Half32 * q >= Half32
  BY <1>1, <1>2, <1>4, Z3
<1>6. 2 * (Half32 * q) = q * (2 * Half32)
  BY <1>1, <1>2, Z3
<1>7. q \in Nat
  BY <1>2, <1>4
<1>8. QED BY <1>1, <1>3, <1>5, <1>6, <1>7

\* The casts of _InternalParse give a value of the field's type.
LEMMA Casts ==
  ASSUME NEW n \in Int
  PROVE  Int32Of(n) \in Int32 /\ Int64Of(n) \in Int64 /\ Varint(n) \in 0 .. 2 * Half64 - 1
<1>1. (n + Half32) % (2 * Half32) \in 0 .. 2 * Half32 - 1
  BY Rounds, Remainder
<1>2. (n + Half64) % (2 * Half64) \in 0 .. 2 * Half64 - 1
  BY Rounds, Remainder
<1>3. n % (2 * Half64) \in 0 .. 2 * Half64 - 1
  BY Rounds, Remainder
<1> DEFINE a == (n + Half32) % (2 * Half32)
           b == (n + Half64) % (2 * Half64)
<1>4. a - Half32 \in Int32 /\ b - Half64 \in Int64
  <2>1. a \in 0 .. 2 * Half32 - 1 /\ b \in 0 .. 2 * Half64 - 1
    BY <1>1, <1>2
  <2> HIDE DEF a, b
  <2>2. QED BY <2>1, Rounds DEF Int32, Int64
<1>5. QED BY <1>3, <1>4 DEF Int32Of, Int64Of, Varint, Signed

\* A number of the field's type comes back from the wire, a negative int32
\* from its ten bytes too.
LEMMA VarintOf ==
  ASSUME NEW n \in Int64
  PROVE  Varint(n) = IF n >= 0 THEN n ELSE n + 2 * Half64
<1>1. n \in Int /\ n >= 0 - Half64 /\ n <= Half64 - 1
  BY Rounds DEF Int64
<1>2. CASE n >= 0
  <2>1. (0 * (2 * Half64) + n) % (2 * Half64) = n
    BY <1>1, <1>2, Rounds, RemainderIs
  <2>2. QED BY <1>1, <1>2, <2>1, Rounds DEF Varint
<1>3. CASE n < 0
  <2>1. ((-1) * (2 * Half64) + (n + 2 * Half64)) % (2 * Half64) = n + 2 * Half64
    BY <1>1, <1>3, Rounds, RemainderIs
  <2>2. (-1) * (2 * Half64) + (n + 2 * Half64) = n
    BY <1>1, Rounds
  <2>3. QED BY <1>1, <1>3, <2>1, <2>2, Rounds DEF Varint
<1>4. QED BY <1>1, <1>2, <1>3

\* Cut to its width and given its sign, a number that fits is what it was.
LEMMA SignedBack ==
  ASSUME NEW half \in Nat, half >= 1, NEW q \in Int, NEW n \in -half .. half - 1
  PROVE  Signed(n + q * (2 * half), half) = n
<1> DEFINE d == 2 * half
           r == n + half
<1>0. d \in Nat /\ d >= 1 /\ r \in 0 .. d - 1
  OBVIOUS
<1>1. (q * d + r) % d = r
  <2> HIDE DEF d, r
  <2>1. QED BY <1>0, RemainderIs
<1>2. q * (2 * half) \in Int
  BY Z3
<1>3. n + q * (2 * half) + half = q * (2 * half) + (n + half)
  BY <1>2
<1>4. QED BY <1>1, <1>3 DEF Signed

\* A number that fits its field comes out of the varint as it went in.
LEMMA NumbersBack ==
  /\ \A n \in Int32 : Int32Of(Varint(n)) = n
  /\ \A n \in Int64 : Int64Of(Varint(n)) = n
  /\ Int32 \in SUBSET Int64 /\ 0 \in Int32 /\ Int64 \in SUBSET Int
<1>1. Int32 \in SUBSET Int64 /\ 0 \in Int32 /\ Int64 \in SUBSET Int
  BY Rounds DEF Int32, Int64
<1>2. PICK q \in Nat : 2 * Half64 = q * (2 * Half32)
  BY Rounds
<1>3. ASSUME NEW n \in Int32 PROVE Int32Of(Varint(n)) = n
  <2>1. n \in -Half32 .. Half32 - 1 /\ n \in Int64 /\ n \in Int
    BY <1>1 DEF Int32
  <2>2. Signed(n + q * (2 * Half32), Half32) = n
    BY <2>1, Rounds, SignedBack
  <2>3. Signed(n + 0 * (2 * Half32), Half32) = n
    <3>1. 0 \in Int
      OBVIOUS
    <3>2. QED BY <2>1, <3>1, Rounds, SignedBack
  <2>4. n + 0 * (2 * Half32) = n
    BY <2>1, Rounds
  <2>5. QED BY <1>2, <2>1, <2>2, <2>3, <2>4, VarintOf DEF Int32Of
<1>4. ASSUME NEW n \in Int64 PROVE Int64Of(Varint(n)) = n
  <2>1. n \in -Half64 .. Half64 - 1 /\ n \in Int /\ Half64 \in Nat /\ Half64 >= 1
    BY <1>1, Rounds DEF Int64
  <2>2. Signed(n + 1 * (2 * Half64), Half64) = n
    <3>1. 1 \in Int
      OBVIOUS
    <3>2. QED BY <2>1, <3>1, Rounds, SignedBack
  <2>3. Signed(n + 0 * (2 * Half64), Half64) = n
    <3>1. 0 \in Int
      OBVIOUS
    <3>2. QED BY <2>1, <3>1, Rounds, SignedBack
  <2>4. n + 0 * (2 * Half64) = n /\ 1 * (2 * Half64) = 2 * Half64
    BY <2>1, Rounds
  <2>5. QED BY <2>1, <2>2, <2>3, <2>4, VarintOf DEF Int64Of
<1>5. QED BY <1>1, <1>3, <1>4

----------------------------------------------------------------------------
(* Classes of messages *)

Types == {"string", "strings", "int32", "int64", "messages"}
KindOf(type) ==
  IF type \in {"string", "strings"} THEN "text"
  ELSE IF type = "messages" THEN "message" ELSE "varint"

\* What a field of the type can hold.
Values(type) ==
  IF type = "string" THEN Seq(Byte)
  ELSE IF type = "strings" THEN Seq(Seq(Byte))
  ELSE IF type = "int32" THEN Int32
  ELSE IF type = "int64" THEN Int64
  ELSE Seq(LogTextMsg)

\* The messages in M have the field that case c reads, and can be given any
\* other value in it.
HasField(c, M) ==
  /\ c.type \in Types /\ c.kind = KindOf(c.type)
  /\ c.type = "messages" => c.empty = EmptyLogText /\ c.cases = LogText_Cases
  /\ \A m \in M :
       /\ c.name \in DOMAIN m /\ m[c.name] \in Values(c.type)
       /\ [m EXCEPT ![c.name] = m[c.name]] = m
       /\ \A v \in Values(c.type) : [m EXCEPT ![c.name] = v] \in M

\* M is a class of messages, which these cases read.
Class(cases, M) ==
  /\ \A num \in DOMAIN cases : HasField(cases[num], M)
  /\ \A m \in M :
       /\ "unknown" \in DOMAIN m /\ m.unknown \in Seq(Token)
       /\ [m EXCEPT !.unknown = m.unknown] = m
       /\ \A u \in Seq(Token) : [m EXCEPT !.unknown = u] \in M

Results(M) == [ok : BOOLEAN, msg : M]

\* The wires a class reads: a message inside is one it knows.
MessageToken == [num : Nat, kind : {"message"}, val : Seq(Token)]
Tokens(cases) ==
  {t \in Token \cup MessageToken : t.kind = "message" => Accepts(cases, t)}

\* The two shapes of a token, and that of a message inside another.
LEMMA TokenIs ==
  /\ \A t \in Token : /\ t.num \in Nat
                      /\ \/ t.kind = "varint" /\ t.val \in Int
                         \/ t.kind = "text" /\ t.val \in Seq(Byte)
  /\ \A t \in MessageToken : t.kind = "message" /\ t.val \in Seq(Token)
<1>1. ASSUME NEW t \in Token
      PROVE  /\ t.num \in Nat
             /\ \/ t.kind = "varint" /\ t.val \in Int
                \/ t.kind = "text" /\ t.val \in Seq(Byte)
  <2>1. 0 .. 2 * Half64 - 1 \in SUBSET Int
    BY Rounds
  <2>2. QED BY <2>1 DEF Token
<1>2. QED BY <1>1 DEF MessageToken

\* _InternalParse leaves a message of the class.
LEMMA ReadKeeps ==
  ASSUME NEW cases, NEW M, Class(cases, M), NEW m \in M, NEW t \in Token
  PROVE  Read(cases, m, t) \in Results(M)
<1>1. CASE ~Accepts(cases, t)
  <2>1. m.unknown \in Seq(Token)
    BY DEF Class
  <2>2. Append(m.unknown, t) \in Seq(Token)
    BY <2>1
  <2>3. [m EXCEPT !.unknown = Append(@, t)] \in M
    BY <2>2 DEF Class
  <2>4. QED BY <1>1, <2>3 DEF Read, Results
<1>2. CASE Accepts(cases, t)
  <2> DEFINE c == cases[t.num]
             name == c.name
  <2>1. HasField(c, M) /\ c.kind = t.kind
    BY <1>2 DEF Accepts, Class
  <2>2. CASE t.kind = "text"
    <3>1. t.val \in Seq(Byte) /\ c.type \in {"string", "strings"}
      BY <2>1, <2>2, TokenIs DEF HasField, KindOf, Types
    <3>2. CASE c.type = "string"
      <4>1. [m EXCEPT ![name] = t.val] \in M
        BY <2>1, <3>1, <3>2 DEF HasField, Values
      <4>2. Read(cases, m, t) = [ok |-> Utf8(t.val), msg |-> [m EXCEPT ![name] = t.val]]
        BY <1>2, <3>2 DEF Read
      <4>3. Utf8(t.val) \in BOOLEAN
        BY DEF Utf8
      <4>4. QED BY <4>1, <4>2, <4>3 DEF Results
    <3>3. CASE c.type = "strings"
      <4>1. m[name] \in Seq(Seq(Byte))
        BY <2>1, <3>3 DEF HasField, Values
      <4>2. Append(m[name], t.val) \in Seq(Seq(Byte))
        BY <3>1, <4>1
      <4>3. [m EXCEPT ![name] = Append(@, t.val)] \in M
        BY <2>1, <3>3, <4>2 DEF HasField, Values
      <4>4. Read(cases, m, t)
              = [ok |-> Utf8(t.val), msg |-> [m EXCEPT ![name] = Append(@, t.val)]]
        BY <1>2, <3>3 DEF Read
      <4>5. Utf8(t.val) \in BOOLEAN
        BY DEF Utf8
      <4>6. QED BY <4>3, <4>4, <4>5 DEF Results
    <3>4. QED BY <3>1, <3>2, <3>3
  <2>3. CASE t.kind = "varint"
    <3>1. t.val \in Int /\ c.type \in {"int32", "int64"}
      BY <2>1, <2>3, TokenIs DEF HasField, KindOf, Types
    <3>2. Int32Of(t.val) \in Int32 /\ Int64Of(t.val) \in Int64
      BY <3>1, Casts
    <3>3. CASE c.type = "int32"
      <4>1. [m EXCEPT ![name] = Int32Of(t.val)] \in M
        BY <2>1, <3>2, <3>3 DEF HasField, Values
      <4>2. Read(cases, m, t) = [ok |-> TRUE, msg |-> [m EXCEPT ![name] = Int32Of(t.val)]]
        BY <1>2, <3>3 DEF Read
      <4>3. QED BY <4>1, <4>2 DEF Results
    <3>4. CASE c.type = "int64"
      <4>1. [m EXCEPT ![name] = Int64Of(t.val)] \in M
        BY <2>1, <3>2, <3>4 DEF HasField, Values
      <4>2. Read(cases, m, t) = [ok |-> TRUE, msg |-> [m EXCEPT ![name] = Int64Of(t.val)]]
        BY <1>2, <3>4 DEF Read
      <4>3. QED BY <4>1, <4>2 DEF Results
    <3>5. QED BY <3>1, <3>3, <3>4
  <2>4. QED BY <2>2, <2>3, TokenIs
<1>3. QED BY <1>1, <1>2

\* Read also keeps to the cases of the messages that are inside another.
LEMMA FlatKeeps ==
  ASSUME NEW cases, NEW M, Class(cases, M), NEW b \in Results(M), NEW s \in Seq(Token)
  PROVE  FlatRuns(cases, b, s, Results(M)) /\ FlatAll(cases, b, s) \in Results(M)
<1>1. \A k \in 1 .. Len(s) : s[k] \in Token
  OBVIOUS
<1>2. \A k \in 1 .. Len(s) : \A x \in Results(M) : FlatTurn(cases, x, s[k]) \in Results(M)
  BY <1>1, ReadKeeps DEF FlatTurn, Results
<1>3. FlatRuns(cases, b, s, Results(M))
  BY <1>2, FlatSteps
<1>4. Len(s) \in 0 .. Len(s)
  OBVIOUS
<1>5. QED BY <1>3, <1>4 DEF FlatRuns

\* LoginReq
LEMMA LoginReqClass ==
  /\ DOMAIN LoginReq_Cases = {1, 2, 3, 4}
  /\ LoginReq_Cases[1] = Field("user_name", "string")
  /\ LoginReq_Cases[2] = Field("password", "string")
  /\ LoginReq_Cases[3] = Field("fd", "int32")
  /\ LoginReq_Cases[4] = Field("req_begin_time", "int32")
  /\ Class(LoginReq_Cases, LoginReqMsg)
<1>1. DOMAIN LoginReq_Cases = {1, 2, 3, 4}
  BY DEF LoginReq_Cases
<1>2. /\ LoginReq_Cases[1] = Field("user_name", "string")
      /\ LoginReq_Cases[2] = Field("password", "string")
      /\ LoginReq_Cases[3] = Field("fd", "int32")
      /\ LoginReq_Cases[4] = Field("req_begin_time", "int32")
  BY DEF LoginReq_Cases
<1>3. HasField(LoginReq_Cases[1], LoginReqMsg)
  <2>1. ASSUME NEW m \in LoginReqMsg
        PROVE  /\ "user_name" \in DOMAIN m /\ m.user_name \in Seq(Byte)
               /\ [m EXCEPT !.user_name = m.user_name] = m
               /\ \A v \in Seq(Byte) : [m EXCEPT !.user_name = v] \in LoginReqMsg
    BY DEF LoginReqMsg
  <2>2. QED BY <1>2, <2>1 DEF HasField, Field, KindOf, Types, Values
<1>4. HasField(LoginReq_Cases[2], LoginReqMsg)
  <2>1. ASSUME NEW m \in LoginReqMsg
        PROVE  /\ "password" \in DOMAIN m /\ m.password \in Seq(Byte)
               /\ [m EXCEPT !.password = m.password] = m
               /\ \A v \in Seq(Byte) : [m EXCEPT !.password = v] \in LoginReqMsg
    BY DEF LoginReqMsg
  <2>2. QED BY <1>2, <2>1 DEF HasField, Field, KindOf, Types, Values
<1>5. HasField(LoginReq_Cases[3], LoginReqMsg)
  <2>1. ASSUME NEW m \in LoginReqMsg
        PROVE  /\ "fd" \in DOMAIN m /\ m.fd \in Int32
               /\ [m EXCEPT !.fd = m.fd] = m
               /\ \A v \in Int32 : [m EXCEPT !.fd = v] \in LoginReqMsg
    BY DEF LoginReqMsg
  <2>2. QED BY <1>2, <2>1 DEF HasField, Field, KindOf, Types, Values
<1>6. HasField(LoginReq_Cases[4], LoginReqMsg)
  <2>1. ASSUME NEW m \in LoginReqMsg
        PROVE  /\ "req_begin_time" \in DOMAIN m /\ m.req_begin_time \in Int32
               /\ [m EXCEPT !.req_begin_time = m.req_begin_time] = m
               /\ \A v \in Int32 : [m EXCEPT !.req_begin_time = v] \in LoginReqMsg
    BY DEF LoginReqMsg
  <2>2. QED BY <1>2, <2>1 DEF HasField, Field, KindOf, Types, Values
<1>7. ASSUME NEW m \in LoginReqMsg
      PROVE  /\ "unknown" \in DOMAIN m /\ m.unknown \in Seq(Token)
             /\ [m EXCEPT !.unknown = m.unknown] = m
             /\ \A u \in Seq(Token) : [m EXCEPT !.unknown = u] \in LoginReqMsg
  BY DEF LoginReqMsg
<1>8. QED BY <1>1, <1>2, <1>3, <1>4, <1>5, <1>6, <1>7 DEF Class

\* LoginResp
LEMMA LoginRespClass ==
  /\ DOMAIN LoginResp_Cases = {1, 2, 3, 4, 5}
  /\ LoginResp_Cases[1] = Field("session_id", "string")
  /\ LoginResp_Cases[2] = Field("fd", "int32")
  /\ LoginResp_Cases[3] = Field("req_begin_time", "int32")
  /\ LoginResp_Cases[4] = Field("ret", "int32")
  /\ LoginResp_Cases[5] = Field("ret_msg", "string")
  /\ Class(LoginResp_Cases, LoginRespMsg)
<1>1. DOMAIN LoginResp_Cases = {1, 2, 3, 4, 5}
  BY DEF LoginResp_Cases
<1>2. /\ LoginResp_Cases[1] = Field("session_id", "string")
      /\ LoginResp_Cases[2] = Field("fd", "int32")
      /\ LoginResp_Cases[3] = Field("req_begin_time", "int32")
      /\ LoginResp_Cases[4] = Field("ret", "int32")
      /\ LoginResp_Cases[5] = Field("ret_msg", "string")
  BY DEF LoginResp_Cases
<1>3. HasField(LoginResp_Cases[1], LoginRespMsg)
  <2>1. ASSUME NEW m \in LoginRespMsg
        PROVE  /\ "session_id" \in DOMAIN m /\ m.session_id \in Seq(Byte)
               /\ [m EXCEPT !.session_id = m.session_id] = m
               /\ \A v \in Seq(Byte) : [m EXCEPT !.session_id = v] \in LoginRespMsg
    BY DEF LoginRespMsg
  <2>2. QED BY <1>2, <2>1 DEF HasField, Field, KindOf, Types, Values
<1>4. HasField(LoginResp_Cases[2], LoginRespMsg)
  <2>1. ASSUME NEW m \in LoginRespMsg
        PROVE  /\ "fd" \in DOMAIN m /\ m.fd \in Int32
               /\ [m EXCEPT !.fd = m.fd] = m
               /\ \A v \in Int32 : [m EXCEPT !.fd = v] \in LoginRespMsg
    BY DEF LoginRespMsg
  <2>2. QED BY <1>2, <2>1 DEF HasField, Field, KindOf, Types, Values
<1>5. HasField(LoginResp_Cases[3], LoginRespMsg)
  <2>1. ASSUME NEW m \in LoginRespMsg
        PROVE  /\ "req_begin_time" \in DOMAIN m /\ m.req_begin_time \in Int32
               /\ [m EXCEPT !.req_begin_time = m.req_begin_time] = m
               /\ \A v \in Int32 : [m EXCEPT !.req_begin_time = v] \in LoginRespMsg
    BY DEF LoginRespMsg
  <2>2. QED BY <1>2, <2>1 DEF HasField, Field, KindOf, Types, Values
<1>6. HasField(LoginResp_Cases[4], LoginRespMsg)
  <2>1. ASSUME NEW m \in LoginRespMsg
        PROVE  /\ "ret" \in DOMAIN m /\ m.ret \in Int32
               /\ [m EXCEPT !.ret = m.ret] = m
               /\ \A v \in Int32 : [m EXCEPT !.ret = v] \in LoginRespMsg
    BY DEF LoginRespMsg
  <2>2. QED BY <1>2, <2>1 DEF HasField, Field, KindOf, Types, Values
<1>7. HasField(LoginResp_Cases[5], LoginRespMsg)
  <2>1. ASSUME NEW m \in LoginRespMsg
        PROVE  /\ "ret_msg" \in DOMAIN m /\ m.ret_msg \in Seq(Byte)
               /\ [m EXCEPT !.ret_msg = m.ret_msg] = m
               /\ \A v \in Seq(Byte) : [m EXCEPT !.ret_msg = v] \in LoginRespMsg
    BY DEF LoginRespMsg
  <2>2. QED BY <1>2, <2>1 DEF HasField, Field, KindOf, Types, Values
<1>8. ASSUME NEW m \in LoginRespMsg
      PROVE  /\ "unknown" \in DOMAIN m /\ m.unknown \in Seq(Token)
             /\ [m EXCEPT !.unknown = m.unknown] = m
             /\ \A u \in Seq(Token) : [m EXCEPT !.unknown = u] \in LoginRespMsg
  BY DEF LoginRespMsg
<1>9. QED BY <1>1, <1>2, <1>3, <1>4, <1>5, <1>6, <1>7, <1>8 DEF Class

\* GnsInfoReq
LEMMA GnsInfoReqClass ==
  /\ DOMAIN GnsInfoReq_Cases = {1, 2}
  /\ GnsInfoReq_Cases[1] = Field("gns_name", "strings")
  /\ GnsInfoReq_Cases[2] = Field("ip_port", "strings")
  /\ Class(GnsInfoReq_Cases, GnsInfoReqMsg)
<1>1. DOMAIN GnsInfoReq_Cases = {1, 2}
  BY DEF GnsInfoReq_Cases
<1>2. /\ GnsInfoReq_Cases[1] = Field("gns_name", "strings")
      /\ GnsInfoReq_Cases[2] = Field("ip_port", "strings")
  BY DEF GnsInfoReq_Cases
<1>3. HasField(GnsInfoReq_Cases[1], GnsInfoReqMsg)
  <2>1. ASSUME NEW m \in GnsInfoReqMsg
        PROVE  /\ "gns_name" \in DOMAIN m /\ m.gns_name \in Seq(Seq(Byte))
               /\ [m EXCEPT !.gns_name = m.gns_name] = m
               /\ \A v \in Seq(Seq(Byte)) : [m EXCEPT !.gns_name = v] \in GnsInfoReqMsg
    BY DEF GnsInfoReqMsg
  <2>2. QED BY <1>2, <2>1 DEF HasField, Field, KindOf, Types, Values
<1>4. HasField(GnsInfoReq_Cases[2], GnsInfoReqMsg)
  <2>1. ASSUME NEW m \in GnsInfoReqMsg
        PROVE  /\ "ip_port" \in DOMAIN m /\ m.ip_port \in Seq(Seq(Byte))
               /\ [m EXCEPT !.ip_port = m.ip_port] = m
               /\ \A v \in Seq(Seq(Byte)) : [m EXCEPT !.ip_port = v] \in GnsInfoReqMsg
    BY DEF GnsInfoReqMsg
  <2>2. QED BY <1>2, <2>1 DEF HasField, Field, KindOf, Types, Values
<1>5. ASSUME NEW m \in GnsInfoReqMsg
      PROVE  /\ "unknown" \in DOMAIN m /\ m.unknown \in Seq(Token)
             /\ [m EXCEPT !.unknown = m.unknown] = m
             /\ \A u \in Seq(Token) : [m EXCEPT !.unknown = u] \in GnsInfoReqMsg
  BY DEF GnsInfoReqMsg
<1>6. QED BY <1>1, <1>2, <1>3, <1>4, <1>5 DEF Class

\* CfgInfoReq
LEMMA CfgInfoReqClass ==
  /\ DOMAIN CfgInfoReq_Cases = {1, 2, 3, 4, 5, 6, 7, 8}
  /\ CfgInfoReq_Cases[1] = Field("session_id", "string")
  /\ CfgInfoReq_Cases[2] = Field("p1", "int32")
  /\ CfgInfoReq_Cases[3] = Field("p2", "int64")
  /\ CfgInfoReq_Cases[4] = Field("p3", "string")
  /\ CfgInfoReq_Cases[5] = Field("gns_name", "string")
  /\ CfgInfoReq_Cases[6] = Field("ip_port", "string")
  /\ CfgInfoReq_Cases[7] = Field("fd", "int32")
  /\ CfgInfoReq_Cases[8] = Field("req_begin_time", "int32")
  /\ Class(CfgInfoReq_Cases, CfgInfoReqMsg)
<1>1. DOMAIN CfgInfoReq_Cases = {1, 2, 3, 4, 5, 6, 7, 8}
  BY DEF CfgInfoReq_Cases
<1>2. /\ CfgInfoReq_Cases[1] = Field("session_id", "string")
      /\ CfgInfoReq_Cases[2] = Field("p1", "int32")
      /\ CfgInfoReq_Cases[3] = Field("p2", "int64")
      /\ CfgInfoReq_Cases[4] = Field("p3", "string")
      /\ CfgInfoReq_Cases[5] = Field("gns_name", "string")
      /\ CfgInfoReq_Cases[6] = Field("ip_port", "string")
      /\ CfgInfoReq_Cases[7] = Field("fd", "int32")
      /\ CfgInfoReq_Cases[8] = Field("req_begin_time", "int32")
  BY DEF CfgInfoReq_Cases
<1>3. HasField(CfgInfoReq_Cases[1], CfgInfoReqMsg)
  <2>1. ASSUME NEW m \in CfgInfoReqMsg
        PROVE  /\ "session_id" \in DOMAIN m /\ m.session_id \in Seq(Byte)
               /\ [m EXCEPT !.session_id = m.session_id] = m
               /\ \A v \in Seq(Byte) : [m EXCEPT !.session_id = v] \in CfgInfoReqMsg
    BY DEF CfgInfoReqMsg
  <2>2. QED BY <1>2, <2>1 DEF HasField, Field, KindOf, Types, Values
<1>4. HasField(CfgInfoReq_Cases[2], CfgInfoReqMsg)
  <2>1. ASSUME NEW m \in CfgInfoReqMsg
        PROVE  /\ "p1" \in DOMAIN m /\ m.p1 \in Int32
               /\ [m EXCEPT !.p1 = m.p1] = m
               /\ \A v \in Int32 : [m EXCEPT !.p1 = v] \in CfgInfoReqMsg
    BY DEF CfgInfoReqMsg
  <2>2. QED BY <1>2, <2>1 DEF HasField, Field, KindOf, Types, Values
<1>5. HasField(CfgInfoReq_Cases[3], CfgInfoReqMsg)
  <2>1. ASSUME NEW m \in CfgInfoReqMsg
        PROVE  /\ "p2" \in DOMAIN m /\ m.p2 \in Int64
               /\ [m EXCEPT !.p2 = m.p2] = m
               /\ \A v \in Int64 : [m EXCEPT !.p2 = v] \in CfgInfoReqMsg
    BY DEF CfgInfoReqMsg
  <2>2. QED BY <1>2, <2>1 DEF HasField, Field, KindOf, Types, Values
<1>6. HasField(CfgInfoReq_Cases[4], CfgInfoReqMsg)
  <2>1. ASSUME NEW m \in CfgInfoReqMsg
        PROVE  /\ "p3" \in DOMAIN m /\ m.p3 \in Seq(Byte)
               /\ [m EXCEPT !.p3 = m.p3] = m
               /\ \A v \in Seq(Byte) : [m EXCEPT !.p3 = v] \in CfgInfoReqMsg
    BY DEF CfgInfoReqMsg
  <2>2. QED BY <1>2, <2>1 DEF HasField, Field, KindOf, Types, Values
<1>7. HasField(CfgInfoReq_Cases[5], CfgInfoReqMsg)
  <2>1. ASSUME NEW m \in CfgInfoReqMsg
        PROVE  /\ "gns_name" \in DOMAIN m /\ m.gns_name \in Seq(Byte)
               /\ [m EXCEPT !.gns_name = m.gns_name] = m
               /\ \A v \in Seq(Byte) : [m EXCEPT !.gns_name = v] \in CfgInfoReqMsg
    BY DEF CfgInfoReqMsg
  <2>2. QED BY <1>2, <2>1 DEF HasField, Field, KindOf, Types, Values
<1>8. HasField(CfgInfoReq_Cases[6], CfgInfoReqMsg)
  <2>1. ASSUME NEW m \in CfgInfoReqMsg
        PROVE  /\ "ip_port" \in DOMAIN m /\ m.ip_port \in Seq(Byte)
               /\ [m EXCEPT !.ip_port = m.ip_port] = m
               /\ \A v \in Seq(Byte) : [m EXCEPT !.ip_port = v] \in CfgInfoReqMsg
    BY DEF CfgInfoReqMsg
  <2>2. QED BY <1>2, <2>1 DEF HasField, Field, KindOf, Types, Values
<1>9. HasField(CfgInfoReq_Cases[7], CfgInfoReqMsg)
  <2>1. ASSUME NEW m \in CfgInfoReqMsg
        PROVE  /\ "fd" \in DOMAIN m /\ m.fd \in Int32
               /\ [m EXCEPT !.fd = m.fd] = m
               /\ \A v \in Int32 : [m EXCEPT !.fd = v] \in CfgInfoReqMsg
    BY DEF CfgInfoReqMsg
  <2>2. QED BY <1>2, <2>1 DEF HasField, Field, KindOf, Types, Values
<1>10. HasField(CfgInfoReq_Cases[8], CfgInfoReqMsg)
  <2>1. ASSUME NEW m \in CfgInfoReqMsg
        PROVE  /\ "req_begin_time" \in DOMAIN m /\ m.req_begin_time \in Int32
               /\ [m EXCEPT !.req_begin_time = m.req_begin_time] = m
               /\ \A v \in Int32 : [m EXCEPT !.req_begin_time = v] \in CfgInfoReqMsg
    BY DEF CfgInfoReqMsg
  <2>2. QED BY <1>2, <2>1 DEF HasField, Field, KindOf, Types, Values
<1>11. ASSUME NEW m \in CfgInfoReqMsg
      PROVE  /\ "unknown" \in DOMAIN m /\ m.unknown \in Seq(Token)
             /\ [m EXCEPT !.unknown = m.unknown] = m
             /\ \A u \in Seq(Token) : [m EXCEPT !.unknown = u] \in CfgInfoReqMsg
  BY DEF CfgInfoReqMsg
<1>12. QED BY <1>1, <1>2, <1>3, <1>4, <1>5, <1>6, <1>7, <1>8, <1>9, <1>10, <1>11 DEF Class

\* CfgInfoResp
LEMMA CfgInfoRespClass ==
  /\ DOMAIN CfgInfoResp_Cases = {1, 2, 3, 4}
  /\ CfgInfoResp_Cases[1] = Field("ret", "int32")
  /\ CfgInfoResp_Cases[2] = Field("ret_msg", "string")
  /\ CfgInfoResp_Cases[3] = Field("fd", "int32")
  /\ CfgInfoResp_Cases[4] = Field("req_begin_time", "int32")
  /\ Class(CfgInfoResp_Cases, CfgInfoRespMsg)
<1>1. DOMAIN CfgInfoResp_Cases = {1, 2, 3, 4}
  BY DEF CfgInfoResp_Cases
<1>2. /\ CfgInfoResp_Cases[1] = Field("ret", "int32")
      /\ CfgInfoResp_Cases[2] = Field("ret_msg", "string")
      /\ CfgInfoResp_Cases[3] = Field("fd", "int32")
      /\ CfgInfoResp_Cases[4] = Field("req_begin_time", "int32")
  BY DEF CfgInfoResp_Cases
<1>3. HasField(CfgInfoResp_Cases[1], CfgInfoRespMsg)
  <2>1. ASSUME NEW m \in CfgInfoRespMsg
        PROVE  /\ "ret" \in DOMAIN m /\ m.ret \in Int32
               /\ [m EXCEPT !.ret = m.ret] = m
               /\ \A v \in Int32 : [m EXCEPT !.ret = v] \in CfgInfoRespMsg
    BY DEF CfgInfoRespMsg
  <2>2. QED BY <1>2, <2>1 DEF HasField, Field, KindOf, Types, Values
<1>4. HasField(CfgInfoResp_Cases[2], CfgInfoRespMsg)
  <2>1. ASSUME NEW m \in CfgInfoRespMsg
        PROVE  /\ "ret_msg" \in DOMAIN m /\ m.ret_msg \in Seq(Byte)
               /\ [m EXCEPT !.ret_msg = m.ret_msg] = m
               /\ \A v \in Seq(Byte) : [m EXCEPT !.ret_msg = v] \in CfgInfoRespMsg
    BY DEF CfgInfoRespMsg
  <2>2. QED BY <1>2, <2>1 DEF HasField, Field, KindOf, Types, Values
<1>5. HasField(CfgInfoResp_Cases[3], CfgInfoRespMsg)
  <2>1. ASSUME NEW m \in CfgInfoRespMsg
        PROVE  /\ "fd" \in DOMAIN m /\ m.fd \in Int32
               /\ [m EXCEPT !.fd = m.fd] = m
               /\ \A v \in Int32 : [m EXCEPT !.fd = v] \in CfgInfoRespMsg
    BY DEF CfgInfoRespMsg
  <2>2. QED BY <1>2, <2>1 DEF HasField, Field, KindOf, Types, Values
<1>6. HasField(CfgInfoResp_Cases[4], CfgInfoRespMsg)
  <2>1. ASSUME NEW m \in CfgInfoRespMsg
        PROVE  /\ "req_begin_time" \in DOMAIN m /\ m.req_begin_time \in Int32
               /\ [m EXCEPT !.req_begin_time = m.req_begin_time] = m
               /\ \A v \in Int32 : [m EXCEPT !.req_begin_time = v] \in CfgInfoRespMsg
    BY DEF CfgInfoRespMsg
  <2>2. QED BY <1>2, <2>1 DEF HasField, Field, KindOf, Types, Values
<1>7. ASSUME NEW m \in CfgInfoRespMsg
      PROVE  /\ "unknown" \in DOMAIN m /\ m.unknown \in Seq(Token)
             /\ [m EXCEPT !.unknown = m.unknown] = m
             /\ \A u \in Seq(Token) : [m EXCEPT !.unknown = u] \in CfgInfoRespMsg
  BY DEF CfgInfoRespMsg
<1>8. QED BY <1>1, <1>2, <1>3, <1>4, <1>5, <1>6, <1>7 DEF Class

\* LogInfo
LEMMA LogInfoClass ==
  /\ DOMAIN LogInfo_Cases = {1, 2, 3, 4}
  /\ LogInfo_Cases[1] = Field("gns_name", "string")
  /\ LogInfo_Cases[2] = Field("ip_port", "string")
  /\ LogInfo_Cases[3] = Field("session_id", "string")
  /\ LogInfo_Cases[4] = Field("log_text", "string")
  /\ Class(LogInfo_Cases, LogInfoMsg)
<1>1. DOMAIN LogInfo_Cases = {1, 2, 3, 4}
  BY DEF LogInfo_Cases
<1>2. /\ LogInfo_Cases[1] = Field("gns_name", "string")
      /\ LogInfo_Cases[2] = Field("ip_port", "string")
      /\ LogInfo_Cases[3] = Field("session_id", "string")
      /\ LogInfo_Cases[4] = Field("log_text", "string")
  BY DEF LogInfo_Cases
<1>3. HasField(LogInfo_Cases[1], LogInfoMsg)
  <2>1. ASSUME NEW m \in LogInfoMsg
        PROVE  /\ "gns_name" \in DOMAIN m /\ m.gns_name \in Seq(Byte)
               /\ [m EXCEPT !.gns_name = m.gns_name] = m
               /\ \A v \in Seq(Byte) : [m EXCEPT !.gns_name = v] \in LogInfoMsg
    BY DEF LogInfoMsg
  <2>2. QED BY <1>2, <2>1 DEF HasField, Field, KindOf, Types, Values
<1>4. HasField(LogInfo_Cases[2], LogInfoMsg)
  <2>1. ASSUME NEW m \in LogInfoMsg
        PROVE  /\ "ip_port" \in DOMAIN m /\ m.ip_port \in Seq(Byte)
               /\ [m EXCEPT !.ip_port = m.ip_port] = m
               /\ \A v \in Seq(Byte) : [m EXCEPT !.ip_port = v] \in LogInfoMsg
    BY DEF LogInfoMsg
  <2>2. QED BY <1>2, <2>1 DEF HasField, Field, KindOf, Types, Values
<1>5. HasField(LogInfo_Cases[3], LogInfoMsg)
  <2>1. ASSUME NEW m \in LogInfoMsg
        PROVE  /\ "session_id" \in DOMAIN m /\ m.session_id \in Seq(Byte)
               /\ [m EXCEPT !.session_id = m.session_id] = m
               /\ \A v \in Seq(Byte) : [m EXCEPT !.session_id = v] \in LogInfoMsg
    BY DEF LogInfoMsg
  <2>2. QED BY <1>2, <2>1 DEF HasField, Field, KindOf, Types, Values
<1>6. HasField(LogInfo_Cases[4], LogInfoMsg)
  <2>1. ASSUME NEW m \in LogInfoMsg
        PROVE  /\ "log_text" \in DOMAIN m /\ m.log_text \in Seq(Byte)
               /\ [m EXCEPT !.log_text = m.log_text] = m
               /\ \A v \in Seq(Byte) : [m EXCEPT !.log_text = v] \in LogInfoMsg
    BY DEF LogInfoMsg
  <2>2. QED BY <1>2, <2>1 DEF HasField, Field, KindOf, Types, Values
<1>7. ASSUME NEW m \in LogInfoMsg
      PROVE  /\ "unknown" \in DOMAIN m /\ m.unknown \in Seq(Token)
             /\ [m EXCEPT !.unknown = m.unknown] = m
             /\ \A u \in Seq(Token) : [m EXCEPT !.unknown = u] \in LogInfoMsg
  BY DEF LogInfoMsg
<1>8. QED BY <1>1, <1>2, <1>3, <1>4, <1>5, <1>6, <1>7 DEF Class

\* GetLogReq
LEMMA GetLogReqClass ==
  /\ DOMAIN GetLogReq_Cases = {1, 2, 3, 4, 5, 6}
  /\ GetLogReq_Cases[1] = Field("session_id", "string")
  /\ GetLogReq_Cases[2] = Field("gns_name", "string")
  /\ GetLogReq_Cases[3] = Field("ip_port", "string")
  /\ GetLogReq_Cases[4] = Field("seq", "int32")
  /\ GetLogReq_Cases[5] = Field("fd", "int32")
  /\ GetLogReq_Cases[6] = Field("req_begin_time", "int32")
  /\ Class(GetLogReq_Cases, GetLogReqMsg)
<1>1. DOMAIN GetLogReq_Cases = {1, 2, 3, 4, 5, 6}
  BY DEF GetLogReq_Cases
<1>2. /\ GetLogReq_Cases[1] = Field("session_id", "string")
      /\ GetLogReq_Cases[2] = Field("gns_name", "string")
      /\ GetLogReq_Cases[3] = Field("ip_port", "string")
      /\ GetLogReq_Cases[4] = Field("seq", "int32")
      /\ GetLogReq_Cases[5] = Field("fd", "int32")
      /\ GetLogReq_Cases[6] = Field("req_begin_time", "int32")
  BY DEF GetLogReq_Cases
<1>3. HasField(GetLogReq_Cases[1], GetLogReqMsg)
  <2>1. ASSUME NEW m \in GetLogReqMsg
        PROVE  /\ "session_id" \in DOMAIN m /\ m.session_id \in Seq(Byte)
               /\ [m EXCEPT !.session_id = m.session_id] = m
               /\ \A v \in Seq(Byte) : [m EXCEPT !.session_id = v] \in GetLogReqMsg
    BY DEF GetLogReqMsg
  <2>2. QED BY <1>2, <2>1 DEF HasField, Field, KindOf, Types, Values
<1>4. HasField(GetLogReq_Cases[2], GetLogReqMsg)
  <2>1. ASSUME NEW m \in GetLogReqMsg
        PROVE  /\ "gns_name" \in DOMAIN m /\ m.gns_name \in Seq(Byte)
               /\ [m EXCEPT !.gns_name = m.gns_name] = m
               /\ \A v \in Seq(Byte) : [m EXCEPT !.gns_name = v] \in GetLogReqMsg
    BY DEF GetLogReqMsg
  <2>2. QED BY <1>2, <2>1 DEF HasField, Field, KindOf, Types, Values
<1>5. HasField(GetLogReq_Cases[3], GetLogReqMsg)
  <2>1. ASSUME NEW m \in GetLogReqMsg
        PROVE  /\ "ip_port" \in DOMAIN m /\ m.ip_port \in Seq(Byte)
               /\ [m EXCEPT !.ip_port = m.ip_port] = m
               /\ \A v \in Seq(Byte) : [m EXCEPT !.ip_port = v] \in GetLogReqMsg
    BY DEF GetLogReqMsg
  <2>2. QED BY <1>2, <2>1 DEF HasField, Field, KindOf, Types, Values
<1>6. HasField(GetLogReq_Cases[4], GetLogReqMsg)
  <2>1. ASSUME NEW m \in GetLogReqMsg
        PROVE  /\ "seq" \in DOMAIN m /\ m.seq \in Int32
               /\ [m EXCEPT !.seq = m.seq] = m
               /\ \A v \in Int32 : [m EXCEPT !.seq = v] \in GetLogReqMsg
    BY DEF GetLogReqMsg
  <2>2. QED BY <1>2, <2>1 DEF HasField, Field, KindOf, Types, Values
<1>7. HasField(GetLogReq_Cases[5], GetLogReqMsg)
  <2>1. ASSUME NEW m \in GetLogReqMsg
        PROVE  /\ "fd" \in DOMAIN m /\ m.fd \in Int32
               /\ [m EXCEPT !.fd = m.fd] = m
               /\ \A v \in Int32 : [m EXCEPT !.fd = v] \in GetLogReqMsg
    BY DEF GetLogReqMsg
  <2>2. QED BY <1>2, <2>1 DEF HasField, Field, KindOf, Types, Values
<1>8. HasField(GetLogReq_Cases[6], GetLogReqMsg)
  <2>1. ASSUME NEW m \in GetLogReqMsg
        PROVE  /\ "req_begin_time" \in DOMAIN m /\ m.req_begin_time \in Int32
               /\ [m EXCEPT !.req_begin_time = m.req_begin_time] = m
               /\ \A v \in Int32 : [m EXCEPT !.req_begin_time = v] \in GetLogReqMsg
    BY DEF GetLogReqMsg
  <2>2. QED BY <1>2, <2>1 DEF HasField, Field, KindOf, Types, Values
<1>9. ASSUME NEW m \in GetLogReqMsg
      PROVE  /\ "unknown" \in DOMAIN m /\ m.unknown \in Seq(Token)
             /\ [m EXCEPT !.unknown = m.unknown] = m
             /\ \A u \in Seq(Token) : [m EXCEPT !.unknown = u] \in GetLogReqMsg
  BY DEF GetLogReqMsg
<1>10. QED BY <1>1, <1>2, <1>3, <1>4, <1>5, <1>6, <1>7, <1>8, <1>9 DEF Class

\* GetLogRespOld
LEMMA GetLogRespOldClass ==
  /\ DOMAIN GetLogRespOld_Cases = {1, 2, 3, 4, 5, 6}
  /\ GetLogRespOld_Cases[1] = Field("ret", "int32")
  /\ GetLogRespOld_Cases[2] = Field("ret_msg", "string")
  /\ GetLogRespOld_Cases[3] = Field("log_text", "string")
  /\ GetLogRespOld_Cases[4] = Field("cur_len", "int32")
  /\ GetLogRespOld_Cases[5] = Field("fd", "int32")
  /\ GetLogRespOld_Cases[6] = Field("req_begin_time", "int32")
  /\ Class(GetLogRespOld_Cases, GetLogRespOldMsg)
<1>1. DOMAIN GetLogRespOld_Cases = {1, 2, 3, 4, 5, 6}
  BY DEF GetLogRespOld_Cases
<1>2. /\ GetLogRespOld_Cases[1] = Field("ret", "int32")
      /\ GetLogRespOld_Cases[2] = Field("ret_msg", "string")
      /\ GetLogRespOld_Cases[3] = Field("log_text", "string")
      /\ GetLogRespOld_Cases[4] = Field("cur_len", "int32")
      /\ GetLogRespOld_Cases[5] = Field("fd", "int32")
      /\ GetLogRespOld_Cases[6] = Field("req_begin_time", "int32")
  BY DEF GetLogRespOld_Cases
<1>3. HasField(GetLogRespOld_Cases[1], GetLogRespOldMsg)
  <2>1. ASSUME NEW m \in GetLogRespOldMsg
        PROVE  /\ "ret" \in DOMAIN m /\ m.ret \in Int32
               /\ [m EXCEPT !.ret = m.ret] = m
               /\ \A v \in Int32 : [m EXCEPT !.ret = v] \in GetLogRespOldMsg
    BY DEF GetLogRespOldMsg
  <2>2. QED BY <1>2, <2>1 DEF HasField, Field, KindOf, Types, Values
<1>4. HasField(GetLogRespOld_Cases[2], GetLogRespOldMsg)
  <2>1. ASSUME NEW m \in GetLogRespOldMsg
        PROVE  /\ "ret_msg" \in DOMAIN m /\ m.ret_msg \in Seq(Byte)
               /\ [m EXCEPT !.ret_msg = m.ret_msg] = m
               /\ \A v \in Seq(Byte) : [m EXCEPT !.ret_msg = v] \in GetLogRespOldMsg
    BY DEF GetLogRespOldMsg
  <2>2. QED BY <1>2, <2>1 DEF HasField, Field, KindOf, Types, Values
<1>5. HasField(GetLogRespOld_Cases[3], GetLogRespOldMsg)
  <2>1. ASSUME NEW m \in GetLogRespOldMsg
        PROVE  /\ "log_text" \in DOMAIN m /\ m.log_text \in Seq(Byte)
               /\ [m EXCEPT !.log_text = m.log_text] = m
               /\ \A v \in Seq(Byte) : [m EXCEPT !.log_text = v] \in GetLogRespOldMsg
    BY DEF GetLogRespOldMsg
  <2>2. QED BY <1>2, <2>1 DEF HasField, Field, KindOf, Types, Values
<1>6. HasField(GetLogRespOld_Cases[4], GetLogRespOldMsg)
  <2>1. ASSUME NEW m \in GetLogRespOldMsg
        PROVE  /\ "cur_len" \in DOMAIN m /\ m.cur_len \in Int32
               /\ [m EXCEPT !.cur_len = m.cur_len] = m
               /\ \A v \in Int32 : [m EXCEPT !.cur_len = v] \in GetLogRespOldMsg
    BY DEF GetLogRespOldMsg
  <2>2. QED BY <1>2, <2>1 DEF HasField, Field, KindOf, Types, Values
<1>7. HasField(GetLogRespOld_Cases[5], GetLogRespOldMsg)
  <2>1. ASSUME NEW m \in GetLogRespOldMsg
        PROVE  /\ "fd" \in DOMAIN m /\ m.fd \in Int32
               /\ [m EXCEPT !.fd = m.fd] = m
               /\ \A v \in Int32 : [m EXCEPT !.fd = v] \in GetLogRespOldMsg
    BY DEF GetLogRespOldMsg
  <2>2. QED BY <1>2, <2>1 DEF HasField, Field, KindOf, Types, Values
<1>8. HasField(GetLogRespOld_Cases[6], GetLogRespOldMsg)
  <2>1. ASSUME NEW m \in GetLogRespOldMsg
        PROVE  /\ "req_begin_time" \in DOMAIN m /\ m.req_begin_time \in Int32
               /\ [m EXCEPT !.req_begin_time = m.req_begin_time] = m
               /\ \A v \in Int32 : [m EXCEPT !.req_begin_time = v] \in GetLogRespOldMsg
    BY DEF GetLogRespOldMsg
  <2>2. QED BY <1>2, <2>1 DEF HasField, Field, KindOf, Types, Values
<1>9. ASSUME NEW m \in GetLogRespOldMsg
      PROVE  /\ "unknown" \in DOMAIN m /\ m.unknown \in Seq(Token)
             /\ [m EXCEPT !.unknown = m.unknown] = m
             /\ \A u \in Seq(Token) : [m EXCEPT !.unknown = u] \in GetLogRespOldMsg
  BY DEF GetLogRespOldMsg
<1>10. QED BY <1>1, <1>2, <1>3, <1>4, <1>5, <1>6, <1>7, <1>8, <1>9 DEF Class

\* LogText
LEMMA LogTextClass ==
  /\ DOMAIN LogText_Cases = {1, 2, 3}
  /\ LogText_Cases[1] = Field("ip_port", "string")
  /\ LogText_Cases[2] = Field("gns_name", "string")
  /\ LogText_Cases[3] = Field("text", "strings")
  /\ Class(LogText_Cases, LogTextMsg)
<1>1. DOMAIN LogText_Cases = {1, 2, 3}
  BY DEF LogText_Cases
<1>2. /\ LogText_Cases[1] = Field("ip_port", "string")
      /\ LogText_Cases[2] = Field("gns_name", "string")
      /\ LogText_Cases[3] = Field("text", "strings")
  BY DEF LogText_Cases
<1>3. HasField(LogText_Cases[1], LogTextMsg)
  <2>1. ASSUME NEW m \in LogTextMsg
        PROVE  /\ "ip_port" \in DOMAIN m /\ m.ip_port \in Seq(Byte)
               /\ [m EXCEPT !.ip_port = m.ip_port] = m
               /\ \A v \in Seq(Byte) : [m EXCEPT !.ip_port = v] \in LogTextMsg
    BY DEF LogTextMsg
  <2>2. QED BY <1>2, <2>1 DEF HasField, Field, KindOf, Types, Values
<1>4. HasField(LogText_Cases[2], LogTextMsg)
  <2>1. ASSUME NEW m \in LogTextMsg
        PROVE  /\ "gns_name" \in DOMAIN m /\ m.gns_name \in Seq(Byte)
               /\ [m EXCEPT !.gns_name = m.gns_name] = m
               /\ \A v \in Seq(Byte) : [m EXCEPT !.gns_name = v] \in LogTextMsg
    BY DEF LogTextMsg
  <2>2. QED BY <1>2, <2>1 DEF HasField, Field, KindOf, Types, Values
<1>5. HasField(LogText_Cases[3], LogTextMsg)
  <2>1. ASSUME NEW m \in LogTextMsg
        PROVE  /\ "text" \in DOMAIN m /\ m.text \in Seq(Seq(Byte))
               /\ [m EXCEPT !.text = m.text] = m
               /\ \A v \in Seq(Seq(Byte)) : [m EXCEPT !.text = v] \in LogTextMsg
    BY DEF LogTextMsg
  <2>2. QED BY <1>2, <2>1 DEF HasField, Field, KindOf, Types, Values
<1>6. ASSUME NEW m \in LogTextMsg
      PROVE  /\ "unknown" \in DOMAIN m /\ m.unknown \in Seq(Token)
             /\ [m EXCEPT !.unknown = m.unknown] = m
             /\ \A u \in Seq(Token) : [m EXCEPT !.unknown = u] \in LogTextMsg
  BY DEF LogTextMsg
<1>7. QED BY <1>1, <1>2, <1>3, <1>4, <1>5, <1>6 DEF Class

\* GetLogResp
LEMMA GetLogRespClass ==
  /\ DOMAIN GetLogResp_Cases = {1, 2, 3, 4, 5}
  /\ GetLogResp_Cases[1] = Field("ret", "int32")
  /\ GetLogResp_Cases[2] = Field("ret_msg", "string")
  /\ GetLogResp_Cases[3] = Field("fd", "int32")
  /\ GetLogResp_Cases[4] = Field("req_begin_time", "int32")
  /\ GetLogResp_Cases[5] = Repeated("log_text", EmptyLogText, LogText_Cases)
  /\ Class(GetLogResp_Cases, GetLogRespMsg)
<1>1. DOMAIN GetLogResp_Cases = {1, 2, 3, 4, 5}
  BY DEF GetLogResp_Cases
<1>2. /\ GetLogResp_Cases[1] = Field("ret", "int32")
      /\ GetLogResp_Cases[2] = Field("ret_msg", "string")
      /\ GetLogResp_Cases[3] = Field("fd", "int32")
      /\ GetLogResp_Cases[4] = Field("req_begin_time", "int32")
      /\ GetLogResp_Cases[5] = Repeated("log_text", EmptyLogText, LogText_Cases)
  BY DEF GetLogResp_Cases
<1>3. HasField(GetLogResp_Cases[1], GetLogRespMsg)
  <2>1. ASSUME NEW m \in GetLogRespMsg
        PROVE  /\ "ret" \in DOMAIN m /\ m.ret \in Int32
               /\ [m EXCEPT !.ret = m.ret] = m
               /\ \A v \in Int32 : [m EXCEPT !.ret = v] \in GetLogRespMsg
    BY DEF GetLogRespMsg
  <2>2. QED BY <1>2, <2>1 DEF HasField, Field, KindOf, Types, Values
<1>4. HasField(GetLogResp_Cases[2], GetLogRespMsg)
  <2>1. ASSUME NEW m \in GetLogRespMsg
        PROVE  /\ "ret_msg" \in DOMAIN m /\ m.ret_msg \in Seq(Byte)
               /\ [m EXCEPT !.ret_msg = m.ret_msg] = m
               /\ \A v \in Seq(Byte) : [m EXCEPT !.ret_msg = v] \in GetLogRespMsg
    BY DEF GetLogRespMsg
  <2>2. QED BY <1>2, <2>1 DEF HasField, Field, KindOf, Types, Values
<1>5. HasField(GetLogResp_Cases[3], GetLogRespMsg)
  <2>1. ASSUME NEW m \in GetLogRespMsg
        PROVE  /\ "fd" \in DOMAIN m /\ m.fd \in Int32
               /\ [m EXCEPT !.fd = m.fd] = m
               /\ \A v \in Int32 : [m EXCEPT !.fd = v] \in GetLogRespMsg
    BY DEF GetLogRespMsg
  <2>2. QED BY <1>2, <2>1 DEF HasField, Field, KindOf, Types, Values
<1>6. HasField(GetLogResp_Cases[4], GetLogRespMsg)
  <2>1. ASSUME NEW m \in GetLogRespMsg
        PROVE  /\ "req_begin_time" \in DOMAIN m /\ m.req_begin_time \in Int32
               /\ [m EXCEPT !.req_begin_time = m.req_begin_time] = m
               /\ \A v \in Int32 : [m EXCEPT !.req_begin_time = v] \in GetLogRespMsg
    BY DEF GetLogRespMsg
  <2>2. QED BY <1>2, <2>1 DEF HasField, Field, KindOf, Types, Values
<1>7. HasField(GetLogResp_Cases[5], GetLogRespMsg)
  <2>1. ASSUME NEW m \in GetLogRespMsg
        PROVE  /\ "log_text" \in DOMAIN m /\ m.log_text \in Seq(LogTextMsg)
               /\ [m EXCEPT !.log_text = m.log_text] = m
               /\ \A v \in Seq(LogTextMsg) : [m EXCEPT !.log_text = v] \in GetLogRespMsg
    BY DEF GetLogRespMsg
  <2>2. QED BY <1>2, <2>1 DEF HasField, Repeated, KindOf, Types, Values
<1>8. ASSUME NEW m \in GetLogRespMsg
      PROVE  /\ "unknown" \in DOMAIN m /\ m.unknown \in Seq(Token)
             /\ [m EXCEPT !.unknown = m.unknown] = m
             /\ \A u \in Seq(Token) : [m EXCEPT !.unknown = u] \in GetLogRespMsg
  BY DEF GetLogRespMsg
<1>9. QED BY <1>1, <1>2, <1>3, <1>4, <1>5, <1>6, <1>7, <1>8 DEF Class

\* HeartBeatMsg
LEMMA HeartBeatMsgClass ==
  /\ DOMAIN HeartBeatMsg_Cases = {1}
  /\ HeartBeatMsg_Cases[1] = Field("reserve", "string")
  /\ Class(HeartBeatMsg_Cases, HeartBeatMsgMsg)
<1>1. DOMAIN HeartBeatMsg_Cases = {1}
  BY DEF HeartBeatMsg_Cases
<1>2. /\ HeartBeatMsg_Cases[1] = Field("reserve", "string")
  BY DEF HeartBeatMsg_Cases
<1>3. HasField(HeartBeatMsg_Cases[1], HeartBeatMsgMsg)
  <2>1. ASSUME NEW m \in HeartBeatMsgMsg
        PROVE  /\ "reserve" \in DOMAIN m /\ m.reserve \in Seq(Byte)
               /\ [m EXCEPT !.reserve = m.reserve] = m
               /\ \A v \in Seq(Byte) : [m EXCEPT !.reserve = v] \in HeartBeatMsgMsg
    BY DEF HeartBeatMsgMsg
  <2>2. QED BY <1>2, <2>1 DEF HasField, Field, KindOf, Types, Values
<1>4. ASSUME NEW m \in HeartBeatMsgMsg
      PROVE  /\ "unknown" \in DOMAIN m /\ m.unknown \in Seq(Token)
             /\ [m EXCEPT !.unknown = m.unknown] = m
             /\ \A u \in Seq(Token) : [m EXCEPT !.unknown = u] \in HeartBeatMsgMsg
  BY DEF HeartBeatMsgMsg
<1>5. QED BY <1>1, <1>2, <1>3, <1>4 DEF Class

\* ClearSessionReq
LEMMA ClearSessionReqClass ==
  /\ DOMAIN ClearSessionReq_Cases = {1}
  /\ ClearSessionReq_Cases[1] = Field("session_id", "string")
  /\ Class(ClearSessionReq_Cases, ClearSessionReqMsg)
<1>1. DOMAIN ClearSessionReq_Cases = {1}
  BY DEF ClearSessionReq_Cases
<1>2. /\ ClearSessionReq_Cases[1] = Field("session_id", "string")
  BY DEF ClearSessionReq_Cases
<1>3. HasField(ClearSessionReq_Cases[1], ClearSessionReqMsg)
  <2>1. ASSUME NEW m \in ClearSessionReqMsg
        PROVE  /\ "session_id" \in DOMAIN m /\ m.session_id \in Seq(Byte)
               /\ [m EXCEPT !.session_id = m.session_id] = m
               /\ \A v \in Seq(Byte) : [m EXCEPT !.session_id = v] \in ClearSessionReqMsg
    BY DEF ClearSessionReqMsg
  <2>2. QED BY <1>2, <2>1 DEF HasField, Field, KindOf, Types, Values
<1>4. ASSUME NEW m \in ClearSessionReqMsg
      PROVE  /\ "unknown" \in DOMAIN m /\ m.unknown \in Seq(Token)
             /\ [m EXCEPT !.unknown = m.unknown] = m
             /\ \A u \in Seq(Token) : [m EXCEPT !.unknown = u] \in ClearSessionReqMsg
  BY DEF ClearSessionReqMsg
<1>5. QED BY <1>1, <1>2, <1>3, <1>4 DEF Class

----------------------------------------------------------------------------
(* Parsing, piece by piece *)

\* Whatever is parsed as a LogText gives a LogText.
LEMMA InnerKeeps ==
  ASSUME NEW s \in Seq(Token)
  PROVE  ParseFlat(EmptyLogText, LogText_Cases, s) \in Results(LogTextMsg)
<1> DEFINE b == [ok |-> TRUE, msg |-> EmptyLogText]
<1>1. b \in Results(LogTextMsg)
  <2>1. EmptyLogText \in LogTextMsg
    BY DEF EmptyLogText, LogTextMsg
  <2>2. QED BY <2>1 DEF Results
<1>2. ParseFlat(EmptyLogText, LogText_Cases, s) = FlatAll(LogText_Cases, b, s)
  BY DEF ParseFlat, FlatAll
<1>3. QED BY <1>1, <1>2, FlatKeeps, LogTextClass

\* Whatever token is read, the message stays one of its class.
LEMMA ReadAnyKeeps ==
  ASSUME NEW cases, NEW M, Class(cases, M), NEW m \in M, NEW t \in Tokens(cases)
  PROVE  ReadAny(cases, m, t) \in Results(M)
<1>1. CASE t.kind # "message"
  <2>1. t \in Token
    BY <1>1, TokenIs DEF Tokens
  <2>2. QED BY <1>1, <2>1, ReadKeeps DEF ReadAny
<1>2. CASE t.kind = "message"
  <2> DEFINE c == cases[t.num]
             inner == ParseFlat(c.empty, c.cases, t.val)
  <2>1. Accepts(cases, t) /\ t.val \in Seq(Token)
    <3>1. t \notin Token
      BY <1>2 DEF Token
    <3>2. QED BY <1>2, <3>1, TokenIs DEF Tokens
  <2>2. HasField(c, M) /\ c.kind = "message"
    BY <1>2, <2>1 DEF Accepts, Class
  <2>3. c.type = "messages" /\ c.empty = EmptyLogText /\ c.cases = LogText_Cases
    BY <2>2 DEF HasField, KindOf
  <2>4. inner \in Results(LogTextMsg)
    BY <2>1, <2>3, InnerKeeps
  <2>5. inner.ok \in BOOLEAN /\ inner.msg \in LogTextMsg
    BY <2>4 DEF Results
  <2> HIDE DEF inner
  <2>6. m[c.name] \in Seq(LogTextMsg)
    BY <2>2, <2>3 DEF HasField, Values
  <2>7. Append(m[c.name], inner.msg) \in Seq(LogTextMsg)
    BY <2>5, <2>6
  <2>8. [m EXCEPT ![c.name] = Append(@, inner.msg)] \in M
    BY <2>2, <2>3, <2>7 DEF HasField, Values
  <2>9. ReadAny(cases, m, t)
          = [ok |-> inner.ok, msg |-> [m EXCEPT ![c.name] = Append(@, inner.msg)]]
    BY <1>2, <2>1 DEF ReadAny, inner
  <2>10. QED BY <2>5, <2>8, <2>9 DEF Results
<1>3. QED BY <1>1, <1>2

\* Whatever wire is parsed, the message stays one of its class.
LEMMA ParsedKeeps ==
  ASSUME NEW cases, NEW M, Class(cases, M), NEW b \in Results(M), NEW s \in Seq(Tokens(cases))
  PROVE  ParsedRuns(cases, b, s, Results(M)) /\ ParsedAll(cases, b, s) \in Results(M)
<1>1. \A k \in 1 .. Len(s) : s[k] \in Tokens(cases)
  OBVIOUS
<1>2. \A k \in 1 .. Len(s) : \A x \in Results(M) : Turn(cases, x, s[k]) \in Results(M)
  BY <1>1, ReadAnyKeeps DEF Turn, Results
<1>3. ParsedRuns(cases, b, s, Results(M))
  BY <1>2, ParsedSteps
<1>4. Len(s) \in 0 .. Len(s)
  OBVIOUS
<1>5. QED BY <1>3, <1>4 DEF ParsedRuns

\* The parses of no token and of one.
LEMMA ParsedShort ==
  ASSUME NEW cases, NEW M, Class(cases, M), NEW b \in Results(M)
  PROVE  /\ ParsedAll(cases, b, << >>) = b
         /\ \A t \in Tokens(cases) : ParsedAll(cases, b, <<t>>) = Turn(cases, b, t)
<1>1. ParsedAll(cases, b, << >>) = b
  <2>1. << >> \in Seq(Tokens(cases)) /\ Len(<< >>) = 0
    OBVIOUS
  <2>2. ParsedRuns(cases, b, << >>, Results(M))
    BY <2>1, ParsedKeeps
  <2>3. QED BY <2>1, <2>2 DEF ParsedRuns
<1>2. ASSUME NEW t \in Tokens(cases)
      PROVE  ParsedAll(cases, b, <<t>>) = Turn(cases, b, t)
  <2>1. <<t>> \in Seq(Tokens(cases)) /\ Len(<<t>>) = 1 /\ <<t>>[1] = t
    OBVIOUS
  <2>2. ParsedRuns(cases, b, <<t>>, Results(M))
    BY <2>1, ParsedKeeps
  <2>3. 1 \in 1 .. 1 /\ 1 - 1 = 0
    OBVIOUS
  <2>4. QED BY <2>1, <2>2, <2>3 DEF ParsedRuns
<1>3. QED BY <1>1, <1>2

\* Two wires one after the other are parsed one after the other.
LEMMA ParsedJoined ==
  ASSUME NEW cases, NEW M, Class(cases, M), NEW b \in Results(M),
         NEW s \in Seq(Tokens(cases)), NEW t \in Seq(Tokens(cases))
  PROVE  ParsedAll(cases, b, s \o t) = ParsedAll(cases, ParsedAll(cases, b, s), t)
<1> DEFINE R == Results(M)
           n == Len(s)
           w == s \o t
           mid == ParsedAll(cases, b, s)
<1>1. n \in Nat /\ Len(t) \in Nat /\ Len(w) = n + Len(t) /\ w \in Seq(Tokens(cases))
      /\ (\A k \in 1 .. n : w[k] = s[k])
      /\ (\A k \in 1 .. Len(t) : w[n + k] = t[k])
  OBVIOUS
<1>2. mid \in R
  BY ParsedKeeps
<1>3. PICK f : /\ f[0] = b /\ mid = f[n]
               /\ \A k \in 1 .. n : f[k] = Turn(cases, f[k - 1], s[k])
  BY ParsedKeeps DEF ParsedRuns
<1>4. PICK g : /\ g[0] = mid /\ ParsedAll(cases, mid, t) = g[Len(t)]
               /\ \A k \in 1 .. Len(t) : g[k] = Turn(cases, g[k - 1], t[k])
  BY <1>2, ParsedKeeps DEF ParsedRuns
<1> HIDE DEF n, mid, w
<1>5. PICK h : /\ h[0] = b /\ ParsedAll(cases, b, w) = h[Len(w)]
               /\ \A k \in 1 .. Len(w) : h[k] = Turn(cases, h[k - 1], w[k])
  BY <1>1, ParsedKeeps DEF ParsedRuns
<1>6. \A k \in 0 .. n : h[k] \in [i \in 0 .. n |-> {f[i]}][k]
  <2> DEFINE P == [i \in 0 .. n |-> {f[i]}]
  <2>1. h[0] \in P[0]
    BY <1>1, <1>3, <1>5
  <2>2. ASSUME NEW k \in 1 .. n, h[k - 1] \in P[k - 1] PROVE h[k] \in P[k]
    <3>1. k - 1 \in 0 .. n /\ k \in 0 .. n /\ k \in 1 .. Len(w)
      BY <1>1
    <3>2. h[k - 1] = f[k - 1]
      BY <2>2, <3>1
    <3>3. h[k] = f[k]
      BY <1>1, <1>3, <1>5, <3>1, <3>2
    <3>4. QED BY <3>1, <3>3
  <2> HIDE DEF P
  <2>3. \A k \in 0 .. n : h[k] \in P[k]
    BY <1>1, <2>1, <2>2, Reaches
  <2>4. QED BY <2>3 DEF P
<1>7. h[n] = mid
  <2>1. n \in 0 .. n
    BY <1>1
  <2>2. QED BY <1>3, <1>6, <2>1
<1>8. h[n + Len(t)] = g[Len(t)]
  <2> DEFINE u == [k \in 0 .. Len(t) |-> h[n + k]]
             P == [i \in 0 .. Len(t) |-> {g[i]}]
  <2>1. u[0] \in P[0]
    BY <1>1, <1>4, <1>7
  <2>2. ASSUME NEW k \in 1 .. Len(t), u[k - 1] \in P[k - 1] PROVE u[k] \in P[k]
    <3>1. k - 1 \in 0 .. Len(t) /\ k \in 0 .. Len(t) /\ n + k \in 1 .. Len(w)
          /\ (n + k) - 1 = n + (k - 1)
      BY <1>1
    <3>2. h[n + (k - 1)] = g[k - 1]
      BY <2>2, <3>1
    <3>3. h[n + k] = Turn(cases, h[n + (k - 1)], w[n + k])
      BY <1>5, <3>1
    <3>4. h[n + k] = g[k]
      BY <1>1, <1>4, <3>2, <3>3
    <3>5. QED BY <3>1, <3>4
  <2> HIDE DEF P, u
  <2>3. \A k \in 0 .. Len(t) : u[k] \in P[k]
    BY <1>1, <2>1, <2>2, Reaches
  <2>4. Len(t) \in 0 .. Len(t)
    BY <1>1
  <2>5. QED BY <2>3, <2>4 DEF P, u
<1>9. QED BY <1>1, <1>4, <1>5, <1>8 DEF w, mid

\* What could not be read stays unread.
LEMMA StaysRefused ==
  ASSUME NEW cases, NEW M, Class(cases, M), NEW b \in Results(M), ~b.ok,
         NEW s \in Seq(Tokens(cases))
  PROVE  ParsedAll(cases, b, s) = b
<1>1. PICK f : /\ f[0] = b /\ ParsedAll(cases, b, s) = f[Len(s)]
               /\ \A k \in 1 .. Len(s) : f[k] = Turn(cases, f[k - 1], s[k])
  BY ParsedKeeps DEF ParsedRuns
<1> DEFINE P == [i \in 0 .. Len(s) |-> {b}]
<1>2. Len(s) \in Nat /\ f[0] \in P[0]
  BY <1>1
<1>3. ASSUME NEW k \in 1 .. Len(s), f[k - 1] \in P[k - 1] PROVE f[k] \in P[k]
  <2>1. k - 1 \in 0 .. Len(s) /\ k \in 0 .. Len(s)
    BY <1>2
  <2>2. f[k - 1] = b
    BY <1>3, <2>1
  <2>3. f[k] = b
    BY <1>1, <2>2 DEF Turn
  <2>4. QED BY <2>1, <2>3
<1>4. Len(s) \in 0 .. Len(s) /\ \A k \in 0 .. Len(s) : P[k] = {b}
  BY <1>2
<1> HIDE DEF P
<1>5. \A k \in 0 .. Len(s) : f[k] \in P[k]
  BY <1>2, <1>3, Reaches
<1>6. QED BY <1>1, <1>4, <1>5

\* A wire with no message inside is read the same way as inside another.
LEMMA FlatIsParsed ==
  ASSUME NEW cases, NEW M, Class(cases, M), NEW b \in Results(M), NEW s \in Seq(Token)
  PROVE  FlatAll(cases, b, s) = ParsedAll(cases, b, s)
<1>1. s \in Seq(Tokens(cases))
  <2>1. \A t \in Token : t \in Tokens(cases)
    BY TokenIs DEF Tokens
  <2>2. QED BY <2>1
<1>2. Len(s) \in Nat /\ \A k \in 1 .. Len(s) : s[k] \in Token
  OBVIOUS
<1>3. PICK f : /\ f[0] = b /\ ParsedAll(cases, b, s) = f[Len(s)]
               /\ \A k \in 1 .. Len(s) : f[k] = Turn(cases, f[k - 1], s[k])
  BY <1>1, ParsedKeeps DEF ParsedRuns
<1>4. PICK g : /\ g[0] = b /\ FlatAll(cases, b, s) = g[Len(s)]
               /\ \A k \in 1 .. Len(s) : g[k] = FlatTurn(cases, g[k - 1], s[k])
  BY FlatKeeps DEF FlatRuns
<1>5. \A x : \A t \in Token : Turn(cases, x, t) = FlatTurn(cases, x, t)
  BY TokenIs DEF Turn, FlatTurn, ReadAny
<1> DEFINE P == [i \in 0 .. Len(s) |-> {g[i]}]
<1>6. f[0] \in P[0]
  BY <1>2, <1>3, <1>4
<1>7. ASSUME NEW k \in 1 .. Len(s), f[k - 1] \in P[k - 1] PROVE f[k] \in P[k]
  <2>1. k - 1 \in 0 .. Len(s) /\ k \in 0 .. Len(s)
    BY <1>2
  <2>2. f[k - 1] = g[k - 1]
    BY <1>7, <2>1
  <2>3. f[k] = g[k]
    BY <1>2, <1>3, <1>4, <1>5, <2>2
  <2>4. QED BY <2>1, <2>3
<1>8. Len(s) \in 0 .. Len(s) /\ \A k \in 0 .. Len(s) : P[k] = {g[k]}
  BY <1>2
<1> HIDE DEF P
<1>9. \A k \in 0 .. Len(s) : f[k] \in P[k]
  BY <1>2, <1>6, <1>7, Reaches
<1>10. QED BY <1>3, <1>4, <1>8, <1>9

----------------------------------------------------------------------------
(* What one field adds *)

\* From b on, wire w is read to message m, unless one of the texts T is not
\* UTF-8.
ReadsTo(cases, M, b, w, T, m) ==
  /\ w \in Seq(Tokens(cases)) /\ m \in M
  /\ ParsedAll(cases, b, w).ok <=> \A text \in T : Utf8(text)
  /\ ParsedAll(cases, b, w).ok => ParsedAll(cases, b, w).msg = m

\* Of two assignments to a field the second stays.
LEMMA Twice ==
  ASSUME NEW m, NEW x \in DOMAIN m, NEW a, NEW v
  PROVE  [[m EXCEPT ![x] = a] EXCEPT ![x] = v] = [m EXCEPT ![x] = v]
OBVIOUS

\* An empty wire changes nothing.
LEMMA NothingRead ==
  ASSUME NEW cases, NEW M, Class(cases, M), NEW b \in Results(M), b.ok
  PROVE  ReadsTo(cases, M, b, << >>, {}, b.msg)
<1>1. << >> \in Seq(Tokens(cases)) /\ b.msg \in M
  BY DEF Results
<1>2. ParsedAll(cases, b, << >>) = b
  BY ParsedShort
<1>3. QED BY <1>1, <1>2 DEF ReadsTo

\* One more token.
LEMMA OneToken ==
  ASSUME NEW cases, NEW M, Class(cases, M), NEW b \in Results(M),
         NEW w \in Seq(Tokens(cases)), NEW t \in Tokens(cases)
  PROVE  /\ w \o <<t>> \in Seq(Tokens(cases))
         /\ ParsedAll(cases, b, w) \in Results(M)
         /\ ParsedAll(cases, b, w \o <<t>>) = Turn(cases, ParsedAll(cases, b, w), t)
<1>1. <<t>> \in Seq(Tokens(cases)) /\ w \o <<t>> \in Seq(Tokens(cases))
  OBVIOUS
<1>2. ParsedAll(cases, b, w) \in Results(M)
  BY ParsedKeeps
<1>3. ParsedAll(cases, b, w \o <<t>>) = ParsedAll(cases, ParsedAll(cases, b, w), <<t>>)
  BY <1>1, ParsedJoined
<1>4. QED BY <1>1, <1>2, <1>3, ParsedShort

\* The token of a string sets its field, if it is UTF-8.
LEMMA StringRead ==
  ASSUME NEW cases, NEW num \in Nat, num \in DOMAIN cases, NEW text \in Seq(Byte),
         cases[num].kind = "text", cases[num].type = "string", NEW m
  PROVE  /\ TextToken(num, text) \in Tokens(cases)
         /\ ReadAny(cases, m, TextToken(num, text)).ok <=> Utf8(text)
         /\ ReadAny(cases, m, TextToken(num, text)).msg
              = [m EXCEPT ![cases[num].name] = text]
<1> DEFINE t == TextToken(num, text)
<1>1. t.num = num /\ t.kind = "text" /\ t.val = text /\ t \in Token
  BY DEF TextToken, Token
<1> HIDE DEF t
<1>2. t \in Tokens(cases) /\ Accepts(cases, t)
  BY <1>1 DEF Tokens, Accepts
<1>3. ReadAny(cases, m, t) = Read(cases, m, t)
  BY <1>1 DEF ReadAny
<1>4. /\ Read(cases, m, t).ok <=> Utf8(text)
      /\ Read(cases, m, t).msg = [m EXCEPT ![cases[num].name] = text]
  BY <1>1, <1>2 DEF Read
<1>5. QED BY <1>2, <1>3, <1>4 DEF t

\* m with one more text in a repeated field.
Longer(m, name, text) == [m EXCEPT ![name] = Append(m[name], text)]

\* The token of a repeated string lengthens its field, if it is UTF-8.
LEMMA StringsRead ==
  ASSUME NEW cases, NEW num \in Nat, num \in DOMAIN cases, NEW text \in Seq(Byte),
         cases[num].kind = "text", cases[num].type = "strings", NEW m
  PROVE  /\ TextToken(num, text) \in Tokens(cases)
         /\ ReadAny(cases, m, TextToken(num, text)).ok <=> Utf8(text)
         /\ ReadAny(cases, m, TextToken(num, text)).msg
              = Longer(m, cases[num].name, text)
<1> DEFINE t == TextToken(num, text)
<1>1. t.num = num /\ t.kind = "text" /\ t.val = text /\ t \in Token
  BY DEF TextToken, Token
<1> HIDE DEF t
<1>2. t \in Tokens(cases) /\ Accepts(cases, t)
  BY <1>1 DEF Tokens, Accepts
<1>3. ReadAny(cases, m, t) = Read(cases, m, t)
  BY <1>1 DEF ReadAny
<1>4. /\ Read(cases, m, t).ok <=> Utf8(text)
      /\ Read(cases, m, t).msg = Longer(m, cases[num].name, text)
  BY <1>1, <1>2 DEF Read, Longer
<1>5. QED BY <1>2, <1>3, <1>4 DEF t

WithString(m, name, text) == [m EXCEPT ![name] = Given(m[name], text)]
WithNumber(m, name, n) == [m EXCEPT ![name] = NonZero(m[name], n)]
AllTexts(m, name, texts) == [m EXCEPT ![name] = m[name] \o texts]
AllUnknown(m, u) == [m EXCEPT !.unknown = m.unknown \o u]

\* A string that is written last is set last.
LEMMA StringStep ==
  ASSUME NEW cases, NEW M, Class(cases, M), NEW b \in Results(M), NEW w, NEW T, NEW m,
         ReadsTo(cases, M, b, w, T, m),
         NEW num \in Nat, num \in DOMAIN cases, NEW name,
         cases[num] = Field(name, "string"), NEW text \in Seq(Byte)
  PROVE  ReadsTo(cases, M, b, w \o StringField(num, text), T \cup {text},
                 WithString(m, name, text))
<1> DEFINE r == ParsedAll(cases, b, w)
           t == TextToken(num, text)
           next == WithString(m, name, text)
<1>1. cases[num].name = name /\ cases[num].type = "string" /\ cases[num].kind = "text"
  BY DEF Field
<1>2. w \in Seq(Tokens(cases)) /\ m \in M
  BY DEF ReadsTo
<1>3. [m EXCEPT ![name] = m[name]] = m /\ [m EXCEPT ![name] = text] \in M
  BY <1>1, <1>2 DEF Class, HasField, Values
<1>4. CASE text = << >>
  <2>1. StringField(num, text) = << >> /\ w \o << >> = w
    BY <1>2, <1>4 DEF StringField
  <2>2. next = m
    BY <1>3, <1>4 DEF Given, WithString
  <2>3. Utf8(text)
    BY <1>4 DEF Utf8
  <2> HIDE DEF next
  <2>4. QED BY <2>1, <2>2, <2>3 DEF ReadsTo, next
<1>5. CASE text # << >>
  <2>1. StringField(num, text) = <<t>> /\ next = [m EXCEPT ![name] = text]
    BY <1>5 DEF StringField, Given, WithString
  <2>2. t \in Tokens(cases)
    BY <1>1, StringRead
  <2>3. r \in Results(M) /\ w \o <<t>> \in Seq(Tokens(cases))
        /\ ParsedAll(cases, b, w \o <<t>>) = Turn(cases, r, t)
    BY <1>2, <2>2, OneToken
  <2>4. r.ok => /\ Turn(cases, r, t).ok <=> Utf8(text)
                /\ Turn(cases, r, t).msg = [r.msg EXCEPT ![name] = text]
    <3>1. /\ ReadAny(cases, r.msg, t).ok <=> Utf8(text)
          /\ ReadAny(cases, r.msg, t).msg = [r.msg EXCEPT ![name] = text]
      BY <1>1, StringRead
    <3> HIDE DEF r, t
    <3>2. QED BY <3>1 DEF Turn
  <2>5. ~r.ok => Turn(cases, r, t) = r
    BY DEF Turn
  <2>6. (r.ok <=> \A x \in T : Utf8(x)) /\ (r.ok => r.msg = m)
    BY DEF ReadsTo
  <2>7. next \in M
    BY <1>3, <2>1
  <2> DEFINE after == Turn(cases, r, t)
  <2> HIDE DEF r, t, next, after
  <2>8. after.ok <=> \A x \in T \cup {text} : Utf8(x)
    <3>1. CASE r.ok
      BY <2>4, <2>6, <3>1 DEF after
    <3>2. CASE ~r.ok
      BY <2>5, <2>6, <3>2 DEF after
    <3>3. QED BY <3>1, <3>2
  <2>9. after.ok => after.msg = next
    <3>1. CASE r.ok
      <4>1. after.msg = [r.msg EXCEPT ![name] = text] /\ r.msg = m
        BY <2>4, <2>6, <3>1 DEF after
      <4>2. QED BY <2>1, <4>1
    <3>2. CASE ~r.ok
      BY <2>5, <3>2 DEF after
    <3>3. QED BY <3>1, <3>2
  <2>10. ParsedAll(cases, b, w \o StringField(num, text)) = after
         /\ w \o StringField(num, text) \in Seq(Tokens(cases))
    BY <2>1, <2>3 DEF after, r
  <2> HIDE DEF after
  <2>11. QED BY <2>7, <2>8, <2>9, <2>10 DEF ReadsTo, next
<1>6. QED BY <1>4, <1>5

NumberToken(num, n) == [num |-> num, kind |-> "varint", val |-> Varint(n)]

\* n fits the field that the case reads.
Fits(c, n) ==
  \/ c.type = "int32" /\ n \in Int32
  \/ c.type = "int64" /\ n \in Int64

\* The token of an integer sets its field, whatever it held.
LEMMA NumberRead ==
  ASSUME NEW cases, NEW num \in Nat, num \in DOMAIN cases, NEW n, Fits(cases[num], n),
         cases[num].kind = "varint", NEW m
  PROVE  /\ NumberToken(num, n) \in Tokens(cases)
         /\ ReadAny(cases, m, NumberToken(num, n)).ok
         /\ ReadAny(cases, m, NumberToken(num, n)).msg = [m EXCEPT ![cases[num].name] = n]
<1> DEFINE t == NumberToken(num, n)
<1>0. n \in Int
  BY NumbersBack DEF Fits
<1>1. t.num = num /\ t.kind = "varint" /\ t.val = Varint(n) /\ t \in Token
  BY <1>0, Casts DEF Token, NumberToken
<1> HIDE DEF t
<1>2. t \in Tokens(cases) /\ Accepts(cases, t)
  BY <1>1 DEF Tokens, Accepts
<1>3. ReadAny(cases, m, t) = Read(cases, m, t)
  BY <1>1 DEF ReadAny
<1>4. CASE cases[num].type = "int32" /\ n \in Int32
  <2>1. Read(cases, m, t)
          = [ok |-> TRUE, msg |-> [m EXCEPT ![cases[num].name] = Int32Of(Varint(n))]]
    BY <1>1, <1>2, <1>4 DEF Read
  <2>2. Int32Of(Varint(n)) = n
    BY <1>4, NumbersBack
  <2>3. QED BY <1>2, <1>3, <2>1, <2>2 DEF t
<1>5. CASE cases[num].type = "int64" /\ n \in Int64
  <2>1. Read(cases, m, t)
          = [ok |-> TRUE, msg |-> [m EXCEPT ![cases[num].name] = Int64Of(Varint(n))]]
    BY <1>1, <1>2, <1>5 DEF Read
  <2>2. Int64Of(Varint(n)) = n
    BY <1>5, NumbersBack
  <2>3. QED BY <1>2, <1>3, <2>1, <2>2 DEF t
<1>6. QED BY <1>4, <1>5 DEF Fits

\* An integer that is written last is set last.
LEMMA NumberStep ==
  ASSUME NEW cases, NEW M, Class(cases, M), NEW b \in Results(M), NEW w, NEW T, NEW m,
         ReadsTo(cases, M, b, w, T, m),
         NEW num \in Nat, num \in DOMAIN cases, NEW name, NEW n,
         cases[num] \in {Field(name, "int32"), Field(name, "int64")}, Fits(cases[num], n)
  PROVE  ReadsTo(cases, M, b, w \o IntField(num, n), T,
                 WithNumber(m, name, n))
<1> DEFINE r == ParsedAll(cases, b, w)
           t == NumberToken(num, n)
           next == WithNumber(m, name, n)
<1>1. cases[num].name = name /\ cases[num].kind = "varint"
  BY DEF Field
<1>2. w \in Seq(Tokens(cases)) /\ m \in M
  BY DEF ReadsTo
<1>3. [m EXCEPT ![name] = m[name]] = m /\ [m EXCEPT ![name] = n] \in M
  <2>1. HasField(cases[num], M)
    BY DEF Class
  <2>2. n \in Values(cases[num].type)
    BY DEF Values, Fits
  <2>3. QED BY <1>1, <1>2, <2>1, <2>2 DEF HasField
<1>4. CASE n = 0
  <2>1. IntField(num, n) = << >> /\ w \o << >> = w
    BY <1>2, <1>4 DEF IntField
  <2>2. next = m
    BY <1>3, <1>4 DEF NonZero, WithNumber
  <2> HIDE DEF next
  <2>3. QED BY <2>1, <2>2 DEF ReadsTo, next
<1>5. CASE n # 0
  <2>1. IntField(num, n) = <<t>> /\ next = [m EXCEPT ![name] = n]
    BY <1>5 DEF IntField, NonZero, NumberToken, WithNumber
  <2>2. t \in Tokens(cases)
    BY <1>1, NumberRead
  <2>3. r \in Results(M) /\ w \o <<t>> \in Seq(Tokens(cases))
        /\ ParsedAll(cases, b, w \o <<t>>) = Turn(cases, r, t)
    BY <1>2, <2>2, OneToken
  <2>4. r.ok => Turn(cases, r, t).ok /\ Turn(cases, r, t).msg = [r.msg EXCEPT ![name] = n]
    <3>1. ReadAny(cases, r.msg, t).ok /\ ReadAny(cases, r.msg, t).msg = [r.msg EXCEPT ![name] = n]
      BY <1>1, NumberRead
    <3> HIDE DEF r, t
    <3>2. QED BY <3>1 DEF Turn
  <2>5. ~r.ok => Turn(cases, r, t) = r
    BY DEF Turn
  <2>6. (r.ok <=> \A x \in T : Utf8(x)) /\ (r.ok => r.msg = m)
    BY DEF ReadsTo
  <2>7. next \in M
    BY <1>3, <2>1
  <2> DEFINE after == Turn(cases, r, t)
  <2> HIDE DEF r, t, next, after
  <2>8. after.ok <=> r.ok
    BY <2>4, <2>5 DEF after
  <2>9. after.ok => after.msg = next
    <3>1. CASE r.ok
      <4>1. after.msg = [r.msg EXCEPT ![name] = n] /\ r.msg = m
        BY <2>4, <2>6, <3>1 DEF after
      <4>2. QED BY <2>1, <4>1
    <3>2. CASE ~r.ok
      BY <2>5, <3>2 DEF after
    <3>3. QED BY <3>1, <3>2
  <2>10. ParsedAll(cases, b, w \o IntField(num, n)) = after
         /\ w \o IntField(num, n) \in Seq(Tokens(cases))
    BY <2>1, <2>3 DEF after, r
  <2> HIDE DEF after
  <2>11. QED BY <2>6, <2>7, <2>8, <2>9, <2>10 DEF ReadsTo, next
<1>6. QED BY <1>4, <1>5

\* An element joins the end of a concatenation.
LEMMA Appended ==
  ASSUME NEW S, NEW a \in Seq(S), NEW c \in Seq(S), NEW e \in S
  PROVE  a \o Append(c, e) = Append(a \o c, e)
<1>1. a \o Append(c, e) \in Seq(S) /\ Append(a \o c, e) \in Seq(S)
  OBVIOUS
<1>2. QED BY <1>1, SMTT(30)

\* m with the first k of these texts behind its own.
WithTexts(m, name, texts, k) == [m EXCEPT ![name] = m[name] \o SubSeq(texts, 1, k)]

\* The first k of these texts are in a repeated field after k tokens.
LEMMA OneMoreText ==
  ASSUME NEW cases, NEW M, Class(cases, M), NEW m \in M,
         NEW num \in Nat, num \in DOMAIN cases, NEW name,
         cases[num] = Field(name, "strings"), NEW texts \in Seq(Seq(Byte)),
         NEW k \in 1 .. Len(texts), NEW x
  PROVE  x.ok /\ x.msg = WithTexts(m, name, texts, k - 1) =>
           /\ Turn(cases, x, TextToken(num, texts[k])).ok <=> Utf8(texts[k])
           /\ Turn(cases, x, TextToken(num, texts[k])).msg = WithTexts(m, name, texts, k)
<1> DEFINE front(j) == m[name] \o SubSeq(texts, 1, j)
           t == TextToken(num, texts[k])
<1>1. SUFFICES ASSUME x.ok, x.msg = [m EXCEPT ![name] = front(k - 1)]
      PROVE  /\ Turn(cases, x, t).ok <=> Utf8(texts[k])
             /\ Turn(cases, x, t).msg = [m EXCEPT ![name] = front(k)]
  BY DEF WithTexts
<1>2. cases[num].name = name /\ cases[num].type = "strings" /\ cases[num].kind = "text"
  BY DEF Field
<1>3. HasField(cases[num], M)
  BY DEF Class
<1>4. name \in DOMAIN m /\ m[name] \in Seq(Seq(Byte)) /\ texts[k] \in Seq(Byte)
  <2>1. m[name] \in Values("strings") /\ name \in DOMAIN m
    BY <1>2, <1>3 DEF HasField
  <2>2. texts[k] \in Seq(Byte)
    OBVIOUS
  <2>3. QED BY <2>1, <2>2 DEF Values
<1>5. front(k) = Append(front(k - 1), texts[k])
  <2>1. /\ SubSeq(texts, 1, k) = Append(SubSeq(texts, 1, k - 1), texts[k])
        /\ SubSeq(texts, 1, k - 1) \in Seq(Seq(Byte))
    OBVIOUS
  <2>2. QED BY <1>4, <2>1, Appended
<1>6. /\ Turn(cases, x, t).ok <=> Utf8(texts[k])
      /\ Turn(cases, x, t).msg = [x.msg EXCEPT ![name] = Append(x.msg[name], texts[k])]
  <2>1. /\ ReadAny(cases, x.msg, t).ok <=> Utf8(texts[k])
        /\ ReadAny(cases, x.msg, t).msg
             = [x.msg EXCEPT ![name] = Append(x.msg[name], texts[k])]
    <3> DEFINE y == x.msg
               text == texts[k]
    <3>1. text \in Seq(Byte)
      BY <1>4
    <3> HIDE DEF y, text
    <3>2. /\ ReadAny(cases, y, TextToken(num, text)).ok <=> Utf8(text)
          /\ ReadAny(cases, y, TextToken(num, text)).msg
               = Longer(y, cases[num].name, text)
      BY <1>2, <3>1, StringsRead
    <3>3. QED BY <1>2, <3>2 DEF y, text, Longer
  <2> HIDE DEF t, front
  <2>2. QED BY <1>1, <2>1 DEF Turn
<1> HIDE DEF front, t
<1>7. x.msg[name] = front(k - 1)
  BY <1>1, <1>4
<1>8. [x.msg EXCEPT ![name] = Append(x.msg[name], texts[k])] = [m EXCEPT ![name] = front(k)]
  <2>1. [x.msg EXCEPT ![name] = Append(x.msg[name], texts[k])] = [x.msg EXCEPT ![name] = front(k)]
    BY <1>5, <1>7
  <2>2. QED BY <1>1, <1>4, <2>1, Twice
<1>9. QED BY <1>6, <1>8

\* Repeated strings that are written last are appended in their order.
LEMMA StringsStep ==
  ASSUME NEW cases, NEW M, Class(cases, M), NEW b \in Results(M), NEW w, NEW T, NEW m,
         ReadsTo(cases, M, b, w, T, m),
         NEW num \in Nat, num \in DOMAIN cases, NEW name,
         cases[num] = Field(name, "strings"), NEW texts \in Seq(Seq(Byte))
  PROVE  ReadsTo(cases, M, b, w \o StringFields(num, texts),
                 T \cup {texts[k] : k \in 1 .. Len(texts)},
                 AllTexts(m, name, texts))
<1> DEFINE r == ParsedAll(cases, b, w)
           s == StringFields(num, texts)
           n == Len(texts)
           upTo(k) == WithTexts(m, name, texts, k)
           seen(k) == T \cup {texts[j] : j \in 1 .. k}
<1>1. cases[num].name = name /\ cases[num].type = "strings" /\ cases[num].kind = "text"
  BY DEF Field
<1>2. w \in Seq(Tokens(cases)) /\ m \in M /\ r \in Results(M)
      /\ (r.ok <=> \A x \in T : Utf8(x)) /\ (r.ok => r.msg = m)
  BY ParsedKeeps DEF ReadsTo
<1>3. name \in DOMAIN m /\ m[name] \in Seq(Seq(Byte)) /\ [m EXCEPT ![name] = m[name]] = m
      /\ \A v \in Seq(Seq(Byte)) : [m EXCEPT ![name] = v] \in M
  <2>1. HasField(cases[num], M)
    BY DEF Class
  <2>2. QED BY <1>1, <1>2, <2>1 DEF HasField, Values
<1>4. n \in Nat /\ DOMAIN texts = 1 .. n /\ \A k \in 1 .. n : texts[k] \in Seq(Byte)
  OBVIOUS
<1>5. s \in Seq(Tokens(cases)) /\ Len(s) = n
      /\ \A k \in 1 .. n : s[k] = TextToken(num, texts[k])
  <2>1. s = [k \in 1 .. n |-> TextToken(num, texts[k])]
    BY <1>4 DEF StringFields
  <2>2. \A k \in 1 .. n : TextToken(num, texts[k]) \in Tokens(cases)
    BY <1>1, <1>4, StringsRead
  <2> HIDE DEF s, n
  <2>3. QED BY <1>4, <2>1, <2>2
<1>6. w \o s \in Seq(Tokens(cases)) /\ ParsedAll(cases, b, w \o s) = ParsedAll(cases, r, s)
  BY <1>2, <1>5, ParsedJoined
<1> HIDE DEF s, r, n
<1>7. PICK f : /\ f[0] = r /\ ParsedAll(cases, r, s) = f[n]
               /\ \A k \in 1 .. n : f[k] = Turn(cases, f[k - 1], TextToken(num, texts[k]))
  <2>1. ParsedRuns(cases, r, s, Results(M))
    BY <1>2, <1>5, ParsedKeeps
  <2>2. QED BY <1>5, <2>1 DEF ParsedRuns
<1> DEFINE good(x, k) == (x.ok <=> \A y \in seen(k) : Utf8(y)) /\ (x.ok => x.msg = upTo(k))
           P == [k \in 0 .. n |-> {x \in {f[k]} : good(x, k)}]
<1>8. f[0] \in P[0]
  <2>1. m[name] \o SubSeq(texts, 1, 0) = m[name]
    BY <1>3
  <2>2. upTo(0) = m
    BY <1>3, <2>1 DEF WithTexts
  <2>3. seen(0) = T
    OBVIOUS
  <2> HIDE DEF upTo, seen
  <2>4. good(f[0], 0)
    BY <1>2, <1>7, <2>2, <2>3
  <2> HIDE DEF good
  <2>5. QED BY <1>4, <2>4
<1>9. ASSUME NEW k \in 1 .. n, f[k - 1] \in P[k - 1] PROVE f[k] \in P[k]
  <2>1. k - 1 \in 0 .. n /\ k \in 0 .. n
    BY <1>4
  <2>2. good(f[k - 1], k - 1)
    <3> HIDE DEF good
    <3>1. QED BY <1>9, <2>1
  <2>3. f[k - 1].ok => /\ f[k].ok <=> Utf8(texts[k])
                       /\ f[k].msg = upTo(k)
    <3>1. f[k] = Turn(cases, f[k - 1], TextToken(num, texts[k]))
      BY <1>7
    <3>2. f[k - 1].ok => f[k - 1].msg = upTo(k - 1)
      BY <2>2
    <3>3. k \in 1 .. Len(texts)
      BY DEF n
    <3>4. QED BY <1>2, <3>1, <3>2, <3>3, OneMoreText
  <2>4. ~f[k - 1].ok => f[k] = f[k - 1]
    BY <1>7 DEF Turn
  <2>5. seen(k) = seen(k - 1) \cup {texts[k]}
    <3>1. 1 .. k = (1 .. k - 1) \cup {k}
      BY <1>4
    <3>2. QED BY <3>1
  <2> HIDE DEF seen, upTo
  <2>6. good(f[k], k)
    BY <2>2, <2>3, <2>4, <2>5
  <2> HIDE DEF good
  <2>7. QED BY <2>1, <2>6
<1> HIDE DEF P
<1>10. \A k \in 0 .. n : f[k] \in P[k]
  BY <1>4, <1>8, <1>9, Reaches
<1>11. good(f[n], n)
  <2>1. n \in 0 .. n
    BY <1>4
  <2>2. QED BY <1>10, <2>1 DEF P
<1>12. SubSeq(texts, 1, n) = texts /\ m[name] \o texts \in Seq(Seq(Byte))
  BY <1>3 DEF n
<1>13. upTo(n) = AllTexts(m, name, texts) /\ upTo(n) \in M
  BY <1>3, <1>12 DEF WithTexts, AllTexts
<1>14. seen(n) = T \cup {texts[k] : k \in 1 .. Len(texts)}
  BY DEF n
<1> HIDE DEF upTo, seen
<1>15. QED BY <1>6, <1>7, <1>11, <1>13, <1>14 DEF ReadsTo, s

\* Fields the class does not know.
Strangers(cases, u) == \A k \in 1 .. Len(u) : ~Accepts(cases, u[k])

\* Fields that the class does not know are kept in their order.
LEMMA UnknownStep ==
  ASSUME NEW cases, NEW M, Class(cases, M), NEW b \in Results(M), NEW w, NEW T, NEW m,
         ReadsTo(cases, M, b, w, T, m),
         NEW u \in Seq(Token), Strangers(cases, u)
  PROVE  ReadsTo(cases, M, b, w \o u, T, AllUnknown(m, u))
<1> DEFINE r == ParsedAll(cases, b, w)
           n == Len(u)
           upTo(k) == [m EXCEPT !.unknown = m.unknown \o SubSeq(u, 1, k)]
<1>2. w \in Seq(Tokens(cases)) /\ m \in M /\ r \in Results(M)
      /\ (r.ok <=> \A x \in T : Utf8(x)) /\ (r.ok => r.msg = m)
  BY ParsedKeeps DEF ReadsTo
<1>3. "unknown" \in DOMAIN m /\ m.unknown \in Seq(Token) /\ [m EXCEPT !.unknown = m.unknown] = m
      /\ \A v \in Seq(Token) : [m EXCEPT !.unknown = v] \in M
  BY <1>2 DEF Class
<1>4. n \in Nat /\ \A k \in 1 .. n : u[k] \in Token
  OBVIOUS
<1>5. u \in Seq(Tokens(cases))
  <2>1. \A t \in Token : t \in Tokens(cases)
    BY TokenIs DEF Tokens
  <2>2. QED BY <2>1
<1>6. w \o u \in Seq(Tokens(cases)) /\ ParsedAll(cases, b, w \o u) = ParsedAll(cases, r, u)
  BY <1>2, <1>5, ParsedJoined
<1> HIDE DEF r
<1>7. PICK f : /\ f[0] = r /\ ParsedAll(cases, r, u) = f[n]
               /\ \A k \in 1 .. n : f[k] = Turn(cases, f[k - 1], u[k])
  BY <1>2, <1>5, ParsedKeeps DEF ParsedRuns
<1> DEFINE good(x, k) == (x.ok <=> r.ok) /\ (x.ok => x.msg = upTo(k))
           P == [k \in 0 .. n |-> {x \in {f[k]} : good(x, k)}]
<1>8. f[0] \in P[0]
  <2>1. m.unknown \o SubSeq(u, 1, 0) = m.unknown
    BY <1>3
  <2>2. upTo(0) = m
    BY <1>3, <2>1
  <2> HIDE DEF upTo
  <2>4. good(f[0], 0)
    BY <1>2, <1>7, <2>2
  <2> HIDE DEF good, n
  <2>5. QED BY <1>4, <2>4
<1>9. ASSUME NEW k \in 1 .. n, f[k - 1] \in P[k - 1] PROVE f[k] \in P[k]
  <2>1. k - 1 \in 0 .. n /\ k \in 0 .. n
    BY <1>4
  <2>2. good(f[k - 1], k - 1)
    <3> HIDE DEF good, n
    <3>1. QED BY <1>9, <2>1
  <2>3. f[k - 1].ok => f[k].ok /\ f[k].msg = [f[k - 1].msg EXCEPT !.unknown = Append(@, u[k])]
    <3>1. u[k].kind # "message" /\ ~Accepts(cases, u[k])
      BY <1>4, TokenIs DEF Strangers
    <3> DEFINE y == f[k - 1].msg
    <3>2. ReadAny(cases, y, u[k]).ok /\ ReadAny(cases, y, u[k]).msg
          = [y EXCEPT !.unknown = Append(@, u[k])]
      BY <3>1 DEF ReadAny, Read
    <3>3. f[k] = Turn(cases, f[k - 1], u[k])
      BY <1>7
    <3>4. f[k - 1].ok => f[k] = ReadAny(cases, y, u[k])
      BY <3>3 DEF Turn
    <3> HIDE DEF y
    <3>5. QED BY <3>2, <3>4 DEF y
  <2>4. ~f[k - 1].ok => f[k] = f[k - 1]
    BY <1>7 DEF Turn
  <2>5. f[k - 1].ok => f[k].msg = upTo(k)
    <3> SUFFICES ASSUME f[k - 1].ok PROVE f[k].msg = upTo(k)
      OBVIOUS
    <3>1. f[k - 1].msg = upTo(k - 1)
      BY <2>2
    <3>2. m.unknown \o SubSeq(u, 1, k) = Append(m.unknown \o SubSeq(u, 1, k - 1), u[k])
      <4>1. /\ SubSeq(u, 1, k) = Append(SubSeq(u, 1, k - 1), u[k])
            /\ SubSeq(u, 1, k - 1) \in Seq(Token) /\ u[k] \in Token
        OBVIOUS
      <4> DEFINE own == m.unknown
                 c == SubSeq(u, 1, k - 1)
      <4>2. own \in Seq(Token)
        BY <1>3
      <4> HIDE DEF n, own, c
      <4>3. own \o Append(c, u[k]) = Append(own \o c, u[k])
        BY <4>1, <4>2, Appended DEF c
      <4>4. QED BY <4>1, <4>3 DEF own, c
    <3>3. f[k - 1].msg.unknown = m.unknown \o SubSeq(u, 1, k - 1)
      BY <1>3, <3>1
    <3> DEFINE front == m.unknown \o SubSeq(u, 1, k - 1)
               whole == m.unknown \o SubSeq(u, 1, k)
    <3>4. f[k].msg = [[m EXCEPT !["unknown"] = front] EXCEPT !["unknown"] = whole]
      BY <2>3, <3>1, <3>2, <3>3
    <3> HIDE DEF front, whole
    <3>5. f[k].msg = [m EXCEPT !["unknown"] = whole]
      BY <1>3, <3>4, Twice
    <3>6. QED BY <3>5 DEF whole
  <2> HIDE DEF upTo
  <2>6. good(f[k], k)
    BY <2>2, <2>3, <2>4, <2>5
  <2> HIDE DEF good, n
  <2>7. QED BY <2>1, <2>6
<1> HIDE DEF P
<1>10. \A k \in 0 .. n : f[k] \in P[k]
  BY <1>4, <1>8, <1>9, Reaches
<1>11. good(f[n], n)
  <2>1. n \in 0 .. n
    BY <1>4
  <2> HIDE DEF good
  <2>2. QED BY <1>10, <2>1 DEF P
<1>12. SubSeq(u, 1, n) = u /\ m.unknown \o u \in Seq(Token)
  BY <1>3
<1>13. upTo(n) = AllUnknown(m, u) /\ upTo(n) \in M
  BY <1>3, <1>12 DEF AllUnknown
<1> HIDE DEF upTo, n
<1>15. QED BY <1>2, <1>6, <1>7, <1>11, <1>13 DEF ReadsTo

\* NumberStep for an int32.
LEMMA Int32Step ==
  ASSUME NEW cases, NEW M, Class(cases, M), NEW b \in Results(M), NEW w, NEW T, NEW m,
         ReadsTo(cases, M, b, w, T, m),
         NEW num \in Nat, num \in DOMAIN cases, NEW name, NEW n \in Int32,
         cases[num] = Field(name, "int32")
  PROVE  ReadsTo(cases, M, b, w \o IntField(num, n), T, WithNumber(m, name, n))
BY NumberStep DEF Fits, Field

\* NumberStep for an int64.
LEMMA Int64Step ==
  ASSUME NEW cases, NEW M, Class(cases, M), NEW b \in Results(M), NEW w, NEW T, NEW m,
         ReadsTo(cases, M, b, w, T, m),
         NEW num \in Nat, num \in DOMAIN cases, NEW name, NEW n \in Int64,
         cases[num] = Field(name, "int64")
  PROVE  ReadsTo(cases, M, b, w \o IntField(num, n), T, WithNumber(m, name, n))
BY NumberStep DEF Fits, Field

\* LogText
LogText_Texts(m) ==
  {m.ip_port, m.gns_name}
    \cup {m.text[k] : k \in 1 .. Len(m.text)}

\* Parsing what LogText wrote merges it into the message at hand.
LEMMA LogTextParsed ==
  ASSUME NEW b \in Results(LogTextMsg), b.ok, NEW m \in LogTextMsg, Strangers(LogText_Cases, m.unknown)
  PROVE  ReadsTo(LogText_Cases, LogTextMsg, b, LogText_Serialize(m), LogText_Texts(m),
                 LogText_MergeFrom(b.msg, m))
<1> DEFINE m0 == b.msg
           m1 == WithString(m0, "ip_port", m.ip_port)
           m2 == WithString(m1, "gns_name", m.gns_name)
           m3 == AllTexts(m2, "text", m.text)
           end == AllUnknown(m3, m.unknown)
           w0 == << >>
           t0 == {}
           w1 == StringField(1, m.ip_port)
           w2 == w1 \o StringField(2, m.gns_name)
           w3 == w2 \o StringFields(3, m.text)
           t1 == t0 \cup {m.ip_port}
           t2 == t1 \cup {m.gns_name}
           t3 == t2 \cup {m.text[k] : k \in 1 .. Len(m.text)}
<1>a. Class(LogText_Cases, LogTextMsg) /\ m.unknown \in Seq(Token)
      /\ m.ip_port \in Seq(Byte) /\ m.gns_name \in Seq(Byte) /\ m.text \in Seq(Seq(Byte))
  BY LogTextClass DEF LogTextMsg
<1>b. LogText_Serialize(m) = w3 \o m.unknown /\ LogText_Texts(m) = t3
  BY <1>a DEF LogText_Serialize, LogText_Texts
<1> HIDE DEF end, m0, m1, m2, m3, w0, w1, w2, w3, t0, t1, t2, t3
<1>0. ReadsTo(LogText_Cases, LogTextMsg, b, w0, t0, m0)
  BY <1>a, NothingRead DEF m0, w0, t0
<1>1. ReadsTo(LogText_Cases, LogTextMsg, b, w1, t1, m1)
  <2>1. w0 \o StringField(1, m.ip_port) = w1
    BY <1>a DEF w0, w1, StringField
  <2>2. QED BY <1>a, <1>0, <2>1, LogTextClass, StringStep DEF m1, t1
<1>2. ReadsTo(LogText_Cases, LogTextMsg, b, w2, t2, m2)
  BY <1>a, <1>1, LogTextClass, StringStep DEF w2, t2, m2
<1>3. ReadsTo(LogText_Cases, LogTextMsg, b, w3, t3, m3)
  BY <1>a, <1>2, LogTextClass, StringsStep DEF w3, t3, m3
<1>4. ReadsTo(LogText_Cases, LogTextMsg, b, w3 \o m.unknown, t3, end)
  BY <1>a, <1>3, UnknownStep DEF end
<1>c. end = LogText_MergeFrom(b.msg, m)
  <2>1. m0 \in LogTextMsg /\ m1 \in LogTextMsg /\ m2 \in LogTextMsg /\ m3 \in LogTextMsg
        /\ end \in LogTextMsg
    BY <1>0, <1>1, <1>2, <1>3, <1>4 DEF ReadsTo
  <2>2. /\ end.ip_port = Given(b.msg.ip_port, m.ip_port)
        /\ end.gns_name = Given(b.msg.gns_name, m.gns_name)
        /\ end.text = b.msg.text \o m.text
        /\ end.unknown = b.msg.unknown \o m.unknown
    BY <2>1 DEF end, m0, m1, m2, m3, AllTexts, WithString, AllUnknown, LogTextMsg
  <2>3. end = [ip_port |-> end.ip_port, gns_name |-> end.gns_name, text |-> end.text,
        unknown |-> end.unknown]
    BY <2>1 DEF LogTextMsg
  <2>4. QED BY <2>2, <2>3 DEF LogText_MergeFrom
<1>5. QED BY <1>b, <1>c, <1>4

----------------------------------------------------------------------------
(* Messages inside a message *)

LogTextToken(num, x) == [num |-> num, kind |-> "message", val |-> LogText_Serialize(x)]

\* A LogText is read to itself, unless one of its texts is not UTF-8.
LEMMA InnerRead ==
  ASSUME NEW x \in LogTextMsg, Strangers(LogText_Cases, x.unknown)
  PROVE  /\ LogText_Serialize(x) \in Seq(Token)
         /\ ParseFlat(EmptyLogText, LogText_Cases, LogText_Serialize(x)).ok
              <=> \A text \in LogText_Texts(x) : Utf8(text)
         /\ ParseFlat(EmptyLogText, LogText_Cases, LogText_Serialize(x)).ok =>
              ParseFlat(EmptyLogText, LogText_Cases, LogText_Serialize(x)).msg = x
<1> DEFINE b == [ok |-> TRUE, msg |-> EmptyLogText]
           s == LogText_Serialize(x)
           r == ParseFlat(EmptyLogText, LogText_Cases, s)
<1>1. b \in Results(LogTextMsg) /\ b.ok /\ b.msg = EmptyLogText
  <2>1. EmptyLogText \in LogTextMsg
    BY DEF EmptyLogText, LogTextMsg
  <2>2. QED BY <2>1 DEF Results
<1>2. r = FlatAll(LogText_Cases, b, s)
  BY DEF ParseFlat, FlatAll
<1> HIDE DEF b, s, r
<1>3. ReadsTo(LogText_Cases, LogTextMsg, b, s, LogText_Texts(x), LogText_MergeFrom(b.msg, x))
  BY <1>1, LogTextParsed DEF s
<1>4. s \in Seq(Token)
  <2>1. \A t \in Tokens(LogText_Cases) : t \in Token
    <3>1. \A num \in DOMAIN LogText_Cases : LogText_Cases[num].kind # "message"
      BY LogTextClass DEF Field
    <3>2. QED BY <3>1, TokenIs DEF Tokens, Accepts
  <2>2. s \in Seq(Tokens(LogText_Cases))
    BY <1>3 DEF ReadsTo
  <2>3. QED BY <2>1, <2>2
<1>5. r = ParsedAll(LogText_Cases, b, s)
  BY <1>1, <1>2, <1>4, FlatIsParsed, LogTextClass
<1>6. LogText_MergeFrom(b.msg, x) = x
  <2>1. x = [ip_port |-> x.ip_port, gns_name |-> x.gns_name, text |-> x.text,
             unknown |-> x.unknown]
    BY DEF LogTextMsg
  <2>2. << >> \o x.text = x.text /\ << >> \o x.unknown = x.unknown
    BY DEF LogTextMsg
  <2>3. QED BY <1>1, <2>1, <2>2 DEF LogText_MergeFrom, EmptyLogText, Given
<1>7. QED BY <1>3, <1>4, <1>5, <1>6 DEF ReadsTo, r, s

\* The token of a LogText lengthens its field, if its texts are UTF-8.
LEMMA LogTextRead ==
  ASSUME NEW cases, NEW num \in Nat, num \in DOMAIN cases, NEW name,
         cases[num] = Repeated(name, EmptyLogText, LogText_Cases),
         NEW x \in LogTextMsg, Strangers(LogText_Cases, x.unknown), NEW m
  PROVE  /\ LogTextToken(num, x) \in Tokens(cases)
         /\ ReadAny(cases, m, LogTextToken(num, x)).ok
              <=> \A text \in LogText_Texts(x) : Utf8(text)
         /\ ReadAny(cases, m, LogTextToken(num, x)).ok =>
              ReadAny(cases, m, LogTextToken(num, x)).msg = Longer(m, name, x)
<1> DEFINE t == LogTextToken(num, x)
           inner == ParseFlat(EmptyLogText, LogText_Cases, LogText_Serialize(x))
<1>1. /\ inner.ok <=> \A text \in LogText_Texts(x) : Utf8(text)
      /\ inner.ok => inner.msg = x
      /\ LogText_Serialize(x) \in Seq(Token)
  BY InnerRead
<1>2. t.num = num /\ t.kind = "message" /\ t.val = LogText_Serialize(x) /\ t \in MessageToken
  BY <1>1 DEF LogTextToken, MessageToken
<1>3. cases[num].kind = "message" /\ cases[num].name = name
      /\ cases[num].empty = EmptyLogText /\ cases[num].cases = LogText_Cases
  BY DEF Repeated
<1> HIDE DEF t
<1>4. Accepts(cases, t) /\ t \in Tokens(cases)
  BY <1>2, <1>3 DEF Accepts, Tokens
<1>5. ReadAny(cases, m, t)
        = [ok |-> inner.ok, msg |-> [m EXCEPT ![name] = Append(@, inner.msg)]]
  BY <1>2, <1>3, <1>4 DEF ReadAny
<1> HIDE DEF inner
<1>6. ReadAny(cases, m, t).ok <=> inner.ok
  BY <1>5
<1>7. ReadAny(cases, m, t).msg = [m EXCEPT ![name] = Append(m[name], inner.msg)]
  BY <1>5
<1>8. inner.ok => ReadAny(cases, m, t).msg = Longer(m, name, x)
  BY <1>1, <1>7 DEF Longer
<1>9. QED BY <1>1, <1>4, <1>6, <1>8 DEF t

\* One of the repeated LogTexts is read after the others.
LEMMA OneMoreLogText ==
  ASSUME NEW cases, NEW M, Class(cases, M), NEW m \in M,
         NEW num \in Nat, num \in DOMAIN cases, NEW name,
         cases[num] = Repeated(name, EmptyLogText, LogText_Cases),
         NEW texts \in Seq(LogTextMsg),
         NEW k \in 1 .. Len(texts), Strangers(LogText_Cases, texts[k].unknown), NEW x
  PROVE  x.ok /\ x.msg = WithTexts(m, name, texts, k - 1) =>
           /\ Turn(cases, x, LogTextToken(num, texts[k])).ok
                <=> \A y \in LogText_Texts(texts[k]) : Utf8(y)
           /\ Turn(cases, x, LogTextToken(num, texts[k])).ok =>
                Turn(cases, x, LogTextToken(num, texts[k])).msg = WithTexts(m, name, texts, k)
<1> DEFINE front(j) == m[name] \o SubSeq(texts, 1, j)
           text == texts[k]
           t == LogTextToken(num, text)
           r == Turn(cases, x, t)
<1>1. SUFFICES ASSUME x.ok, x.msg = [m EXCEPT ![name] = front(k - 1)]
      PROVE  /\ r.ok <=> \A y \in LogText_Texts(text) : Utf8(y)
             /\ r.ok => r.msg = [m EXCEPT ![name] = front(k)]
  BY DEF WithTexts
<1>2. cases[num].name = name /\ cases[num].type = "messages"
  BY DEF Repeated
<1>3. HasField(cases[num], M)
  BY DEF Class
<1>4. name \in DOMAIN m /\ m[name] \in Seq(LogTextMsg) /\ text \in LogTextMsg
  <2>1. m[name] \in Values("messages") /\ name \in DOMAIN m
    BY <1>2, <1>3 DEF HasField
  <2>2. text \in LogTextMsg
    OBVIOUS
  <2>3. QED BY <2>1, <2>2 DEF Values
<1>5. front(k) = Append(front(k - 1), text)
  <2>1. /\ SubSeq(texts, 1, k) = Append(SubSeq(texts, 1, k - 1), texts[k])
        /\ SubSeq(texts, 1, k - 1) \in Seq(LogTextMsg)
    OBVIOUS
  <2>2. QED BY <1>4, <2>1, Appended
<1> HIDE DEF front, text
<1>6. /\ ReadAny(cases, x.msg, t).ok <=> \A y \in LogText_Texts(text) : Utf8(y)
      /\ ReadAny(cases, x.msg, t).ok =>
           ReadAny(cases, x.msg, t).msg = Longer(x.msg, name, text)
  <2>1. Strangers(LogText_Cases, text.unknown)
    BY DEF text
  <2>2. QED BY <1>4, <2>1, LogTextRead
<1>7. r = ReadAny(cases, x.msg, t)
  BY <1>1 DEF Turn
<1> HIDE DEF t, r
<1>8. x.msg[name] = front(k - 1)
  BY <1>1, <1>4
<1>9. Longer(x.msg, name, text) = [m EXCEPT ![name] = front(k)]
  <2>1. Longer(x.msg, name, text) = [x.msg EXCEPT ![name] = front(k)]
    BY <1>5, <1>8 DEF Longer
  <2>2. QED BY <1>1, <1>4, <2>1, Twice
<1>10. QED BY <1>6, <1>7, <1>9

\* Repeated LogTexts that are written last are appended in their order.
LEMMA MessagesStep ==
  ASSUME NEW cases, NEW M, Class(cases, M), NEW b \in Results(M), NEW w, NEW T, NEW m,
         ReadsTo(cases, M, b, w, T, m),
         NEW num \in Nat, num \in DOMAIN cases, NEW name,
         cases[num] = Repeated(name, EmptyLogText, LogText_Cases),
         NEW texts \in Seq(LogTextMsg),
         \A k \in 1 .. Len(texts) : Strangers(LogText_Cases, texts[k].unknown)
  PROVE  ReadsTo(cases, M, b, w \o LogTextFields(num, texts),
                 T \cup UNION {LogText_Texts(texts[k]) : k \in 1 .. Len(texts)},
                 AllTexts(m, name, texts))
<1> DEFINE r == ParsedAll(cases, b, w)
           s == LogTextFields(num, texts)
           n == Len(texts)
           upTo(k) == WithTexts(m, name, texts, k)
           seen(k) == T \cup UNION {LogText_Texts(texts[j]) : j \in 1 .. k}
<1>1. cases[num].name = name /\ cases[num].type = "messages" /\ cases[num].kind = "message"
      /\ cases[num].empty = EmptyLogText /\ cases[num].cases = LogText_Cases
  BY DEF Repeated
<1>2. w \in Seq(Tokens(cases)) /\ m \in M /\ r \in Results(M)
      /\ (r.ok <=> \A x \in T : Utf8(x)) /\ (r.ok => r.msg = m)
  BY ParsedKeeps DEF ReadsTo
<1>3. name \in DOMAIN m /\ m[name] \in Seq(LogTextMsg) /\ [m EXCEPT ![name] = m[name]] = m
      /\ \A v \in Seq(LogTextMsg) : [m EXCEPT ![name] = v] \in M
  <2>1. HasField(cases[num], M)
    BY DEF Class
  <2>2. QED BY <1>1, <1>2, <2>1 DEF HasField, Values
<1>4. n \in Nat /\ DOMAIN texts = 1 .. n /\ \A k \in 1 .. n : texts[k] \in LogTextMsg
  OBVIOUS
<1>5. s \in Seq(Tokens(cases)) /\ Len(s) = n
      /\ \A k \in 1 .. n : s[k] = LogTextToken(num, texts[k])
  <2>1. s = [k \in 1 .. n |-> LogTextToken(num, texts[k])]
    BY <1>4 DEF LogTextFields, LogTextToken
  <2>2. \A k \in 1 .. n : LogTextToken(num, texts[k]) \in Tokens(cases)
    BY <1>1, <1>4, LogTextRead
  <2> HIDE DEF s, n
  <2>3. QED BY <1>4, <2>1, <2>2
<1>6. w \o s \in Seq(Tokens(cases)) /\ ParsedAll(cases, b, w \o s) = ParsedAll(cases, r, s)
  BY <1>2, <1>5, ParsedJoined
<1> HIDE DEF s, r, n
<1>7. PICK f : /\ f[0] = r /\ ParsedAll(cases, r, s) = f[n]
               /\ \A k \in 1 .. n : f[k] = Turn(cases, f[k - 1], LogTextToken(num, texts[k]))
  <2>1. ParsedRuns(cases, r, s, Results(M))
    BY <1>2, <1>5, ParsedKeeps
  <2>2. QED BY <1>5, <2>1 DEF ParsedRuns
<1> DEFINE good(x, k) == (x.ok <=> \A y \in seen(k) : Utf8(y)) /\ (x.ok => x.msg = upTo(k))
           P == [k \in 0 .. n |-> {x \in {f[k]} : good(x, k)}]
<1>8. f[0] \in P[0]
  <2>1. m[name] \o SubSeq(texts, 1, 0) = m[name]
    BY <1>3
  <2>2. upTo(0) = m
    BY <1>3, <2>1 DEF WithTexts
  <2>3. seen(0) = T
    OBVIOUS
  <2> HIDE DEF upTo, seen
  <2>4. good(f[0], 0)
    BY <1>2, <1>7, <2>2, <2>3
  <2> HIDE DEF good
  <2>5. QED BY <1>4, <2>4
<1>9. ASSUME NEW k \in 1 .. n, f[k - 1] \in P[k - 1] PROVE f[k] \in P[k]
  <2>1. k - 1 \in 0 .. n /\ k \in 0 .. n
    BY <1>4
  <2>2. good(f[k - 1], k - 1)
    <3> HIDE DEF good
    <3>1. QED BY <1>9, <2>1
  <2>3. f[k - 1].ok => /\ f[k].ok <=> \A y \in LogText_Texts(texts[k]) : Utf8(y)
                       /\ f[k].ok => f[k].msg = upTo(k)
    <3>1. f[k] = Turn(cases, f[k - 1], LogTextToken(num, texts[k]))
      BY <1>7
    <3>2. f[k - 1].ok => f[k - 1].msg = upTo(k - 1)
      BY <2>2
    <3>3. k \in 1 .. Len(texts)
      BY DEF n
    <3>4. QED BY <1>2, <3>1, <3>2, <3>3, OneMoreLogText
  <2>4. ~f[k - 1].ok => f[k] = f[k - 1]
    BY <1>7 DEF Turn
  <2>5. seen(k) = seen(k - 1) \cup LogText_Texts(texts[k])
    <3>1. 1 .. k = (1 .. k - 1) \cup {k}
      BY <1>4
    <3>2. QED BY <3>1
  <2> HIDE DEF seen, upTo
  <2>6. good(f[k], k)
    BY <2>2, <2>3, <2>4, <2>5
  <2> HIDE DEF good
  <2>7. QED BY <2>1, <2>6
<1> HIDE DEF P
<1>10. \A k \in 0 .. n : f[k] \in P[k]
  BY <1>4, <1>8, <1>9, Reaches
<1>11. good(f[n], n)
  <2>1. n \in 0 .. n
    BY <1>4
  <2>2. QED BY <1>10, <2>1 DEF P
<1>12. SubSeq(texts, 1, n) = texts /\ m[name] \o texts \in Seq(LogTextMsg)
  BY <1>3 DEF n
<1>13. upTo(n) = AllTexts(m, name, texts) /\ upTo(n) \in M
  BY <1>3, <1>12 DEF WithTexts, AllTexts
<1>14. seen(n) = T \cup UNION {LogText_Texts(texts[k]) : k \in 1 .. Len(texts)}
  BY DEF n
<1> HIDE DEF upTo, seen
<1>15. QED BY <1>6, <1>7, <1>11, <1>13, <1>14 DEF ReadsTo, s

\* GetLogResp
GetLogResp_Texts(m) ==
  {m.ret_msg}
    \cup UNION {LogText_Texts(m.log_text[k]) : k \in 1 .. Len(m.log_text)}

\* Parsing what GetLogResp wrote merges it into the message at hand.
LEMMA GetLogRespParsed ==
  ASSUME NEW b \in Results(GetLogRespMsg), b.ok, NEW m \in GetLogRespMsg,
         Strangers(GetLogResp_Cases, m.unknown),
         \A k \in 1 .. Len(m.log_text) : Strangers(LogText_Cases, m.log_text[k].unknown)
  PROVE  ReadsTo(GetLogResp_Cases, GetLogRespMsg, b, GetLogResp_Serialize(m), GetLogResp_Texts(m),
                 GetLogResp_MergeFrom(b.msg, m))
<1> DEFINE m0 == b.msg
           m1 == WithNumber(m0, "ret", m.ret)
           m2 == WithString(m1, "ret_msg", m.ret_msg)
           m3 == WithNumber(m2, "fd", m.fd)
           m4 == WithNumber(m3, "req_begin_time", m.req_begin_time)
           m5 == AllTexts(m4, "log_text", m.log_text)
           end == AllUnknown(m5, m.unknown)
           w0 == << >>
           t0 == {}
           w1 == IntField(1, m.ret)
           w2 == w1 \o StringField(2, m.ret_msg)
           w3 == w2 \o IntField(3, m.fd)
           w4 == w3 \o IntField(4, m.req_begin_time)
           w5 == w4 \o LogTextFields(5, m.log_text)
           t2 == t0 \cup {m.ret_msg}
           t5 == t2 \cup UNION {LogText_Texts(m.log_text[k]) : k \in 1 .. Len(m.log_text)}
<1>a. Class(GetLogResp_Cases, GetLogRespMsg) /\ m.unknown \in Seq(Token)
      /\ m.ret \in Int32 /\ m.ret_msg \in Seq(Byte) /\ m.fd \in Int32 /\ m.req_begin_time \in Int32
          /\ m.log_text \in Seq(LogTextMsg)
  BY GetLogRespClass DEF GetLogRespMsg
<1>b. GetLogResp_Serialize(m) = w5 \o m.unknown /\ GetLogResp_Texts(m) = t5
  BY <1>a DEF GetLogResp_Serialize, GetLogResp_Texts
<1> HIDE DEF end, m0, m1, m2, m3, m4, m5, w0, w1, w2, w3, w4, w5, t0, t2, t5
<1>0. ReadsTo(GetLogResp_Cases, GetLogRespMsg, b, w0, t0, m0)
  BY <1>a, NothingRead DEF m0, w0, t0
<1>1. ReadsTo(GetLogResp_Cases, GetLogRespMsg, b, w1, t0, m1)
  <2>1. w0 \o IntField(1, m.ret) = w1
    BY <1>a DEF w0, w1, IntField
  <2>2. QED BY <1>a, <1>0, <2>1, GetLogRespClass, Int32Step DEF m1
<1>2. ReadsTo(GetLogResp_Cases, GetLogRespMsg, b, w2, t2, m2)
  BY <1>a, <1>1, GetLogRespClass, StringStep DEF w2, t2, m2
<1>3. ReadsTo(GetLogResp_Cases, GetLogRespMsg, b, w3, t2, m3)
  BY <1>a, <1>2, GetLogRespClass, Int32Step DEF w3, m3
<1>4. ReadsTo(GetLogResp_Cases, GetLogRespMsg, b, w4, t2, m4)
  BY <1>a, <1>3, GetLogRespClass, Int32Step DEF w4, m4
<1>5. ReadsTo(GetLogResp_Cases, GetLogRespMsg, b, w5, t5, m5)
  BY <1>a, <1>4, GetLogRespClass, MessagesStep DEF w5, t5, m5
<1>6. ReadsTo(GetLogResp_Cases, GetLogRespMsg, b, w5 \o m.unknown, t5, end)
  BY <1>a, <1>5, UnknownStep DEF end
<1>c. end = GetLogResp_MergeFrom(b.msg, m)
  <2>1. m0 \in GetLogRespMsg /\ m1 \in GetLogRespMsg /\ m2 \in GetLogRespMsg /\ m3 \in GetLogRespMsg
        /\ m4 \in GetLogRespMsg /\ m5 \in GetLogRespMsg /\ end \in GetLogRespMsg
    BY <1>0, <1>1, <1>2, <1>3, <1>4, <1>5, <1>6 DEF ReadsTo
  <2>2. /\ end.ret = NonZero(b.msg.ret, m.ret)
        /\ end.ret_msg = Given(b.msg.ret_msg, m.ret_msg)
        /\ end.fd = NonZero(b.msg.fd, m.fd)
        /\ end.req_begin_time = NonZero(b.msg.req_begin_time, m.req_begin_time)
        /\ end.log_text = b.msg.log_text \o m.log_text
        /\ end.unknown = b.msg.unknown \o m.unknown
    BY <2>1 DEF end, m0, m1, m2, m3, m4, m5, AllTexts, WithNumber, WithString, AllUnknown, GetLogRespMsg
  <2>3. end = [ret |-> end.ret, ret_msg |-> end.ret_msg, fd |-> end.fd,
        req_begin_time |-> end.req_begin_time, log_text |-> end.log_text, unknown |-> end.unknown]
    BY <2>1 DEF GetLogRespMsg
  <2>4. QED BY <2>2, <2>3 DEF GetLogResp_MergeFrom
<1>7. QED BY <1>b, <1>c, <1>6

\* LoginReq
LoginReq_Texts(m) ==
  {m.user_name, m.password}

\* Parsing what LoginReq wrote merges it into the message at hand.
LEMMA LoginReqParsed ==
  ASSUME NEW b \in Results(LoginReqMsg), b.ok, NEW m \in LoginReqMsg,
         Strangers(LoginReq_Cases, m.unknown)
  PROVE  ReadsTo(LoginReq_Cases, LoginReqMsg, b, LoginReq_Serialize(m), LoginReq_Texts(m),
                 LoginReq_MergeFrom(b.msg, m))
<1> DEFINE m0 == b.msg
           m1 == WithString(m0, "user_name", m.user_name)
           m2 == WithString(m1, "password", m.password)
           m3 == WithNumber(m2, "fd", m.fd)
           m4 == WithNumber(m3, "req_begin_time", m.req_begin_time)
           end == AllUnknown(m4, m.unknown)
           w0 == << >>
           t0 == {}
           w1 == StringField(1, m.user_name)
           w2 == w1 \o StringField(2, m.password)
           w3 == w2 \o IntField(3, m.fd)
           w4 == w3 \o IntField(4, m.req_begin_time)
           t1 == t0 \cup {m.user_name}
           t2 == t1 \cup {m.password}
<1>a. Class(LoginReq_Cases, LoginReqMsg) /\ m.unknown \in Seq(Token)
      /\ m.user_name \in Seq(Byte) /\ m.password \in Seq(Byte) /\ m.fd \in Int32
          /\ m.req_begin_time \in Int32
  BY LoginReqClass DEF LoginReqMsg
<1>b. LoginReq_Serialize(m) = w4 \o m.unknown /\ LoginReq_Texts(m) = t2
  BY <1>a DEF LoginReq_Serialize, LoginReq_Texts
<1> HIDE DEF end, m0, m1, m2, m3, m4, w0, w1, w2, w3, w4, t0, t1, t2
<1>0. ReadsTo(LoginReq_Cases, LoginReqMsg, b, w0, t0, m0)
  BY <1>a, NothingRead DEF m0, w0, t0
<1>1. ReadsTo(LoginReq_Cases, LoginReqMsg, b, w1, t1, m1)
  <2>1. w0 \o StringField(1, m.user_name) = w1
    BY <1>a DEF w0, w1, StringField
  <2>2. QED BY <1>a, <1>0, <2>1, LoginReqClass, StringStep DEF m1, t1
<1>2. ReadsTo(LoginReq_Cases, LoginReqMsg, b, w2, t2, m2)
  BY <1>a, <1>1, LoginReqClass, StringStep DEF w2, t2, m2
<1>3. ReadsTo(LoginReq_Cases, LoginReqMsg, b, w3, t2, m3)
  BY <1>a, <1>2, LoginReqClass, Int32Step DEF w3, m3
<1>4. ReadsTo(LoginReq_Cases, LoginReqMsg, b, w4, t2, m4)
  BY <1>a, <1>3, LoginReqClass, Int32Step DEF w4, m4
<1>5. ReadsTo(LoginReq_Cases, LoginReqMsg, b, w4 \o m.unknown, t2, end)
  BY <1>a, <1>4, UnknownStep DEF end
<1>c. end = LoginReq_MergeFrom(b.msg, m)
  <2>1. m0 \in LoginReqMsg /\ m1 \in LoginReqMsg /\ m2 \in LoginReqMsg /\ m3 \in LoginReqMsg
        /\ m4 \in LoginReqMsg /\ end \in LoginReqMsg
    BY <1>0, <1>1, <1>2, <1>3, <1>4, <1>5 DEF ReadsTo
  <2>2. /\ end.user_name = Given(b.msg.user_name, m.user_name)
        /\ end.password = Given(b.msg.password, m.password)
        /\ end.fd = NonZero(b.msg.fd, m.fd)
        /\ end.req_begin_time = NonZero(b.msg.req_begin_time, m.req_begin_time)
        /\ end.unknown = b.msg.unknown \o m.unknown
    BY <2>1 DEF end, m0, m1, m2, m3, m4, WithNumber, WithString, AllUnknown, LoginReqMsg
  <2>3. end = [user_name |-> end.user_name, password |-> end.password, fd |-> end.fd,
        req_begin_time |-> end.req_begin_time, unknown |-> end.unknown]
    BY <2>1 DEF LoginReqMsg
  <2>4. QED BY <2>2, <2>3 DEF LoginReq_MergeFrom
<1>6. QED BY <1>b, <1>c, <1>5

\* LoginResp
LoginResp_Texts(m) ==
  {m.session_id, m.ret_msg}

\* Parsing what LoginResp wrote merges it into the message at hand.
LEMMA LoginRespParsed ==
  ASSUME NEW b \in Results(LoginRespMsg), b.ok, NEW m \in LoginRespMsg,
         Strangers(LoginResp_Cases, m.unknown)
  PROVE  ReadsTo(LoginResp_Cases, LoginRespMsg, b, LoginResp_Serialize(m), LoginResp_Texts(m),
                 LoginResp_MergeFrom(b.msg, m))
<1> DEFINE m0 == b.msg
           m1 == WithString(m0, "session_id", m.session_id)
           m2 == WithNumber(m1, "fd", m.fd)
           m3 == WithNumber(m2, "req_begin_time", m.req_begin_time)
           m4 == WithNumber(m3, "ret", m.ret)
           m5 == WithString(m4, "ret_msg", m.ret_msg)
           end == AllUnknown(m5, m.unknown)
           w0 == << >>
           t0 == {}
           w1 == StringField(1, m.session_id)
           w2 == w1 \o IntField(2, m.fd)
           w3 == w2 \o IntField(3, m.req_begin_time)
           w4 == w3 \o IntField(4, m.ret)
           w5 == w4 \o StringField(5, m.ret_msg)
           t1 == t0 \cup {m.session_id}
           t5 == t1 \cup {m.ret_msg}
<1>a. Class(LoginResp_Cases, LoginRespMsg) /\ m.unknown \in Seq(Token)
      /\ m.session_id \in Seq(Byte) /\ m.fd \in Int32 /\ m.req_begin_time \in Int32 /\ m.ret \in Int32
          /\ m.ret_msg \in Seq(Byte)
  BY LoginRespClass DEF LoginRespMsg
<1>b. LoginResp_Serialize(m) = w5 \o m.unknown /\ LoginResp_Texts(m) = t5
  BY <1>a DEF LoginResp_Serialize, LoginResp_Texts
<1> HIDE DEF end, m0, m1, m2, m3, m4, m5, w0, w1, w2, w3, w4, w5, t0, t1, t5
<1>0. ReadsTo(LoginResp_Cases, LoginRespMsg, b, w0, t0, m0)
  BY <1>a, NothingRead DEF m0, w0, t0
<1>1. ReadsTo(LoginResp_Cases, LoginRespMsg, b, w1, t1, m1)
  <2>1. w0 \o StringField(1, m.session_id) = w1
    BY <1>a DEF w0, w1, StringField
  <2>2. QED BY <1>a, <1>0, <2>1, LoginRespClass, StringStep DEF m1, t1
<1>2. ReadsTo(LoginResp_Cases, LoginRespMsg, b, w2, t1, m2)
  BY <1>a, <1>1, LoginRespClass, Int32Step DEF w2, m2
<1>3. ReadsTo(LoginResp_Cases, LoginRespMsg, b, w3, t1, m3)
  BY <1>a, <1>2, LoginRespClass, Int32Step DEF w3, m3
<1>4. ReadsTo(LoginResp_Cases, LoginRespMsg, b, w4, t1, m4)
  BY <1>a, <1>3, LoginRespClass, Int32Step DEF w4, m4
<1>5. ReadsTo(LoginResp_Cases, LoginRespMsg, b, w5, t5, m5)
  BY <1>a, <1>4, LoginRespClass, StringStep DEF w5, t5, m5
<1>6. ReadsTo(LoginResp_Cases, LoginRespMsg, b, w5 \o m.unknown, t5, end)
  BY <1>a, <1>5, UnknownStep DEF end
<1>c. end = LoginResp_MergeFrom(b.msg, m)
  <2>1. m0 \in LoginRespMsg /\ m1 \in LoginRespMsg /\ m2 \in LoginRespMsg /\ m3 \in LoginRespMsg
        /\ m4 \in LoginRespMsg /\ m5 \in LoginRespMsg /\ end \in LoginRespMsg
    BY <1>0, <1>1, <1>2, <1>3, <1>4, <1>5, <1>6 DEF ReadsTo
  <2>2. /\ end.session_id = Given(b.msg.session_id, m.session_id)
        /\ end.fd = NonZero(b.msg.fd, m.fd)
        /\ end.req_begin_time = NonZero(b.msg.req_begin_time, m.req_begin_time)
        /\ end.ret = NonZero(b.msg.ret, m.ret)
        /\ end.ret_msg = Given(b.msg.ret_msg, m.ret_msg)
        /\ end.unknown = b.msg.unknown \o m.unknown
    BY <2>1 DEF end, m0, m1, m2, m3, m4, m5, WithNumber, WithString, AllUnknown, LoginRespMsg
  <2>3. end = [session_id |-> end.session_id, fd |-> end.fd, req_begin_time |-> end.req_begin_time,
        ret |-> end.ret, ret_msg |-> end.ret_msg, unknown |-> end.unknown]
    BY <2>1 DEF LoginRespMsg
  <2>4. QED BY <2>2, <2>3 DEF LoginResp_MergeFrom
<1>7. QED BY <1>b, <1>c, <1>6

\* GnsInfoReq
GnsInfoReq_Texts(m) ==
  {m.gns_name[k] : k \in 1 .. Len(m.gns_name)}
    \cup {m.ip_port[k] : k \in 1 .. Len(m.ip_port)}

\* Parsing what GnsInfoReq wrote merges it into the message at hand.
LEMMA GnsInfoReqParsed ==
  ASSUME NEW b \in Results(GnsInfoReqMsg), b.ok, NEW m \in GnsInfoReqMsg,
         Strangers(GnsInfoReq_Cases, m.unknown)
  PROVE  ReadsTo(GnsInfoReq_Cases, GnsInfoReqMsg, b, GnsInfoReq_Serialize(m), GnsInfoReq_Texts(m),
                 GnsInfoReq_MergeFrom(b.msg, m))
<1> DEFINE m0 == b.msg
           m1 == AllTexts(m0, "gns_name", m.gns_name)
           m2 == AllTexts(m1, "ip_port", m.ip_port)
           end == AllUnknown(m2, m.unknown)
           w0 == << >>
           t0 == {}
           w1 == StringFields(1, m.gns_name)
           w2 == w1 \o StringFields(2, m.ip_port)
           t1 == t0 \cup {m.gns_name[k] : k \in 1 .. Len(m.gns_name)}
           t2 == t1 \cup {m.ip_port[k] : k \in 1 .. Len(m.ip_port)}
<1>a. Class(GnsInfoReq_Cases, GnsInfoReqMsg) /\ m.unknown \in Seq(Token)
      /\ m.gns_name \in Seq(Seq(Byte)) /\ m.ip_port \in Seq(Seq(Byte))
  BY GnsInfoReqClass DEF GnsInfoReqMsg
<1>b. GnsInfoReq_Serialize(m) = w2 \o m.unknown /\ GnsInfoReq_Texts(m) = t2
  BY <1>a DEF GnsInfoReq_Serialize, GnsInfoReq_Texts
<1> HIDE DEF end, m0, m1, m2, w0, w1, w2, t0, t1, t2
<1>0. ReadsTo(GnsInfoReq_Cases, GnsInfoReqMsg, b, w0, t0, m0)
  BY <1>a, NothingRead DEF m0, w0, t0
<1>1. ReadsTo(GnsInfoReq_Cases, GnsInfoReqMsg, b, w1, t1, m1)
  <2>1. w0 \o StringFields(1, m.gns_name) = w1
    BY <1>a DEF w0, w1, StringFields
  <2>2. QED BY <1>a, <1>0, <2>1, GnsInfoReqClass, StringsStep DEF m1, t1
<1>2. ReadsTo(GnsInfoReq_Cases, GnsInfoReqMsg, b, w2, t2, m2)
  BY <1>a, <1>1, GnsInfoReqClass, StringsStep DEF w2, t2, m2
<1>3. ReadsTo(GnsInfoReq_Cases, GnsInfoReqMsg, b, w2 \o m.unknown, t2, end)
  BY <1>a, <1>2, UnknownStep DEF end
<1>c. end = GnsInfoReq_MergeFrom(b.msg, m)
  <2>1. m0 \in GnsInfoReqMsg /\ m1 \in GnsInfoReqMsg /\ m2 \in GnsInfoReqMsg /\ end \in GnsInfoReqMsg
    BY <1>0, <1>1, <1>2, <1>3 DEF ReadsTo
  <2>2. /\ end.gns_name = b.msg.gns_name \o m.gns_name
        /\ end.ip_port = b.msg.ip_port \o m.ip_port
        /\ end.unknown = b.msg.unknown \o m.unknown
    BY <2>1 DEF end, m0, m1, m2, AllTexts, AllUnknown, GnsInfoReqMsg
  <2>3. end = [gns_name |-> end.gns_name, ip_port |-> end.ip_port, unknown |-> end.unknown]
    BY <2>1 DEF GnsInfoReqMsg
  <2>4. QED BY <2>2, <2>3 DEF GnsInfoReq_MergeFrom
<1>4. QED BY <1>b, <1>c, <1>3

\* CfgInfoReq
CfgInfoReq_Texts(m) ==
  {m.session_id, m.p3, m.gns_name, m.ip_port}

\* Parsing what CfgInfoReq wrote merges it into the message at hand.
LEMMA CfgInfoReqParsed ==
  ASSUME NEW b \in Results(CfgInfoReqMsg), b.ok, NEW m \in CfgInfoReqMsg,
         Strangers(CfgInfoReq_Cases, m.unknown)
  PROVE  ReadsTo(CfgInfoReq_Cases, CfgInfoReqMsg, b, CfgInfoReq_Serialize(m), CfgInfoReq_Texts(m),
                 CfgInfoReq_MergeFrom(b.msg, m))
<1> DEFINE m0 == b.msg
           m1 == WithString(m0, "session_id", m.session_id)
           m2 == WithNumber(m1, "p1", m.p1)
           m3 == WithNumber(m2, "p2", m.p2)
           m4 == WithString(m3, "p3", m.p3)
           m5 == WithString(m4, "gns_name", m.gns_name)
           m6 == WithString(m5, "ip_port", m.ip_port)
           m7 == WithNumber(m6, "fd", m.fd)
           m8 == WithNumber(m7, "req_begin_time", m.req_begin_time)
           end == AllUnknown(m8, m.unknown)
           w0 == << >>
           t0 == {}
           w1 == StringField(1, m.session_id)
           w2 == w1 \o IntField(2, m.p1)
           w3 == w2 \o IntField(3, m.p2)
           w4 == w3 \o StringField(4, m.p3)
           w5 == w4 \o StringField(5, m.gns_name)
           w6 == w5 \o StringField(6, m.ip_port)
           w7 == w6 \o IntField(7, m.fd)
           w8 == w7 \o IntField(8, m.req_begin_time)
           t1 == t0 \cup {m.session_id}
           t4 == t1 \cup {m.p3}
           t5 == t4 \cup {m.gns_name}
           t6 == t5 \cup {m.ip_port}
<1>a. Class(CfgInfoReq_Cases, CfgInfoReqMsg) /\ m.unknown \in Seq(Token)
      /\ m.session_id \in Seq(Byte) /\ m.p1 \in Int32 /\ m.p2 \in Int64 /\ m.p3 \in Seq(Byte)
          /\ m.gns_name \in Seq(Byte) /\ m.ip_port \in Seq(Byte) /\ m.fd \in Int32
             /\ m.req_begin_time \in Int32
  BY CfgInfoReqClass DEF CfgInfoReqMsg
<1>b. CfgInfoReq_Serialize(m) = w8 \o m.unknown /\ CfgInfoReq_Texts(m) = t6
  BY <1>a DEF CfgInfoReq_Serialize, CfgInfoReq_Texts
<1> HIDE DEF end, m0, m1, m2, m3, m4, m5, m6, m7, m8, w0, w1, w2, w3, w4, w5, w6, w7, w8, t0, t1, t4,
      t5, t6
<1>0. ReadsTo(CfgInfoReq_Cases, CfgInfoReqMsg, b, w0, t0, m0)
  BY <1>a, NothingRead DEF m0, w0, t0
<1>1. ReadsTo(CfgInfoReq_Cases, CfgInfoReqMsg, b, w1, t1, m1)
  <2>1. w0 \o StringField(1, m.session_id) = w1
    BY <1>a DEF w0, w1, StringField
  <2>2. QED BY <1>a, <1>0, <2>1, CfgInfoReqClass, StringStep DEF m1, t1
<1>2. ReadsTo(CfgInfoReq_Cases, CfgInfoReqMsg, b, w2, t1, m2)
  BY <1>a, <1>1, CfgInfoReqClass, Int32Step DEF w2, m2
<1>3. ReadsTo(CfgInfoReq_Cases, CfgInfoReqMsg, b, w3, t1, m3)
  BY <1>a, <1>2, CfgInfoReqClass, Int64Step DEF w3, m3
<1>4. ReadsTo(CfgInfoReq_Cases, CfgInfoReqMsg, b, w4, t4, m4)
  BY <1>a, <1>3, CfgInfoReqClass, StringStep DEF w4, t4, m4
<1>5. ReadsTo(CfgInfoReq_Cases, CfgInfoReqMsg, b, w5, t5, m5)
  BY <1>a, <1>4, CfgInfoReqClass, StringStep DEF w5, t5, m5
<1>6. ReadsTo(CfgInfoReq_Cases, CfgInfoReqMsg, b, w6, t6, m6)
  BY <1>a, <1>5, CfgInfoReqClass, StringStep DEF w6, t6, m6
<1>7. ReadsTo(CfgInfoReq_Cases, CfgInfoReqMsg, b, w7, t6, m7)
  BY <1>a, <1>6, CfgInfoReqClass, Int32Step DEF w7, m7
<1>8. ReadsTo(CfgInfoReq_Cases, CfgInfoReqMsg, b, w8, t6, m8)
  BY <1>a, <1>7, CfgInfoReqClass, Int32Step DEF w8, m8
<1>9. ReadsTo(CfgInfoReq_Cases, CfgInfoReqMsg, b, w8 \o m.unknown, t6, end)
  BY <1>a, <1>8, UnknownStep DEF end
<1>c. end = CfgInfoReq_MergeFrom(b.msg, m)
  <2>1. m0 \in CfgInfoReqMsg /\ m1 \in CfgInfoReqMsg /\ m2 \in CfgInfoReqMsg /\ m3 \in CfgInfoReqMsg
        /\ m4 \in CfgInfoReqMsg /\ m5 \in CfgInfoReqMsg /\ m6 \in CfgInfoReqMsg /\ m7 \in CfgInfoReqMsg
           /\ m8 \in CfgInfoReqMsg /\ end \in CfgInfoReqMsg
    BY <1>0, <1>1, <1>2, <1>3, <1>4, <1>5, <1>6, <1>7, <1>8, <1>9 DEF ReadsTo
  <2>2. /\ end.session_id = Given(b.msg.session_id, m.session_id)
        /\ end.p1 = NonZero(b.msg.p1, m.p1)
        /\ end.p2 = NonZero(b.msg.p2, m.p2)
        /\ end.p3 = Given(b.msg.p3, m.p3)
        /\ end.gns_name = Given(b.msg.gns_name, m.gns_name)
        /\ end.ip_port = Given(b.msg.ip_port, m.ip_port)
        /\ end.fd = NonZero(b.msg.fd, m.fd)
        /\ end.req_begin_time = NonZero(b.msg.req_begin_time, m.req_begin_time)
        /\ end.unknown = b.msg.unknown \o m.unknown
    BY <2>1 DEF end, m0, m1, m2, m3, m4, m5, m6, m7, m8, WithNumber, WithString, AllUnknown,
        CfgInfoReqMsg
  <2>3. end = [session_id |-> end.session_id, p1 |-> end.p1, p2 |-> end.p2, p3 |-> end.p3,
        gns_name |-> end.gns_name, ip_port |-> end.ip_port, fd |-> end.fd,
        req_begin_time |-> end.req_begin_time, unknown |-> end.unknown]
    BY <2>1 DEF CfgInfoReqMsg
  <2>4. QED BY <2>2, <2>3 DEF CfgInfoReq_MergeFrom
<1>10. QED BY <1>b, <1>c, <1>9

\* CfgInfoResp
CfgInfoResp_Texts(m) ==
  {m.ret_msg}

\* Parsing what CfgInfoResp wrote merges it into the message at hand.
LEMMA CfgInfoRespParsed ==
  ASSUME NEW b \in Results(CfgInfoRespMsg), b.ok, NEW m \in CfgInfoRespMsg,
         Strangers(CfgInfoResp_Cases, m.unknown)
  PROVE  ReadsTo(CfgInfoResp_Cases, CfgInfoRespMsg, b, CfgInfoResp_Serialize(m), CfgInfoResp_Texts(m),
                 CfgInfoResp_MergeFrom(b.msg, m))
<1> DEFINE m0 == b.msg
           m1 == WithNumber(m0, "ret", m.ret)
           m2 == WithString(m1, "ret_msg", m.ret_msg)
           m3 == WithNumber(m2, "fd", m.fd)
           m4 == WithNumber(m3, "req_begin_time", m.req_begin_time)
           end == AllUnknown(m4, m.unknown)
           w0 == << >>
           t0 == {}
           w1 == IntField(1, m.ret)
           w2 == w1 \o StringField(2, m.ret_msg)
           w3 == w2 \o IntField(3, m.fd)
           w4 == w3 \o IntField(4, m.req_begin_time)
           t2 == t0 \cup {m.ret_msg}
<1>a. Class(CfgInfoResp_Cases, CfgInfoRespMsg) /\ m.unknown \in Seq(Token)
      /\ m.ret \in Int32 /\ m.ret_msg \in Seq(Byte) /\ m.fd \in Int32 /\ m.req_begin_time \in Int32
  BY CfgInfoRespClass DEF CfgInfoRespMsg
<1>b. CfgInfoResp_Serialize(m) = w4 \o m.unknown /\ CfgInfoResp_Texts(m) = t2
  BY <1>a DEF CfgInfoResp_Serialize, CfgInfoResp_Texts
<1> HIDE DEF end, m0, m1, m2, m3, m4, w0, w1, w2, w3, w4, t0, t2
<1>0. ReadsTo(CfgInfoResp_Cases, CfgInfoRespMsg, b, w0, t0, m0)
  BY <1>a, NothingRead DEF m0, w0, t0
<1>1. ReadsTo(CfgInfoResp_Cases, CfgInfoRespMsg, b, w1, t0, m1)
  <2>1. w0 \o IntField(1, m.ret) = w1
    BY <1>a DEF w0, w1, IntField
  <2>2. QED BY <1>a, <1>0, <2>1, CfgInfoRespClass, Int32Step DEF m1
<1>2. ReadsTo(CfgInfoResp_Cases, CfgInfoRespMsg, b, w2, t2, m2)
  BY <1>a, <1>1, CfgInfoRespClass, StringStep DEF w2, t2, m2
<1>3. ReadsTo(CfgInfoResp_Cases, CfgInfoRespMsg, b, w3, t2, m3)
  BY <1>a, <1>2, CfgInfoRespClass, Int32Step DEF w3, m3
<1>4. ReadsTo(CfgInfoResp_Cases, CfgInfoRespMsg, b, w4, t2, m4)
  BY <1>a, <1>3, CfgInfoRespClass, Int32Step DEF w4, m4
<1>5. ReadsTo(CfgInfoResp_Cases, CfgInfoRespMsg, b, w4 \o m.unknown, t2, end)
  BY <1>a, <1>4, UnknownStep DEF end
<1>c. end = CfgInfoResp_MergeFrom(b.msg, m)
  <2>1. m0 \in CfgInfoRespMsg /\ m1 \in CfgInfoRespMsg /\ m2 \in CfgInfoRespMsg /\ m3 \in CfgInfoRespMsg
        /\ m4 \in CfgInfoRespMsg /\ end \in CfgInfoRespMsg
    BY <1>0, <1>1, <1>2, <1>3, <1>4, <1>5 DEF ReadsTo
  <2>2. /\ end.ret = NonZero(b.msg.ret, m.ret)
        /\ end.ret_msg = Given(b.msg.ret_msg, m.ret_msg)
        /\ end.fd = NonZero(b.msg.fd, m.fd)
        /\ end.req_begin_time = NonZero(b.msg.req_begin_time, m.req_begin_time)
        /\ end.unknown = b.msg.unknown \o m.unknown
    BY <2>1 DEF end, m0, m1, m2, m3, m4, WithNumber, WithString, AllUnknown, CfgInfoRespMsg
  <2>3. end = [ret |-> end.ret, ret_msg |-> end.ret_msg, fd |-> end.fd,
        req_begin_time |-> end.req_begin_time, unknown |-> end.unknown]
    BY <2>1 DEF CfgInfoRespMsg
  <2>4. QED BY <2>2, <2>3 DEF CfgInfoResp_MergeFrom
<1>6. QED BY <1>b, <1>c, <1>5

\* LogInfo
LogInfo_Texts(m) ==
  {m.gns_name, m.ip_port, m.session_id, m.log_text}

\* Parsing what LogInfo wrote merges it into the message at hand.
LEMMA LogInfoParsed ==
  ASSUME NEW b \in Results(LogInfoMsg), b.ok, NEW m \in LogInfoMsg, Strangers(LogInfo_Cases, m.unknown)
  PROVE  ReadsTo(LogInfo_Cases, LogInfoMsg, b, LogInfo_Serialize(m), LogInfo_Texts(m),
                 LogInfo_MergeFrom(b.msg, m))
<1> DEFINE m0 == b.msg
           m1 == WithString(m0, "gns_name", m.gns_name)
           m2 == WithString(m1, "ip_port", m.ip_port)
           m3 == WithString(m2, "session_id", m.session_id)
           m4 == WithString(m3, "log_text", m.log_text)
           end == AllUnknown(m4, m.unknown)
           w0 == << >>
           t0 == {}
           w1 == StringField(1, m.gns_name)
           w2 == w1 \o StringField(2, m.ip_port)
           w3 == w2 \o StringField(3, m.session_id)
           w4 == w3 \o StringField(4, m.log_text)
           t1 == t0 \cup {m.gns_name}
           t2 == t1 \cup {m.ip_port}
           t3 == t2 \cup {m.session_id}
           t4 == t3 \cup {m.log_text}
<1>a. Class(LogInfo_Cases, LogInfoMsg) /\ m.unknown \in Seq(Token)
      /\ m.gns_name \in Seq(Byte) /\ m.ip_port \in Seq(Byte) /\ m.session_id \in Seq(Byte)
          /\ m.log_text \in Seq(Byte)
  BY LogInfoClass DEF LogInfoMsg
<1>b. LogInfo_Serialize(m) = w4 \o m.unknown /\ LogInfo_Texts(m) = t4
  BY <1>a DEF LogInfo_Serialize, LogInfo_Texts
<1> HIDE DEF end, m0, m1, m2, m3, m4, w0, w1, w2, w3, w4, t0, t1, t2, t3, t4
<1>0. ReadsTo(LogInfo_Cases, LogInfoMsg, b, w0, t0, m0)
  BY <1>a, NothingRead DEF m0, w0, t0
<1>1. ReadsTo(LogInfo_Cases, LogInfoMsg, b, w1, t1, m1)
  <2>1. w0 \o StringField(1, m.gns_name) = w1
    BY <1>a DEF w0, w1, StringField
  <2>2. QED BY <1>a, <1>0, <2>1, LogInfoClass, StringStep DEF m1, t1
<1>2. ReadsTo(LogInfo_Cases, LogInfoMsg, b, w2, t2, m2)
  BY <1>a, <1>1, LogInfoClass, StringStep DEF w2, t2, m2
<1>3. ReadsTo(LogInfo_Cases, LogInfoMsg, b, w3, t3, m3)
  BY <1>a, <1>2, LogInfoClass, StringStep DEF w3, t3, m3
<1>4. ReadsTo(LogInfo_Cases, LogInfoMsg, b, w4, t4, m4)
  BY <1>a, <1>3, LogInfoClass, StringStep DEF w4, t4, m4
<1>5. ReadsTo(LogInfo_Cases, LogInfoMsg, b, w4 \o m.unknown, t4, end)
  BY <1>a, <1>4, UnknownStep DEF end
<1>c. end = LogInfo_MergeFrom(b.msg, m)
  <2>1. m0 \in LogInfoMsg /\ m1 \in LogInfoMsg /\ m2 \in LogInfoMsg /\ m3 \in LogInfoMsg
        /\ m4 \in LogInfoMsg /\ end \in LogInfoMsg
    BY <1>0, <1>1, <1>2, <1>3, <1>4, <1>5 DEF ReadsTo
  <2>2. /\ end.gns_name = Given(b.msg.gns_name, m.gns_name)
        /\ end.ip_port = Given(b.msg.ip_port, m.ip_port)
        /\ end.session_id = Given(b.msg.session_id, m.session_id)
        /\ end.log_text = Given(b.msg.log_text, m.log_text)
        /\ end.unknown = b.msg.unknown \o m.unknown
    BY <2>1 DEF end, m0, m1, m2, m3, m4, WithString, AllUnknown, LogInfoMsg
  <2>3. end = [gns_name |-> end.gns_name, ip_port |-> end.ip_port, session_id |-> end.session_id,
        log_text |-> end.log_text, unknown |-> end.unknown]
    BY <2>1 DEF LogInfoMsg
  <2>4. QED BY <2>2, <2>3 DEF LogInfo_MergeFrom
<1>6. QED BY <1>b, <1>c, <1>5

\* GetLogReq
GetLogReq_Texts(m) ==
  {m.session_id, m.gns_name, m.ip_port}

\* Parsing what GetLogReq wrote merges it into the message at hand.
LEMMA GetLogReqParsed ==
  ASSUME NEW b \in Results(GetLogReqMsg), b.ok, NEW m \in GetLogReqMsg,
         Strangers(GetLogReq_Cases, m.unknown)
  PROVE  ReadsTo(GetLogReq_Cases, GetLogReqMsg, b, GetLogReq_Serialize(m), GetLogReq_Texts(m),
                 GetLogReq_MergeFrom(b.msg, m))
<1> DEFINE m0 == b.msg
           m1 == WithString(m0, "session_id", m.session_id)
           m2 == WithString(m1, "gns_name", m.gns_name)
           m3 == WithString(m2, "ip_port", m.ip_port)
           m4 == WithNumber(m3, "seq", m.seq)
           m5 == WithNumber(m4, "fd", m.fd)
           m6 == WithNumber(m5, "req_begin_time", m.req_begin_time)
           end == AllUnknown(m6, m.unknown)
           w0 == << >>
           t0 == {}
           w1 == StringField(1, m.session_id)
           w2 == w1 \o StringField(2, m.gns_name)
           w3 == w2 \o StringField(3, m.ip_port)
           w4 == w3 \o IntField(4, m.seq)
           w5 == w4 \o IntField(5, m.fd)
           w6 == w5 \o IntField(6, m.req_begin_time)
           t1 == t0 \cup {m.session_id}
           t2 == t1 \cup {m.gns_name}
           t3 == t2 \cup {m.ip_port}
<1>a. Class(GetLogReq_Cases, GetLogReqMsg) /\ m.unknown \in Seq(Token)
      /\ m.session_id \in Seq(Byte) /\ m.gns_name \in Seq(Byte) /\ m.ip_port \in Seq(Byte)
          /\ m.seq \in Int32 /\ m.fd \in Int32 /\ m.req_begin_time \in Int32
  BY GetLogReqClass DEF GetLogReqMsg
<1>b. GetLogReq_Serialize(m) = w6 \o m.unknown /\ GetLogReq_Texts(m) = t3
  BY <1>a DEF GetLogReq_Serialize, GetLogReq_Texts
<1> HIDE DEF end, m0, m1, m2, m3, m4, m5, m6, w0, w1, w2, w3, w4, w5, w6, t0, t1, t2, t3
<1>0. ReadsTo(GetLogReq_Cases, GetLogReqMsg, b, w0, t0, m0)
  BY <1>a, NothingRead DEF m0, w0, t0
<1>1. ReadsTo(GetLogReq_Cases, GetLogReqMsg, b, w1, t1, m1)
  <2>1. w0 \o StringField(1, m.session_id) = w1
    BY <1>a DEF w0, w1, StringField
  <2>2. QED BY <1>a, <1>0, <2>1, GetLogReqClass, StringStep DEF m1, t1
<1>2. ReadsTo(GetLogReq_Cases, GetLogReqMsg, b, w2, t2, m2)
  BY <1>a, <1>1, GetLogReqClass, StringStep DEF w2, t2, m2
<1>3. ReadsTo(GetLogReq_Cases, GetLogReqMsg, b, w3, t3, m3)
  BY <1>a, <1>2, GetLogReqClass, StringStep DEF w3, t3, m3
<1>4. ReadsTo(GetLogReq_Cases, GetLogReqMsg, b, w4, t3, m4)
  BY <1>a, <1>3, GetLogReqClass, Int32Step DEF w4, m4
<1>5. ReadsTo(GetLogReq_Cases, GetLogReqMsg, b, w5, t3, m5)
  BY <1>a, <1>4, GetLogReqClass, Int32Step DEF w5, m5
<1>6. ReadsTo(GetLogReq_Cases, GetLogReqMsg, b, w6, t3, m6)
  BY <1>a, <1>5, GetLogReqClass, Int32Step DEF w6, m6
<1>7. ReadsTo(GetLogReq_Cases, GetLogReqMsg, b, w6 \o m.unknown, t3, end)
  BY <1>a, <1>6, UnknownStep DEF end
<1>c. end = GetLogReq_MergeFrom(b.msg, m)
  <2>1. m0 \in GetLogReqMsg /\ m1 \in GetLogReqMsg /\ m2 \in GetLogReqMsg /\ m3 \in GetLogReqMsg
        /\ m4 \in GetLogReqMsg /\ m5 \in GetLogReqMsg /\ m6 \in GetLogReqMsg /\ end \in GetLogReqMsg
    BY <1>0, <1>1, <1>2, <1>3, <1>4, <1>5, <1>6, <1>7 DEF ReadsTo
  <2>2. /\ end.session_id = Given(b.msg.session_id, m.session_id)
        /\ end.gns_name = Given(b.msg.gns_name, m.gns_name)
        /\ end.ip_port = Given(b.msg.ip_port, m.ip_port)
        /\ end.seq = NonZero(b.msg.seq, m.seq)
        /\ end.fd = NonZero(b.msg.fd, m.fd)
        /\ end.req_begin_time = NonZero(b.msg.req_begin_time, m.req_begin_time)
        /\ end.unknown = b.msg.unknown \o m.unknown
    BY <2>1 DEF end, m0, m1, m2, m3, m4, m5, m6, WithNumber, WithString, AllUnknown, GetLogReqMsg
  <2>3. end = [session_id |-> end.session_id, gns_name |-> end.gns_name, ip_port |-> end.ip_port,
        seq |-> end.seq, fd |-> end.fd, req_begin_time |-> end.req_begin_time, unknown |-> end.unknown]
    BY <2>1 DEF GetLogReqMsg
  <2>4. QED BY <2>2, <2>3 DEF GetLogReq_MergeFrom
<1>8. QED BY <1>b, <1>c, <1>7

\* GetLogRespOld
GetLogRespOld_Texts(m) ==
  {m.ret_msg, m.log_text}

\* Parsing what GetLogRespOld wrote merges it into the message at hand.
LEMMA GetLogRespOldParsed ==
  ASSUME NEW b \in Results(GetLogRespOldMsg), b.ok, NEW m \in GetLogRespOldMsg,
         Strangers(GetLogRespOld_Cases, m.unknown)
  PROVE  ReadsTo(GetLogRespOld_Cases, GetLogRespOldMsg, b, GetLogRespOld_Serialize(m),
         GetLogRespOld_Texts(m),
                 GetLogRespOld_MergeFrom(b.msg, m))
<1> DEFINE m0 == b.msg
           m1 == WithNumber(m0, "ret", m.ret)
           m2 == WithString(m1, "ret_msg", m.ret_msg)
           m3 == WithString(m2, "log_text", m.log_text)
           m4 == WithNumber(m3, "cur_len", m.cur_len)
           m5 == WithNumber(m4, "fd", m.fd)
           m6 == WithNumber(m5, "req_begin_time", m.req_begin_time)
           end == AllUnknown(m6, m.unknown)
           w0 == << >>
           t0 == {}
           w1 == IntField(1, m.ret)
           w2 == w1 \o StringField(2, m.ret_msg)
           w3 == w2 \o StringField(3, m.log_text)
           w4 == w3 \o IntField(4, m.cur_len)
           w5 == w4 \o IntField(5, m.fd)
           w6 == w5 \o IntField(6, m.req_begin_time)
           t2 == t0 \cup {m.ret_msg}
           t3 == t2 \cup {m.log_text}
<1>a. Class(GetLogRespOld_Cases, GetLogRespOldMsg) /\ m.unknown \in Seq(Token)
      /\ m.ret \in Int32 /\ m.ret_msg \in Seq(Byte) /\ m.log_text \in Seq(Byte) /\ m.cur_len \in Int32
          /\ m.fd \in Int32 /\ m.req_begin_time \in Int32
  BY GetLogRespOldClass DEF GetLogRespOldMsg
<1>b. GetLogRespOld_Serialize(m) = w6 \o m.unknown /\ GetLogRespOld_Texts(m) = t3
  BY <1>a DEF GetLogRespOld_Serialize, GetLogRespOld_Texts
<1> HIDE DEF end, m0, m1, m2, m3, m4, m5, m6, w0, w1, w2, w3, w4, w5, w6, t0, t2, t3
<1>0. ReadsTo(GetLogRespOld_Cases, GetLogRespOldMsg, b, w0, t0, m0)
  BY <1>a, NothingRead DEF m0, w0, t0
<1>1. ReadsTo(GetLogRespOld_Cases, GetLogRespOldMsg, b, w1, t0, m1)
  <2>1. w0 \o IntField(1, m.ret) = w1
    BY <1>a DEF w0, w1, IntField
  <2>2. QED BY <1>a, <1>0, <2>1, GetLogRespOldClass, Int32Step DEF m1
<1>2. ReadsTo(GetLogRespOld_Cases, GetLogRespOldMsg, b, w2, t2, m2)
  BY <1>a, <1>1, GetLogRespOldClass, StringStep DEF w2, t2, m2
<1>3. ReadsTo(GetLogRespOld_Cases, GetLogRespOldMsg, b, w3, t3, m3)
  BY <1>a, <1>2, GetLogRespOldClass, StringStep DEF w3, t3, m3
<1>4. ReadsTo(GetLogRespOld_Cases, GetLogRespOldMsg, b, w4, t3, m4)
  BY <1>a, <1>3, GetLogRespOldClass, Int32Step DEF w4, m4
<1>5. ReadsTo(GetLogRespOld_Cases, GetLogRespOldMsg, b, w5, t3, m5)
  BY <1>a, <1>4, GetLogRespOldClass, Int32Step DEF w5, m5
<1>6. ReadsTo(GetLogRespOld_Cases, GetLogRespOldMsg, b, w6, t3, m6)
  BY <1>a, <1>5, GetLogRespOldClass, Int32Step DEF w6, m6
<1>7. ReadsTo(GetLogRespOld_Cases, GetLogRespOldMsg, b, w6 \o m.unknown, t3, end)
  BY <1>a, <1>6, UnknownStep DEF end
<1>c. end = GetLogRespOld_MergeFrom(b.msg, m)
  <2>1. m0 \in GetLogRespOldMsg /\ m1 \in GetLogRespOldMsg /\ m2 \in GetLogRespOldMsg
        /\ m3 \in GetLogRespOldMsg /\ m4 \in GetLogRespOldMsg /\ m5 \in GetLogRespOldMsg
           /\ m6 \in GetLogRespOldMsg /\ end \in GetLogRespOldMsg
    BY <1>0, <1>1, <1>2, <1>3, <1>4, <1>5, <1>6, <1>7 DEF ReadsTo
  <2>2. /\ end.ret = NonZero(b.msg.ret, m.ret)
        /\ end.ret_msg = Given(b.msg.ret_msg, m.ret_msg)
        /\ end.log_text = Given(b.msg.log_text, m.log_text)
        /\ end.cur_len = NonZero(b.msg.cur_len, m.cur_len)
        /\ end.fd = NonZero(b.msg.fd, m.fd)
        /\ end.req_begin_time = NonZero(b.msg.req_begin_time, m.req_begin_time)
        /\ end.unknown = b.msg.unknown \o m.unknown
    BY <2>1 DEF end, m0, m1, m2, m3, m4, m5, m6, WithNumber, WithString, AllUnknown, GetLogRespOldMsg
  <2>3. end = [ret |-> end.ret, ret_msg |-> end.ret_msg, log_text |-> end.log_text,
        cur_len |-> end.cur_len, fd |-> end.fd, req_begin_time |-> end.req_begin_time,
        unknown |-> end.unknown]
    BY <2>1 DEF GetLogRespOldMsg
  <2>4. QED BY <2>2, <2>3 DEF GetLogRespOld_MergeFrom
<1>8. QED BY <1>b, <1>c, <1>7

\* HeartBeatMsg
HeartBeatMsg_Texts(m) ==
  {m.reserve}

\* Parsing what HeartBeatMsg wrote merges it into the message at hand.
LEMMA HeartBeatMsgParsed ==
  ASSUME NEW b \in Results(HeartBeatMsgMsg), b.ok, NEW m \in HeartBeatMsgMsg,
         Strangers(HeartBeatMsg_Cases, m.unknown)
  PROVE  ReadsTo(HeartBeatMsg_Cases, HeartBeatMsgMsg, b, HeartBeatMsg_Serialize(m),
         HeartBeatMsg_Texts(m),
                 HeartBeatMsg_MergeFrom(b.msg, m))
<1> DEFINE m0 == b.msg
           m1 == WithString(m0, "reserve", m.reserve)
           end == AllUnknown(m1, m.unknown)
           w0 == << >>
           t0 == {}
           w1 == StringField(1, m.reserve)
           t1 == t0 \cup {m.reserve}
<1>a. Class(HeartBeatMsg_Cases, HeartBeatMsgMsg) /\ m.unknown \in Seq(Token)
      /\ m.reserve \in Seq(Byte)
  BY HeartBeatMsgClass DEF HeartBeatMsgMsg
<1>b. HeartBeatMsg_Serialize(m) = w1 \o m.unknown /\ HeartBeatMsg_Texts(m) = t1
  BY <1>a DEF HeartBeatMsg_Serialize, HeartBeatMsg_Texts
<1> HIDE DEF end, m0, m1, w0, w1, t0, t1
<1>0. ReadsTo(HeartBeatMsg_Cases, HeartBeatMsgMsg, b, w0, t0, m0)
  BY <1>a, NothingRead DEF m0, w0, t0
<1>1. ReadsTo(HeartBeatMsg_Cases, HeartBeatMsgMsg, b, w1, t1, m1)
  <2>1. w0 \o StringField(1, m.reserve) = w1
    BY <1>a DEF w0, w1, StringField
  <2>2. QED BY <1>a, <1>0, <2>1, HeartBeatMsgClass, StringStep DEF m1, t1
<1>2. ReadsTo(HeartBeatMsg_Cases, HeartBeatMsgMsg, b, w1 \o m.unknown, t1, end)
  BY <1>a, <1>1, UnknownStep DEF end
<1>c. end = HeartBeatMsg_MergeFrom(b.msg, m)
  <2>1. m0 \in HeartBeatMsgMsg /\ m1 \in HeartBeatMsgMsg /\ end \in HeartBeatMsgMsg
    BY <1>0, <1>1, <1>2 DEF ReadsTo
  <2>2. /\ end.reserve = Given(b.msg.reserve, m.reserve)
        /\ end.unknown = b.msg.unknown \o m.unknown
    BY <2>1 DEF end, m0, m1, WithString, AllUnknown, HeartBeatMsgMsg
  <2>3. end = [reserve |-> end.reserve, unknown |-> end.unknown]
    BY <2>1 DEF HeartBeatMsgMsg
  <2>4. QED BY <2>2, <2>3 DEF HeartBeatMsg_MergeFrom
<1>3. QED BY <1>b, <1>c, <1>2

\* ClearSessionReq
ClearSessionReq_Texts(m) ==
  {m.session_id}

\* Parsing what ClearSessionReq wrote merges it into the message at hand.
LEMMA ClearSessionReqParsed ==
  ASSUME NEW b \in Results(ClearSessionReqMsg), b.ok, NEW m \in ClearSessionReqMsg,
         Strangers(ClearSessionReq_Cases, m.unknown)
  PROVE  ReadsTo(ClearSessionReq_Cases, ClearSessionReqMsg, b, ClearSessionReq_Serialize(m),
         ClearSessionReq_Texts(m),
                 ClearSessionReq_MergeFrom(b.msg, m))
<1> DEFINE m0 == b.msg
           m1 == WithString(m0, "session_id", m.session_id)
           end == AllUnknown(m1, m.unknown)
           w0 == << >>
           t0 == {}
           w1 == StringField(1, m.session_id)
           t1 == t0 \cup {m.session_id}
<1>a. Class(ClearSessionReq_Cases, ClearSessionReqMsg) /\ m.unknown \in Seq(Token)
      /\ m.session_id \in Seq(Byte)
  BY ClearSessionReqClass DEF ClearSessionReqMsg
<1>b. ClearSessionReq_Serialize(m) = w1 \o m.unknown /\ ClearSessionReq_Texts(m) = t1
  BY <1>a DEF ClearSessionReq_Serialize, ClearSessionReq_Texts
<1> HIDE DEF end, m0, m1, w0, w1, t0, t1
<1>0. ReadsTo(ClearSessionReq_Cases, ClearSessionReqMsg, b, w0, t0, m0)
  BY <1>a, NothingRead DEF m0, w0, t0
<1>1. ReadsTo(ClearSessionReq_Cases, ClearSessionReqMsg, b, w1, t1, m1)
  <2>1. w0 \o StringField(1, m.session_id) = w1
    BY <1>a DEF w0, w1, StringField
  <2>2. QED BY <1>a, <1>0, <2>1, ClearSessionReqClass, StringStep DEF m1, t1
<1>2. ReadsTo(ClearSessionReq_Cases, ClearSessionReqMsg, b, w1 \o m.unknown, t1, end)
  BY <1>a, <1>1, UnknownStep DEF end
<1>c. end = ClearSessionReq_MergeFrom(b.msg, m)
  <2>1. m0 \in ClearSessionReqMsg /\ m1 \in ClearSessionReqMsg /\ end \in ClearSessionReqMsg
    BY <1>0, <1>1, <1>2 DEF ReadsTo
  <2>2. /\ end.session_id = Given(b.msg.session_id, m.session_id)
        /\ end.unknown = b.msg.unknown \o m.unknown
    BY <2>1 DEF end, m0, m1, WithString, AllUnknown, ClearSessionReqMsg
  <2>3. end = [session_id |-> end.session_id, unknown |-> end.unknown]
    BY <2>1 DEF ClearSessionReqMsg
  <2>4. QED BY <2>2, <2>3 DEF ClearSessionReq_MergeFrom
<1>3. QED BY <1>b, <1>c, <1>2

----------------------------------------------------------------------------
(* The routines of all classes *)

\* The unknown fields of m, and of the messages in it, are of none that its
\* class knows.  Parsing leaves such messages, and a program has no others.
Clean(name, m) ==
  /\ Strangers(PyFields(name), m.unknown)
  /\ name = "GetLogResp" =>
       \A k \in 1 .. Len(m.log_text) : Strangers(LogText_Cases, m.log_text[k].unknown)

TextsOf(name, m) ==
  CASE name = "LoginReq" -> LoginReq_Texts(m)
    [] name = "LoginResp" -> LoginResp_Texts(m)
    [] name = "GnsInfoReq" -> GnsInfoReq_Texts(m)
    [] name = "CfgInfoReq" -> CfgInfoReq_Texts(m)
    [] name = "CfgInfoResp" -> CfgInfoResp_Texts(m)
    [] name = "LogInfo" -> LogInfo_Texts(m)
    [] name = "GetLogReq" -> GetLogReq_Texts(m)
    [] name = "GetLogRespOld" -> GetLogRespOld_Texts(m)
    [] name = "LogText" -> LogText_Texts(m)
    [] name = "GetLogResp" -> GetLogResp_Texts(m)
    [] name = "HeartBeatMsg" -> HeartBeatMsg_Texts(m)
    [] name = "ClearSessionReq" -> ClearSessionReq_Texts(m)

\* What a class has to say about its messages.
Codec(name) ==
  /\ Class(PyFields(name), MsgOf(name)) /\ Empty(name) \in MsgOf(name)
  /\ \A w : Parse(name, w) = ParseFrom(Empty(name), PyFields(name), w)
  /\ \A m \in MsgOf(name) :
       /\ MergeFrom(name, Empty(name), m) = m
       /\ Valid(name, m) <=> \A text \in TextsOf(name, m) : Utf8(text)
       /\ \A b \in Results(MsgOf(name)) :
            b.ok /\ Clean(name, m) =>
              ReadsTo(PyFields(name), MsgOf(name), b, Serialize(name, m),
                      TextsOf(name, m), MergeFrom(name, b.msg, m))

\* The five routines of LoginReq are those of its name.
LEMMA LoginReqCodec == Codec("LoginReq")
<1> DEFINE name == "LoginReq"
<1>1. PyFields(name) = LoginReq_Cases /\ MsgOf(name) = LoginReqMsg /\ Empty(name) = EmptyLoginReq
  <2>1. PyFields(name) = PyLoginReq
    BY DEF PyFields
  <2>2. PyLoginReq = LoginReq_Cases
    BY DEF PyLoginReq, LoginReq_Cases
  <2>3. QED BY <2>1, <2>2 DEF MsgOf, Empty
<1>2. \A w : Parse(name, w) = ParseFrom(Empty(name), PyFields(name), w)
  <2>1. \A w : Parse(name, w) = LoginReq_Parse(w)
    BY DEF Parse
  <2>2. QED BY <1>1, <2>1 DEF LoginReq_Parse
<1>3. Class(PyFields(name), MsgOf(name)) /\ Empty(name) \in MsgOf(name)
  <2>1. EmptyLoginReq \in LoginReqMsg
    BY NumbersBack DEF EmptyLoginReq, LoginReqMsg
  <2>2. QED BY <1>1, <2>1, LoginReqClass
<1>4. ASSUME NEW m \in MsgOf(name)
      PROVE  MergeFrom(name, Empty(name), m) = m
  <2>1. m \in LoginReqMsg
    BY <1>1
  <2>2. m = [user_name |-> m.user_name, password |-> m.password, fd |-> m.fd,
        req_begin_time |-> m.req_begin_time, unknown |-> m.unknown]
    BY <2>1 DEF LoginReqMsg
  <2>3. << >> \o m.unknown = m.unknown
    BY <2>1 DEF LoginReqMsg
  <2>4. MergeFrom(name, Empty(name), m) = LoginReq_MergeFrom(EmptyLoginReq, m)
    BY <1>1 DEF MergeFrom
  <2>5. QED BY <2>2, <2>3, <2>4 DEF LoginReq_MergeFrom, EmptyLoginReq, Given, NonZero
<1>5. ASSUME NEW m \in MsgOf(name)
      PROVE  Valid(name, m) <=> \A text \in TextsOf(name, m) : Utf8(text)
  <2> DEFINE In(num) == TextsIn(LoginReq_Cases[num].type, m[LoginReq_Cases[num].name])
  <2>1. m \in LoginReqMsg /\ TextsOf(name, m) = LoginReq_Texts(m)
    BY <1>1 DEF TextsOf
  <2>f1. In(1) = {m.user_name}
    BY LoginReqClass DEF TextsIn, Field
  <2>f2. In(2) = {m.password}
    BY LoginReqClass DEF TextsIn, Field
  <2>f3. In(3) = {}
    BY LoginReqClass DEF TextsIn, Field
  <2>f4. In(4) = {}
    BY LoginReqClass DEF TextsIn, Field
  <2>2. LoginReq_Texts(m) = UNION {In(num) : num \in DOMAIN LoginReq_Cases}
    <3>1. DOMAIN LoginReq_Cases = {1, 2, 3, 4}
      BY LoginReqClass
    <3> HIDE DEF In
    <3>2. QED BY <3>1, <2>f1, <2>f2, <2>f3, <2>f4 DEF LoginReq_Texts
  <2>3. Valid(name, m) <=> \A num \in DOMAIN LoginReq_Cases : \A text \in In(num) : Utf8(text)
    BY <1>1 DEF Valid
  <2> HIDE DEF In
  <2>4. QED BY <2>1, <2>2, <2>3
<1>6. ASSUME NEW m \in MsgOf(name), NEW b \in Results(MsgOf(name)), b.ok, Clean(name, m)
      PROVE  ReadsTo(PyFields(name), MsgOf(name), b, Serialize(name, m),
                     TextsOf(name, m), MergeFrom(name, b.msg, m))
  <2>1. /\ Serialize(name, m) = LoginReq_Serialize(m) /\ TextsOf(name, m) = LoginReq_Texts(m)
        /\ MergeFrom(name, b.msg, m) = LoginReq_MergeFrom(b.msg, m)
    BY DEF Serialize, TextsOf, MergeFrom
  <2>2. QED BY <1>1, <1>6, <2>1, LoginReqParsed DEF Clean
<1> HIDE DEF name
<1>7. Codec(name)
  BY <1>2, <1>3, <1>4, <1>5, <1>6 DEF Codec
<1>8. QED BY <1>7 DEF name

\* The five routines of LoginResp are those of its name.
LEMMA LoginRespCodec == Codec("LoginResp")
<1> DEFINE name == "LoginResp"
<1>1. PyFields(name) = LoginResp_Cases /\ MsgOf(name) = LoginRespMsg /\ Empty(name) = EmptyLoginResp
  <2>1. PyFields(name) = PyLoginResp
    BY DEF PyFields
  <2>2. PyLoginResp = LoginResp_Cases
    BY DEF PyLoginResp, LoginResp_Cases
  <2>3. QED BY <2>1, <2>2 DEF MsgOf, Empty
<1>2. \A w : Parse(name, w) = ParseFrom(Empty(name), PyFields(name), w)
  <2>1. \A w : Parse(name, w) = LoginResp_Parse(w)
    BY DEF Parse
  <2>2. QED BY <1>1, <2>1 DEF LoginResp_Parse
<1>3. Class(PyFields(name), MsgOf(name)) /\ Empty(name) \in MsgOf(name)
  <2>1. EmptyLoginResp \in LoginRespMsg
    BY NumbersBack DEF EmptyLoginResp, LoginRespMsg
  <2>2. QED BY <1>1, <2>1, LoginRespClass
<1>4. ASSUME NEW m \in MsgOf(name)
      PROVE  MergeFrom(name, Empty(name), m) = m
  <2>1. m \in LoginRespMsg
    BY <1>1
  <2>2. m = [session_id |-> m.session_id, fd |-> m.fd, req_begin_time |-> m.req_begin_time,
        ret |-> m.ret, ret_msg |-> m.ret_msg, unknown |-> m.unknown]
    BY <2>1 DEF LoginRespMsg
  <2>3. << >> \o m.unknown = m.unknown
    BY <2>1 DEF LoginRespMsg
  <2>4. MergeFrom(name, Empty(name), m) = LoginResp_MergeFrom(EmptyLoginResp, m)
    BY <1>1 DEF MergeFrom
  <2>5. QED BY <2>2, <2>3, <2>4 DEF LoginResp_MergeFrom, EmptyLoginResp, Given, NonZero
<1>5. ASSUME NEW m \in MsgOf(name)
      PROVE  Valid(name, m) <=> \A text \in TextsOf(name, m) : Utf8(text)
  <2> DEFINE In(num) == TextsIn(LoginResp_Cases[num].type, m[LoginResp_Cases[num].name])
  <2>1. m \in LoginRespMsg /\ TextsOf(name, m) = LoginResp_Texts(m)
    BY <1>1 DEF TextsOf
  <2>f1. In(1) = {m.session_id}
    BY LoginRespClass DEF TextsIn, Field
  <2>f2. In(2) = {}
    BY LoginRespClass DEF TextsIn, Field
  <2>f3. In(3) = {}
    BY LoginRespClass DEF TextsIn, Field
  <2>f4. In(4) = {}
    BY LoginRespClass DEF TextsIn, Field
  <2>f5. In(5) = {m.ret_msg}
    BY LoginRespClass DEF TextsIn, Field
  <2>2. LoginResp_Texts(m) = UNION {In(num) : num \in DOMAIN LoginResp_Cases}
    <3>1. DOMAIN LoginResp_Cases = {1, 2, 3, 4, 5}
      BY LoginRespClass
    <3> HIDE DEF In
    <3>2. QED BY <3>1, <2>f1, <2>f2, <2>f3, <2>f4, <2>f5 DEF LoginResp_Texts
  <2>3. Valid(name, m) <=> \A num \in DOMAIN LoginResp_Cases : \A text \in In(num) : Utf8(text)
    BY <1>1 DEF Valid
  <2> HIDE DEF In
  <2>4. QED BY <2>1, <2>2, <2>3
<1>6. ASSUME NEW m \in MsgOf(name), NEW b \in Results(MsgOf(name)), b.ok, Clean(name, m)
      PROVE  ReadsTo(PyFields(name), MsgOf(name), b, Serialize(name, m),
                     TextsOf(name, m), MergeFrom(name, b.msg, m))
  <2>1. /\ Serialize(name, m) = LoginResp_Serialize(m) /\ TextsOf(name, m) = LoginResp_Texts(m)
        /\ MergeFrom(name, b.msg, m) = LoginResp_MergeFrom(b.msg, m)
    BY DEF Serialize, TextsOf, MergeFrom
  <2>2. QED BY <1>1, <1>6, <2>1, LoginRespParsed DEF Clean
<1> HIDE DEF name
<1>7. Codec(name)
  BY <1>2, <1>3, <1>4, <1>5, <1>6 DEF Codec
<1>8. QED BY <1>7 DEF name

\* The five routines of GnsInfoReq are those of its name.
LEMMA GnsInfoReqCodec == Codec("GnsInfoReq")
<1> DEFINE name == "GnsInfoReq"
<1>1. PyFields(name) = GnsInfoReq_Cases /\ MsgOf(name) = GnsInfoReqMsg /\ Empty(name) = EmptyGnsInfoReq
  <2>1. PyFields(name) = PyGnsInfoReq
    BY DEF PyFields
  <2>2. PyGnsInfoReq = GnsInfoReq_Cases
    BY DEF PyGnsInfoReq, GnsInfoReq_Cases
  <2>3. QED BY <2>1, <2>2 DEF MsgOf, Empty
<1>2. \A w : Parse(name, w) = ParseFrom(Empty(name), PyFields(name), w)
  <2>1. \A w : Parse(name, w) = GnsInfoReq_Parse(w)
    BY DEF Parse
  <2>2. QED BY <1>1, <2>1 DEF GnsInfoReq_Parse
<1>3. Class(PyFields(name), MsgOf(name)) /\ Empty(name) \in MsgOf(name)
  <2>1. EmptyGnsInfoReq \in GnsInfoReqMsg
    BY NumbersBack DEF EmptyGnsInfoReq, GnsInfoReqMsg
  <2>2. QED BY <1>1, <2>1, GnsInfoReqClass
<1>4. ASSUME NEW m \in MsgOf(name)
      PROVE  MergeFrom(name, Empty(name), m) = m
  <2>1. m \in GnsInfoReqMsg
    BY <1>1
  <2>2. m = [gns_name |-> m.gns_name, ip_port |-> m.ip_port, unknown |-> m.unknown]
    BY <2>1 DEF GnsInfoReqMsg
  <2>3. << >> \o m.gns_name = m.gns_name /\ << >> \o m.ip_port = m.ip_port /\ << >> \o m.unknown
        = m.unknown
    BY <2>1 DEF GnsInfoReqMsg
  <2>4. MergeFrom(name, Empty(name), m) = GnsInfoReq_MergeFrom(EmptyGnsInfoReq, m)
    BY <1>1 DEF MergeFrom
  <2>5. QED BY <2>2, <2>3, <2>4 DEF GnsInfoReq_MergeFrom, EmptyGnsInfoReq
<1>5. ASSUME NEW m \in MsgOf(name)
      PROVE  Valid(name, m) <=> \A text \in TextsOf(name, m) : Utf8(text)
  <2> DEFINE In(num) == TextsIn(GnsInfoReq_Cases[num].type, m[GnsInfoReq_Cases[num].name])
  <2>1. m \in GnsInfoReqMsg /\ TextsOf(name, m) = GnsInfoReq_Texts(m)
    BY <1>1 DEF TextsOf
  <2>f1. In(1) = {m.gns_name[k] : k \in 1 .. Len(m.gns_name)}
    <3>1. DOMAIN m.gns_name = 1 .. Len(m.gns_name)
      BY <2>1 DEF GnsInfoReqMsg
    <3>2. QED BY <3>1, GnsInfoReqClass DEF TextsIn, Field
  <2>f2. In(2) = {m.ip_port[k] : k \in 1 .. Len(m.ip_port)}
    <3>1. DOMAIN m.ip_port = 1 .. Len(m.ip_port)
      BY <2>1 DEF GnsInfoReqMsg
    <3>2. QED BY <3>1, GnsInfoReqClass DEF TextsIn, Field
  <2>2. GnsInfoReq_Texts(m) = UNION {In(num) : num \in DOMAIN GnsInfoReq_Cases}
    <3>1. DOMAIN GnsInfoReq_Cases = {1, 2}
      BY GnsInfoReqClass
    <3> HIDE DEF In
    <3>2. QED BY <3>1, <2>f1, <2>f2 DEF GnsInfoReq_Texts
  <2>3. Valid(name, m) <=> \A num \in DOMAIN GnsInfoReq_Cases : \A text \in In(num) : Utf8(text)
    BY <1>1 DEF Valid
  <2> HIDE DEF In
  <2>4. QED BY <2>1, <2>2, <2>3
<1>6. ASSUME NEW m \in MsgOf(name), NEW b \in Results(MsgOf(name)), b.ok, Clean(name, m)
      PROVE  ReadsTo(PyFields(name), MsgOf(name), b, Serialize(name, m),
                     TextsOf(name, m), MergeFrom(name, b.msg, m))
  <2>1. /\ Serialize(name, m) = GnsInfoReq_Serialize(m) /\ TextsOf(name, m) = GnsInfoReq_Texts(m)
        /\ MergeFrom(name, b.msg, m) = GnsInfoReq_MergeFrom(b.msg, m)
    BY DEF Serialize, TextsOf, MergeFrom
  <2>2. QED BY <1>1, <1>6, <2>1, GnsInfoReqParsed DEF Clean
<1> HIDE DEF name
<1>7. Codec(name)
  BY <1>2, <1>3, <1>4, <1>5, <1>6 DEF Codec
<1>8. QED BY <1>7 DEF name

\* The five routines of CfgInfoReq are those of its name.
LEMMA CfgInfoReqCodec == Codec("CfgInfoReq")
<1> DEFINE name == "CfgInfoReq"
<1>1. PyFields(name) = CfgInfoReq_Cases /\ MsgOf(name) = CfgInfoReqMsg /\ Empty(name) = EmptyCfgInfoReq
  <2>1. PyFields(name) = PyCfgInfoReq
    BY DEF PyFields
  <2>2. PyCfgInfoReq = CfgInfoReq_Cases
    BY DEF PyCfgInfoReq, CfgInfoReq_Cases
  <2>3. QED BY <2>1, <2>2 DEF MsgOf, Empty
<1>2. \A w : Parse(name, w) = ParseFrom(Empty(name), PyFields(name), w)
  <2>1. \A w : Parse(name, w) = CfgInfoReq_Parse(w)
    BY DEF Parse
  <2>2. QED BY <1>1, <2>1 DEF CfgInfoReq_Parse
<1>3. Class(PyFields(name), MsgOf(name)) /\ Empty(name) \in MsgOf(name)
  <2>1. EmptyCfgInfoReq \in CfgInfoReqMsg
    BY NumbersBack DEF EmptyCfgInfoReq, CfgInfoReqMsg
  <2>2. QED BY <1>1, <2>1, CfgInfoReqClass
<1>4. ASSUME NEW m \in MsgOf(name)
      PROVE  MergeFrom(name, Empty(name), m) = m
  <2>1. m \in CfgInfoReqMsg
    BY <1>1
  <2>2. m = [session_id |-> m.session_id, p1 |-> m.p1, p2 |-> m.p2, p3 |-> m.p3,
        gns_name |-> m.gns_name, ip_port |-> m.ip_port, fd |-> m.fd,
        req_begin_time |-> m.req_begin_time, unknown |-> m.unknown]
    BY <2>1 DEF CfgInfoReqMsg
  <2>3. << >> \o m.unknown = m.unknown
    BY <2>1 DEF CfgInfoReqMsg
  <2>4. MergeFrom(name, Empty(name), m) = CfgInfoReq_MergeFrom(EmptyCfgInfoReq, m)
    BY <1>1 DEF MergeFrom
  <2>5. QED BY <2>2, <2>3, <2>4 DEF CfgInfoReq_MergeFrom, EmptyCfgInfoReq, Given, NonZero
<1>5. ASSUME NEW m \in MsgOf(name)
      PROVE  Valid(name, m) <=> \A text \in TextsOf(name, m) : Utf8(text)
  <2> DEFINE In(num) == TextsIn(CfgInfoReq_Cases[num].type, m[CfgInfoReq_Cases[num].name])
  <2>1. m \in CfgInfoReqMsg /\ TextsOf(name, m) = CfgInfoReq_Texts(m)
    BY <1>1 DEF TextsOf
  <2>f1. In(1) = {m.session_id}
    BY CfgInfoReqClass DEF TextsIn, Field
  <2>f2. In(2) = {}
    BY CfgInfoReqClass DEF TextsIn, Field
  <2>f3. In(3) = {}
    BY CfgInfoReqClass DEF TextsIn, Field
  <2>f4. In(4) = {m.p3}
    BY CfgInfoReqClass DEF TextsIn, Field
  <2>f5. In(5) = {m.gns_name}
    BY CfgInfoReqClass DEF TextsIn, Field
  <2>f6. In(6) = {m.ip_port}
    BY CfgInfoReqClass DEF TextsIn, Field
  <2>f7. In(7) = {}
    BY CfgInfoReqClass DEF TextsIn, Field
  <2>f8. In(8) = {}
    BY CfgInfoReqClass DEF TextsIn, Field
  <2>2. CfgInfoReq_Texts(m) = UNION {In(num) : num \in DOMAIN CfgInfoReq_Cases}
    <3>1. DOMAIN CfgInfoReq_Cases = {1, 2, 3, 4, 5, 6, 7, 8}
      BY CfgInfoReqClass
    <3> HIDE DEF In
    <3>2. QED BY <3>1, <2>f1, <2>f2, <2>f3, <2>f4, <2>f5, <2>f6, <2>f7, <2>f8 DEF CfgInfoReq_Texts
  <2>3. Valid(name, m) <=> \A num \in DOMAIN CfgInfoReq_Cases : \A text \in In(num) : Utf8(text)
    BY <1>1 DEF Valid
  <2> HIDE DEF In
  <2>4. QED BY <2>1, <2>2, <2>3
<1>6. ASSUME NEW m \in MsgOf(name), NEW b \in Results(MsgOf(name)), b.ok, Clean(name, m)
      PROVE  ReadsTo(PyFields(name), MsgOf(name), b, Serialize(name, m),
                     TextsOf(name, m), MergeFrom(name, b.msg, m))
  <2>1. /\ Serialize(name, m) = CfgInfoReq_Serialize(m) /\ TextsOf(name, m) = CfgInfoReq_Texts(m)
        /\ MergeFrom(name, b.msg, m) = CfgInfoReq_MergeFrom(b.msg, m)
    BY DEF Serialize, TextsOf, MergeFrom
  <2>2. QED BY <1>1, <1>6, <2>1, CfgInfoReqParsed DEF Clean
<1> HIDE DEF name
<1>7. Codec(name)
  BY <1>2, <1>3, <1>4, <1>5, <1>6 DEF Codec
<1>8. QED BY <1>7 DEF name

\* The five routines of CfgInfoResp are those of its name.
LEMMA CfgInfoRespCodec == Codec("CfgInfoResp")
<1> DEFINE name == "CfgInfoResp"
<1>1. PyFields(name) = CfgInfoResp_Cases /\ MsgOf(name) = CfgInfoRespMsg /\ Empty(name)
      = EmptyCfgInfoResp
  <2>1. PyFields(name) = PyCfgInfoResp
    BY DEF PyFields
  <2>2. PyCfgInfoResp = CfgInfoResp_Cases
    BY DEF PyCfgInfoResp, CfgInfoResp_Cases
  <2>3. QED BY <2>1, <2>2 DEF MsgOf, Empty
<1>2. \A w : Parse(name, w) = ParseFrom(Empty(name), PyFields(name), w)
  <2>1. \A w : Parse(name, w) = CfgInfoResp_Parse(w)
    BY DEF Parse
  <2>2. QED BY <1>1, <2>1 DEF CfgInfoResp_Parse
<1>3. Class(PyFields(name), MsgOf(name)) /\ Empty(name) \in MsgOf(name)
  <2>1. EmptyCfgInfoResp \in CfgInfoRespMsg
    BY NumbersBack DEF EmptyCfgInfoResp, CfgInfoRespMsg
  <2>2. QED BY <1>1, <2>1, CfgInfoRespClass
<1>4. ASSUME NEW m \in MsgOf(name)
      PROVE  MergeFrom(name, Empty(name), m) = m
  <2>1. m \in CfgInfoRespMsg
    BY <1>1
  <2>2. m = [ret |-> m.ret, ret_msg |-> m.ret_msg, fd |-> m.fd, req_begin_time |-> m.req_begin_time,
        unknown |-> m.unknown]
    BY <2>1 DEF CfgInfoRespMsg
  <2>3. << >> \o m.unknown = m.unknown
    BY <2>1 DEF CfgInfoRespMsg
  <2>4. MergeFrom(name, Empty(name), m) = CfgInfoResp_MergeFrom(EmptyCfgInfoResp, m)
    BY <1>1 DEF MergeFrom
  <2>5. QED BY <2>2, <2>3, <2>4 DEF CfgInfoResp_MergeFrom, EmptyCfgInfoResp, Given, NonZero
<1>5. ASSUME NEW m \in MsgOf(name)
      PROVE  Valid(name, m) <=> \A text \in TextsOf(name, m) : Utf8(text)
  <2> DEFINE In(num) == TextsIn(CfgInfoResp_Cases[num].type, m[CfgInfoResp_Cases[num].name])
  <2>1. m \in CfgInfoRespMsg /\ TextsOf(name, m) = CfgInfoResp_Texts(m)
    BY <1>1 DEF TextsOf
  <2>f1. In(1) = {}
    BY CfgInfoRespClass DEF TextsIn, Field
  <2>f2. In(2) = {m.ret_msg}
    BY CfgInfoRespClass DEF TextsIn, Field
  <2>f3. In(3) = {}
    BY CfgInfoRespClass DEF TextsIn, Field
  <2>f4. In(4) = {}
    BY CfgInfoRespClass DEF TextsIn, Field
  <2>2. CfgInfoResp_Texts(m) = UNION {In(num) : num \in DOMAIN CfgInfoResp_Cases}
    <3>1. DOMAIN CfgInfoResp_Cases = {1, 2, 3, 4}
      BY CfgInfoRespClass
    <3> HIDE DEF In
    <3>2. QED BY <3>1, <2>f1, <2>f2, <2>f3, <2>f4 DEF CfgInfoResp_Texts
  <2>3. Valid(name, m) <=> \A num \in DOMAIN CfgInfoResp_Cases : \A text \in In(num) : Utf8(text)
    BY <1>1 DEF Valid
  <2> HIDE DEF In
  <2>4. QED BY <2>1, <2>2, <2>3
<1>6. ASSUME NEW m \in MsgOf(name), NEW b \in Results(MsgOf(name)), b.ok, Clean(name, m)
      PROVE  ReadsTo(PyFields(name), MsgOf(name), b, Serialize(name, m),
                     TextsOf(name, m), MergeFrom(name, b.msg, m))
  <2>1. /\ Serialize(name, m) = CfgInfoResp_Serialize(m) /\ TextsOf(name, m) = CfgInfoResp_Texts(m)
        /\ MergeFrom(name, b.msg, m) = CfgInfoResp_MergeFrom(b.msg, m)
    BY DEF Serialize, TextsOf, MergeFrom
  <2>2. QED BY <1>1, <1>6, <2>1, CfgInfoRespParsed DEF Clean
<1> HIDE DEF name
<1>7. Codec(name)
  BY <1>2, <1>3, <1>4, <1>5, <1>6 DEF Codec
<1>8. QED BY <1>7 DEF name

\* The five routines of LogInfo are those of its name.
LEMMA LogInfoCodec == Codec("LogInfo")
<1> DEFINE name == "LogInfo"
<1>1. PyFields(name) = LogInfo_Cases /\ MsgOf(name) = LogInfoMsg /\ Empty(name) = EmptyLogInfo
  <2>1. PyFields(name) = PyLogInfo
    BY DEF PyFields
  <2>2. PyLogInfo = LogInfo_Cases
    BY DEF PyLogInfo, LogInfo_Cases
  <2>3. QED BY <2>1, <2>2 DEF MsgOf, Empty
<1>2. \A w : Parse(name, w) = ParseFrom(Empty(name), PyFields(name), w)
  <2>1. \A w : Parse(name, w) = LogInfo_Parse(w)
    BY DEF Parse
  <2>2. QED BY <1>1, <2>1 DEF LogInfo_Parse
<1>3. Class(PyFields(name), MsgOf(name)) /\ Empty(name) \in MsgOf(name)
  <2>1. EmptyLogInfo \in LogInfoMsg
    BY NumbersBack DEF EmptyLogInfo, LogInfoMsg
  <2>2. QED BY <1>1, <2>1, LogInfoClass
<1>4. ASSUME NEW m \in MsgOf(name)
      PROVE  MergeFrom(name, Empty(name), m) = m
  <2>1. m \in LogInfoMsg
    BY <1>1
  <2>2. m = [gns_name |-> m.gns_name, ip_port |-> m.ip_port, session_id |-> m.session_id,
        log_text |-> m.log_text, unknown |-> m.unknown]
    BY <2>1 DEF LogInfoMsg
  <2>3. << >> \o m.unknown = m.unknown
    BY <2>1 DEF LogInfoMsg
  <2>4. MergeFrom(name, Empty(name), m) = LogInfo_MergeFrom(EmptyLogInfo, m)
    BY <1>1 DEF MergeFrom
  <2>5. QED BY <2>2, <2>3, <2>4 DEF LogInfo_MergeFrom, EmptyLogInfo, Given
<1>5. ASSUME NEW m \in MsgOf(name)
      PROVE  Valid(name, m) <=> \A text \in TextsOf(name, m) : Utf8(text)
  <2> DEFINE In(num) == TextsIn(LogInfo_Cases[num].type, m[LogInfo_Cases[num].name])
  <2>1. m \in LogInfoMsg /\ TextsOf(name, m) = LogInfo_Texts(m)
    BY <1>1 DEF TextsOf
  <2>f1. In(1) = {m.gns_name}
    BY LogInfoClass DEF TextsIn, Field
  <2>f2. In(2) = {m.ip_port}
    BY LogInfoClass DEF TextsIn, Field
  <2>f3. In(3) = {m.session_id}
    BY LogInfoClass DEF TextsIn, Field
  <2>f4. In(4) = {m.log_text}
    BY LogInfoClass DEF TextsIn, Field
  <2>2. LogInfo_Texts(m) = UNION {In(num) : num \in DOMAIN LogInfo_Cases}
    <3>1. DOMAIN LogInfo_Cases = {1, 2, 3, 4}
      BY LogInfoClass
    <3> HIDE DEF In
    <3>2. QED BY <3>1, <2>f1, <2>f2, <2>f3, <2>f4 DEF LogInfo_Texts
  <2>3. Valid(name, m) <=> \A num \in DOMAIN LogInfo_Cases : \A text \in In(num) : Utf8(text)
    BY <1>1 DEF Valid
  <2> HIDE DEF In
  <2>4. QED BY <2>1, <2>2, <2>3
<1>6. ASSUME NEW m \in MsgOf(name), NEW b \in Results(MsgOf(name)), b.ok, Clean(name, m)
      PROVE  ReadsTo(PyFields(name), MsgOf(name), b, Serialize(name, m),
                     TextsOf(name, m), MergeFrom(name, b.msg, m))
  <2>1. /\ Serialize(name, m) = LogInfo_Serialize(m) /\ TextsOf(name, m) = LogInfo_Texts(m)
        /\ MergeFrom(name, b.msg, m) = LogInfo_MergeFrom(b.msg, m)
    BY DEF Serialize, TextsOf, MergeFrom
  <2>2. QED BY <1>1, <1>6, <2>1, LogInfoParsed DEF Clean
<1> HIDE DEF name
<1>7. Codec(name)
  BY <1>2, <1>3, <1>4, <1>5, <1>6 DEF Codec
<1>8. QED BY <1>7 DEF name

\* The five routines of GetLogReq are those of its name.
LEMMA GetLogReqCodec == Codec("GetLogReq")
<1> DEFINE name == "GetLogReq"
<1>1. PyFields(name) = GetLogReq_Cases /\ MsgOf(name) = GetLogReqMsg /\ Empty(name) = EmptyGetLogReq
  <2>1. PyFields(name) = PyGetLogReq
    BY DEF PyFields
  <2>2. PyGetLogReq = GetLogReq_Cases
    BY DEF PyGetLogReq, GetLogReq_Cases
  <2>3. QED BY <2>1, <2>2 DEF MsgOf, Empty
<1>2. \A w : Parse(name, w) = ParseFrom(Empty(name), PyFields(name), w)
  <2>1. \A w : Parse(name, w) = GetLogReq_Parse(w)
    BY DEF Parse
  <2>2. QED BY <1>1, <2>1 DEF GetLogReq_Parse
<1>3. Class(PyFields(name), MsgOf(name)) /\ Empty(name) \in MsgOf(name)
  <2>1. EmptyGetLogReq \in GetLogReqMsg
    BY NumbersBack DEF EmptyGetLogReq, GetLogReqMsg
  <2>2. QED BY <1>1, <2>1, GetLogReqClass
<1>4. ASSUME NEW m \in MsgOf(name)
      PROVE  MergeFrom(name, Empty(name), m) = m
  <2>1. m \in GetLogReqMsg
    BY <1>1
  <2>2. m = [session_id |-> m.session_id, gns_name |-> m.gns_name, ip_port |-> m.ip_port, seq |-> m.seq,
        fd |-> m.fd, req_begin_time |-> m.req_begin_time, unknown |-> m.unknown]
    BY <2>1 DEF GetLogReqMsg
  <2>3. << >> \o m.unknown = m.unknown
    BY <2>1 DEF GetLogReqMsg
  <2>4. MergeFrom(name, Empty(name), m) = GetLogReq_MergeFrom(EmptyGetLogReq, m)
    BY <1>1 DEF MergeFrom
  <2>5. QED BY <2>2, <2>3, <2>4 DEF GetLogReq_MergeFrom, EmptyGetLogReq, Given, NonZero
<1>5. ASSUME NEW m \in MsgOf(name)
      PROVE  Valid(name, m) <=> \A text \in TextsOf(name, m) : Utf8(text)
  <2> DEFINE In(num) == TextsIn(GetLogReq_Cases[num].type, m[GetLogReq_Cases[num].name])
  <2>1. m \in GetLogReqMsg /\ TextsOf(name, m) = GetLogReq_Texts(m)
    BY <1>1 DEF TextsOf
  <2>f1. In(1) = {m.session_id}
    BY GetLogReqClass DEF TextsIn, Field
  <2>f2. In(2) = {m.gns_name}
    BY GetLogReqClass DEF TextsIn, Field
  <2>f3. In(3) = {m.ip_port}
    BY GetLogReqClass DEF TextsIn, Field
  <2>f4. In(4) = {}
    BY GetLogReqClass DEF TextsIn, Field
  <2>f5. In(5) = {}
    BY GetLogReqClass DEF TextsIn, Field
  <2>f6. In(6) = {}
    BY GetLogReqClass DEF TextsIn, Field
  <2>2. GetLogReq_Texts(m) = UNION {In(num) : num \in DOMAIN GetLogReq_Cases}
    <3>1. DOMAIN GetLogReq_Cases = {1, 2, 3, 4, 5, 6}
      BY GetLogReqClass
    <3> HIDE DEF In
    <3>2. QED BY <3>1, <2>f1, <2>f2, <2>f3, <2>f4, <2>f5, <2>f6 DEF GetLogReq_Texts
  <2>3. Valid(name, m) <=> \A num \in DOMAIN GetLogReq_Cases : \A text \in In(num) : Utf8(text)
    BY <1>1 DEF Valid
  <2> HIDE DEF In
  <2>4. QED BY <2>1, <2>2, <2>3
<1>6. ASSUME NEW m \in MsgOf(name), NEW b \in Results(MsgOf(name)), b.ok, Clean(name, m)
      PROVE  ReadsTo(PyFields(name), MsgOf(name), b, Serialize(name, m),
                     TextsOf(name, m), MergeFrom(name, b.msg, m))
  <2>1. /\ Serialize(name, m) = GetLogReq_Serialize(m) /\ TextsOf(name, m) = GetLogReq_Texts(m)
        /\ MergeFrom(name, b.msg, m) = GetLogReq_MergeFrom(b.msg, m)
    BY DEF Serialize, TextsOf, MergeFrom
  <2>2. QED BY <1>1, <1>6, <2>1, GetLogReqParsed DEF Clean
<1> HIDE DEF name
<1>7. Codec(name)
  BY <1>2, <1>3, <1>4, <1>5, <1>6 DEF Codec
<1>8. QED BY <1>7 DEF name

\* The five routines of GetLogRespOld are those of its name.
LEMMA GetLogRespOldCodec == Codec("GetLogRespOld")
<1> DEFINE name == "GetLogRespOld"
<1>1. PyFields(name) = GetLogRespOld_Cases /\ MsgOf(name) = GetLogRespOldMsg /\ Empty(name)
      = EmptyGetLogRespOld
  <2>1. PyFields(name) = PyGetLogRespOld
    BY DEF PyFields
  <2>2. PyGetLogRespOld = GetLogRespOld_Cases
    BY DEF PyGetLogRespOld, GetLogRespOld_Cases
  <2>3. QED BY <2>1, <2>2 DEF MsgOf, Empty
<1>2. \A w : Parse(name, w) = ParseFrom(Empty(name), PyFields(name), w)
  <2>1. \A w : Parse(name, w) = GetLogRespOld_Parse(w)
    BY DEF Parse
  <2>2. QED BY <1>1, <2>1 DEF GetLogRespOld_Parse
<1>3. Class(PyFields(name), MsgOf(name)) /\ Empty(name) \in MsgOf(name)
  <2>1. EmptyGetLogRespOld \in GetLogRespOldMsg
    BY NumbersBack DEF EmptyGetLogRespOld, GetLogRespOldMsg
  <2>2. QED BY <1>1, <2>1, GetLogRespOldClass
<1>4. ASSUME NEW m \in MsgOf(name)
      PROVE  MergeFrom(name, Empty(name), m) = m
  <2>1. m \in GetLogRespOldMsg
    BY <1>1
  <2>2. m = [ret |-> m.ret, ret_msg |-> m.ret_msg, log_text |-> m.log_text, cur_len |-> m.cur_len,
        fd |-> m.fd, req_begin_time |-> m.req_begin_time, unknown |-> m.unknown]
    BY <2>1 DEF GetLogRespOldMsg
  <2>3. << >> \o m.unknown = m.unknown
    BY <2>1 DEF GetLogRespOldMsg
  <2>4. MergeFrom(name, Empty(name), m) = GetLogRespOld_MergeFrom(EmptyGetLogRespOld, m)
    BY <1>1 DEF MergeFrom
  <2>5. QED BY <2>2, <2>3, <2>4 DEF GetLogRespOld_MergeFrom, EmptyGetLogRespOld, Given, NonZero
<1>5. ASSUME NEW m \in MsgOf(name)
      PROVE  Valid(name, m) <=> \A text \in TextsOf(name, m) : Utf8(text)
  <2> DEFINE In(num) == TextsIn(GetLogRespOld_Cases[num].type, m[GetLogRespOld_Cases[num].name])
  <2>1. m \in GetLogRespOldMsg /\ TextsOf(name, m) = GetLogRespOld_Texts(m)
    BY <1>1 DEF TextsOf
  <2>f1. In(1) = {}
    BY GetLogRespOldClass DEF TextsIn, Field
  <2>f2. In(2) = {m.ret_msg}
    BY GetLogRespOldClass DEF TextsIn, Field
  <2>f3. In(3) = {m.log_text}
    BY GetLogRespOldClass DEF TextsIn, Field
  <2>f4. In(4) = {}
    BY GetLogRespOldClass DEF TextsIn, Field
  <2>f5. In(5) = {}
    BY GetLogRespOldClass DEF TextsIn, Field
  <2>f6. In(6) = {}
    BY GetLogRespOldClass DEF TextsIn, Field
  <2>2. GetLogRespOld_Texts(m) = UNION {In(num) : num \in DOMAIN GetLogRespOld_Cases}
    <3>1. DOMAIN GetLogRespOld_Cases = {1, 2, 3, 4, 5, 6}
      BY GetLogRespOldClass
    <3> HIDE DEF In
    <3>2. QED BY <3>1, <2>f1, <2>f2, <2>f3, <2>f4, <2>f5, <2>f6 DEF GetLogRespOld_Texts
  <2>3. Valid(name, m) <=> \A num \in DOMAIN GetLogRespOld_Cases : \A text \in In(num) : Utf8(text)
    BY <1>1 DEF Valid
  <2> HIDE DEF In
  <2>4. QED BY <2>1, <2>2, <2>3
<1>6. ASSUME NEW m \in MsgOf(name), NEW b \in Results(MsgOf(name)), b.ok, Clean(name, m)
      PROVE  ReadsTo(PyFields(name), MsgOf(name), b, Serialize(name, m),
                     TextsOf(name, m), MergeFrom(name, b.msg, m))
  <2>1. /\ Serialize(name, m) = GetLogRespOld_Serialize(m) /\ TextsOf(name, m) = GetLogRespOld_Texts(m)
        /\ MergeFrom(name, b.msg, m) = GetLogRespOld_MergeFrom(b.msg, m)
    BY DEF Serialize, TextsOf, MergeFrom
  <2>2. QED BY <1>1, <1>6, <2>1, GetLogRespOldParsed DEF Clean
<1> HIDE DEF name
<1>7. Codec(name)
  BY <1>2, <1>3, <1>4, <1>5, <1>6 DEF Codec
<1>8. QED BY <1>7 DEF name

\* The five routines of LogText are those of its name.
LEMMA LogTextCodec == Codec("LogText")
<1> DEFINE name == "LogText"
<1>1. PyFields(name) = LogText_Cases /\ MsgOf(name) = LogTextMsg /\ Empty(name) = EmptyLogText
  <2>1. PyFields(name) = PyLogText
    BY DEF PyFields
  <2>2. PyLogText = LogText_Cases
    BY DEF PyLogText, LogText_Cases
  <2>3. QED BY <2>1, <2>2 DEF MsgOf, Empty
<1>2. \A w : Parse(name, w) = ParseFrom(Empty(name), PyFields(name), w)
  <2>1. \A w : Parse(name, w) = LogText_Parse(w)
    BY DEF Parse
  <2>2. QED BY <1>1, <2>1 DEF LogText_Parse
<1>3. Class(PyFields(name), MsgOf(name)) /\ Empty(name) \in MsgOf(name)
  <2>1. EmptyLogText \in LogTextMsg
    BY NumbersBack DEF EmptyLogText, LogTextMsg
  <2>2. QED BY <1>1, <2>1, LogTextClass
<1>4. ASSUME NEW m \in MsgOf(name)
      PROVE  MergeFrom(name, Empty(name), m) = m
  <2>1. m \in LogTextMsg
    BY <1>1
  <2>2. m = [ip_port |-> m.ip_port, gns_name |-> m.gns_name, text |-> m.text, unknown |-> m.unknown]
    BY <2>1 DEF LogTextMsg
  <2>3. << >> \o m.text = m.text /\ << >> \o m.unknown = m.unknown
    BY <2>1 DEF LogTextMsg
  <2>4. MergeFrom(name, Empty(name), m) = LogText_MergeFrom(EmptyLogText, m)
    BY <1>1 DEF MergeFrom
  <2>5. QED BY <2>2, <2>3, <2>4 DEF LogText_MergeFrom, EmptyLogText, Given
<1>5. ASSUME NEW m \in MsgOf(name)
      PROVE  Valid(name, m) <=> \A text \in TextsOf(name, m) : Utf8(text)
  <2> DEFINE In(num) == TextsIn(LogText_Cases[num].type, m[LogText_Cases[num].name])
  <2>1. m \in LogTextMsg /\ TextsOf(name, m) = LogText_Texts(m)
    BY <1>1 DEF TextsOf
  <2>f1. In(1) = {m.ip_port}
    BY LogTextClass DEF TextsIn, Field
  <2>f2. In(2) = {m.gns_name}
    BY LogTextClass DEF TextsIn, Field
  <2>f3. In(3) = {m.text[k] : k \in 1 .. Len(m.text)}
    <3>1. DOMAIN m.text = 1 .. Len(m.text)
      BY <2>1 DEF LogTextMsg
    <3>2. QED BY <3>1, LogTextClass DEF TextsIn, Field
  <2>2. LogText_Texts(m) = UNION {In(num) : num \in DOMAIN LogText_Cases}
    <3>1. DOMAIN LogText_Cases = {1, 2, 3}
      BY LogTextClass
    <3> HIDE DEF In
    <3>2. QED BY <3>1, <2>f1, <2>f2, <2>f3 DEF LogText_Texts
  <2>3. Valid(name, m) <=> \A num \in DOMAIN LogText_Cases : \A text \in In(num) : Utf8(text)
    BY <1>1 DEF Valid
  <2> HIDE DEF In
  <2>4. QED BY <2>1, <2>2, <2>3
<1>6. ASSUME NEW m \in MsgOf(name), NEW b \in Results(MsgOf(name)), b.ok, Clean(name, m)
      PROVE  ReadsTo(PyFields(name), MsgOf(name), b, Serialize(name, m),
                     TextsOf(name, m), MergeFrom(name, b.msg, m))
  <2>1. /\ Serialize(name, m) = LogText_Serialize(m) /\ TextsOf(name, m) = LogText_Texts(m)
        /\ MergeFrom(name, b.msg, m) = LogText_MergeFrom(b.msg, m)
    BY DEF Serialize, TextsOf, MergeFrom
  <2>2. QED BY <1>1, <1>6, <2>1, LogTextParsed DEF Clean
<1> HIDE DEF name
<1>7. Codec(name)
  BY <1>2, <1>3, <1>4, <1>5, <1>6 DEF Codec
<1>8. QED BY <1>7 DEF name

\* The five routines of GetLogResp are those of its name.
LEMMA GetLogRespCodec == Codec("GetLogResp")
<1> DEFINE name == "GetLogResp"
<1>1. PyFields(name) = GetLogResp_Cases /\ MsgOf(name) = GetLogRespMsg /\ Empty(name) = EmptyGetLogResp
  <2>1. PyFields(name) = PyGetLogResp
    BY DEF PyFields
  <2>2. PyGetLogResp = GetLogResp_Cases
    BY DEF PyGetLogResp, PyEmptyLogText, PyLogText, EmptyLogText, LogText_Cases, GetLogResp_Cases
  <2>3. QED BY <2>1, <2>2 DEF MsgOf, Empty
<1>2. \A w : Parse(name, w) = ParseFrom(Empty(name), PyFields(name), w)
  <2>1. \A w : Parse(name, w) = GetLogResp_Parse(w)
    BY DEF Parse
  <2>2. QED BY <1>1, <2>1 DEF GetLogResp_Parse
<1>3. Class(PyFields(name), MsgOf(name)) /\ Empty(name) \in MsgOf(name)
  <2>1. EmptyGetLogResp \in GetLogRespMsg
    BY NumbersBack DEF EmptyGetLogResp, GetLogRespMsg
  <2>2. QED BY <1>1, <2>1, GetLogRespClass
<1>4. ASSUME NEW m \in MsgOf(name)
      PROVE  MergeFrom(name, Empty(name), m) = m
  <2>1. m \in GetLogRespMsg
    BY <1>1
  <2>2. m = [ret |-> m.ret, ret_msg |-> m.ret_msg, fd |-> m.fd, req_begin_time |-> m.req_begin_time,
        log_text |-> m.log_text, unknown |-> m.unknown]
    BY <2>1 DEF GetLogRespMsg
  <2>3. << >> \o m.log_text = m.log_text /\ << >> \o m.unknown = m.unknown
    BY <2>1 DEF GetLogRespMsg
  <2>4. MergeFrom(name, Empty(name), m) = GetLogResp_MergeFrom(EmptyGetLogResp, m)
    BY <1>1 DEF MergeFrom
  <2>5. QED BY <2>2, <2>3, <2>4 DEF GetLogResp_MergeFrom, EmptyGetLogResp, Given, NonZero
<1>5. ASSUME NEW m \in MsgOf(name)
      PROVE  Valid(name, m) <=> \A text \in TextsOf(name, m) : Utf8(text)
  <2> DEFINE In(num) == TextsIn(GetLogResp_Cases[num].type, m[GetLogResp_Cases[num].name])
  <2>1. m \in GetLogRespMsg /\ TextsOf(name, m) = GetLogResp_Texts(m)
    BY <1>1 DEF TextsOf
  <2>f1. In(1) = {}
    BY GetLogRespClass DEF TextsIn, Field
  <2>f2. In(2) = {m.ret_msg}
    BY GetLogRespClass DEF TextsIn, Field
  <2>f3. In(3) = {}
    BY GetLogRespClass DEF TextsIn, Field
  <2>f4. In(4) = {}
    BY GetLogRespClass DEF TextsIn, Field
  <2>f5. In(5) = UNION {LogText_Texts(m.log_text[k]) : k \in 1 .. Len(m.log_text)}
    <3>1. DOMAIN m.log_text = 1 .. Len(m.log_text) /\ \A k \in 1 .. Len(m.log_text) :
          m.log_text[k] \in LogTextMsg
      BY <2>1 DEF GetLogRespMsg
    <3>2. \A k \in 1 .. Len(m.log_text) : DOMAIN m.log_text[k].text = 1 .. Len(m.log_text[k].text)
      BY <3>1 DEF LogTextMsg
    <3>3. GetLogResp_Cases[5].type = "messages" /\ GetLogResp_Cases[5].name = "log_text"
      BY GetLogRespClass DEF Repeated
    <3>4. In(5) = UNION {{m.log_text[k].ip_port, m.log_text[k].gns_name} \cup
                          {m.log_text[k].text[j] : j \in DOMAIN m.log_text[k].text} :
                          k \in DOMAIN m.log_text}
      BY <3>3 DEF TextsIn
    <3>5. QED BY <3>1, <3>2, <3>4 DEF LogText_Texts
  <2>2. GetLogResp_Texts(m) = UNION {In(num) : num \in DOMAIN GetLogResp_Cases}
    <3>1. DOMAIN GetLogResp_Cases = {1, 2, 3, 4, 5}
      BY GetLogRespClass
    <3> HIDE DEF In
    <3>2. QED BY <3>1, <2>f1, <2>f2, <2>f3, <2>f4, <2>f5 DEF GetLogResp_Texts
  <2>3. Valid(name, m) <=> \A num \in DOMAIN GetLogResp_Cases : \A text \in In(num) : Utf8(text)
    BY <1>1 DEF Valid
  <2> HIDE DEF In
  <2>4. QED BY <2>1, <2>2, <2>3
<1>6. ASSUME NEW m \in MsgOf(name), NEW b \in Results(MsgOf(name)), b.ok, Clean(name, m)
      PROVE  ReadsTo(PyFields(name), MsgOf(name), b, Serialize(name, m),
                     TextsOf(name, m), MergeFrom(name, b.msg, m))
  <2>1. /\ Serialize(name, m) = GetLogResp_Serialize(m) /\ TextsOf(name, m) = GetLogResp_Texts(m)
        /\ MergeFrom(name, b.msg, m) = GetLogResp_MergeFrom(b.msg, m)
    BY DEF Serialize, TextsOf, MergeFrom
  <2>2. QED BY <1>1, <1>6, <2>1, GetLogRespParsed DEF Clean
<1> HIDE DEF name
<1>7. Codec(name)
  BY <1>2, <1>3, <1>4, <1>5, <1>6 DEF Codec
<1>8. QED BY <1>7 DEF name

\* The five routines of HeartBeatMsg are those of its name.
LEMMA HeartBeatMsgCodec == Codec("HeartBeatMsg")
<1> DEFINE name == "HeartBeatMsg"
<1>1. PyFields(name) = HeartBeatMsg_Cases /\ MsgOf(name) = HeartBeatMsgMsg /\ Empty(name)
      = EmptyHeartBeatMsg
  <2>1. PyFields(name) = PyHeartBeatMsg
    BY DEF PyFields
  <2>2. PyHeartBeatMsg = HeartBeatMsg_Cases
    BY DEF PyHeartBeatMsg, HeartBeatMsg_Cases
  <2>3. QED BY <2>1, <2>2 DEF MsgOf, Empty
<1>2. \A w : Parse(name, w) = ParseFrom(Empty(name), PyFields(name), w)
  <2>1. \A w : Parse(name, w) = HeartBeatMsg_Parse(w)
    BY DEF Parse
  <2>2. QED BY <1>1, <2>1 DEF HeartBeatMsg_Parse
<1>3. Class(PyFields(name), MsgOf(name)) /\ Empty(name) \in MsgOf(name)
  <2>1. EmptyHeartBeatMsg \in HeartBeatMsgMsg
    BY NumbersBack DEF EmptyHeartBeatMsg, HeartBeatMsgMsg
  <2>2. QED BY <1>1, <2>1, HeartBeatMsgClass
<1>4. ASSUME NEW m \in MsgOf(name)
      PROVE  MergeFrom(name, Empty(name), m) = m
  <2>1. m \in HeartBeatMsgMsg
    BY <1>1
  <2>2. m = [reserve |-> m.reserve, unknown |-> m.unknown]
    BY <2>1 DEF HeartBeatMsgMsg
  <2>3. << >> \o m.unknown = m.unknown
    BY <2>1 DEF HeartBeatMsgMsg
  <2>4. MergeFrom(name, Empty(name), m) = HeartBeatMsg_MergeFrom(EmptyHeartBeatMsg, m)
    BY <1>1 DEF MergeFrom
  <2>5. QED BY <2>2, <2>3, <2>4 DEF HeartBeatMsg_MergeFrom, EmptyHeartBeatMsg, Given
<1>5. ASSUME NEW m \in MsgOf(name)
      PROVE  Valid(name, m) <=> \A text \in TextsOf(name, m) : Utf8(text)
  <2> DEFINE In(num) == TextsIn(HeartBeatMsg_Cases[num].type, m[HeartBeatMsg_Cases[num].name])
  <2>1. m \in HeartBeatMsgMsg /\ TextsOf(name, m) = HeartBeatMsg_Texts(m)
    BY <1>1 DEF TextsOf
  <2>f1. In(1) = {m.reserve}
    BY HeartBeatMsgClass DEF TextsIn, Field
  <2>2. HeartBeatMsg_Texts(m) = UNION {In(num) : num \in DOMAIN HeartBeatMsg_Cases}
    <3>1. DOMAIN HeartBeatMsg_Cases = {1}
      BY HeartBeatMsgClass
    <3> HIDE DEF In
    <3>2. QED BY <3>1, <2>f1 DEF HeartBeatMsg_Texts
  <2>3. Valid(name, m) <=> \A num \in DOMAIN HeartBeatMsg_Cases : \A text \in In(num) : Utf8(text)
    BY <1>1 DEF Valid
  <2> HIDE DEF In
  <2>4. QED BY <2>1, <2>2, <2>3
<1>6. ASSUME NEW m \in MsgOf(name), NEW b \in Results(MsgOf(name)), b.ok, Clean(name, m)
      PROVE  ReadsTo(PyFields(name), MsgOf(name), b, Serialize(name, m),
                     TextsOf(name, m), MergeFrom(name, b.msg, m))
  <2>1. /\ Serialize(name, m) = HeartBeatMsg_Serialize(m) /\ TextsOf(name, m) = HeartBeatMsg_Texts(m)
        /\ MergeFrom(name, b.msg, m) = HeartBeatMsg_MergeFrom(b.msg, m)
    BY DEF Serialize, TextsOf, MergeFrom
  <2>2. QED BY <1>1, <1>6, <2>1, HeartBeatMsgParsed DEF Clean
<1> HIDE DEF name
<1>7. Codec(name)
  BY <1>2, <1>3, <1>4, <1>5, <1>6 DEF Codec
<1>8. QED BY <1>7 DEF name

\* The five routines of ClearSessionReq are those of its name.
LEMMA ClearSessionReqCodec == Codec("ClearSessionReq")
<1> DEFINE name == "ClearSessionReq"
<1>1. PyFields(name) = ClearSessionReq_Cases /\ MsgOf(name) = ClearSessionReqMsg /\ Empty(name)
      = EmptyClearSessionReq
  <2>1. PyFields(name) = PyClearSessionReq
    BY DEF PyFields
  <2>2. PyClearSessionReq = ClearSessionReq_Cases
    BY DEF PyClearSessionReq, ClearSessionReq_Cases
  <2>3. QED BY <2>1, <2>2 DEF MsgOf, Empty
<1>2. \A w : Parse(name, w) = ParseFrom(Empty(name), PyFields(name), w)
  <2>1. \A w : Parse(name, w) = ClearSessionReq_Parse(w)
    BY DEF Parse
  <2>2. QED BY <1>1, <2>1 DEF ClearSessionReq_Parse
<1>3. Class(PyFields(name), MsgOf(name)) /\ Empty(name) \in MsgOf(name)
  <2>1. EmptyClearSessionReq \in ClearSessionReqMsg
    BY NumbersBack DEF EmptyClearSessionReq, ClearSessionReqMsg
  <2>2. QED BY <1>1, <2>1, ClearSessionReqClass
<1>4. ASSUME NEW m \in MsgOf(name)
      PROVE  MergeFrom(name, Empty(name), m) = m
  <2>1. m \in ClearSessionReqMsg
    BY <1>1
  <2>2. m = [session_id |-> m.session_id, unknown |-> m.unknown]
    BY <2>1 DEF ClearSessionReqMsg
  <2>3. << >> \o m.unknown = m.unknown
    BY <2>1 DEF ClearSessionReqMsg
  <2>4. MergeFrom(name, Empty(name), m) = ClearSessionReq_MergeFrom(EmptyClearSessionReq, m)
    BY <1>1 DEF MergeFrom
  <2>5. QED BY <2>2, <2>3, <2>4 DEF ClearSessionReq_MergeFrom, EmptyClearSessionReq, Given
<1>5. ASSUME NEW m \in MsgOf(name)
      PROVE  Valid(name, m) <=> \A text \in TextsOf(name, m) : Utf8(text)
  <2> DEFINE In(num) == TextsIn(ClearSessionReq_Cases[num].type, m[ClearSessionReq_Cases[num].name])
  <2>1. m \in ClearSessionReqMsg /\ TextsOf(name, m) = ClearSessionReq_Texts(m)
    BY <1>1 DEF TextsOf
  <2>f1. In(1) = {m.session_id}
    BY ClearSessionReqClass DEF TextsIn, Field
  <2>2. ClearSessionReq_Texts(m) = UNION {In(num) : num \in DOMAIN ClearSessionReq_Cases}
    <3>1. DOMAIN ClearSessionReq_Cases = {1}
      BY ClearSessionReqClass
    <3> HIDE DEF In
    <3>2. QED BY <3>1, <2>f1 DEF ClearSessionReq_Texts
  <2>3. Valid(name, m) <=> \A num \in DOMAIN ClearSessionReq_Cases : \A text \in In(num) : Utf8(text)
    BY <1>1 DEF Valid
  <2> HIDE DEF In
  <2>4. QED BY <2>1, <2>2, <2>3
<1>6. ASSUME NEW m \in MsgOf(name), NEW b \in Results(MsgOf(name)), b.ok, Clean(name, m)
      PROVE  ReadsTo(PyFields(name), MsgOf(name), b, Serialize(name, m),
                     TextsOf(name, m), MergeFrom(name, b.msg, m))
  <2>1. /\ Serialize(name, m) = ClearSessionReq_Serialize(m) /\ TextsOf(name, m)
           = ClearSessionReq_Texts(m)
        /\ MergeFrom(name, b.msg, m) = ClearSessionReq_MergeFrom(b.msg, m)
    BY DEF Serialize, TextsOf, MergeFrom
  <2>2. QED BY <1>1, <1>6, <2>1, ClearSessionReqParsed DEF Clean
<1> HIDE DEF name
<1>7. Codec(name)
  BY <1>2, <1>3, <1>4, <1>5, <1>6 DEF Codec
<1>8. QED BY <1>7 DEF name

\* The routines of every class are those of its name.
LEMMA EveryCodec ==
  ASSUME NEW name \in MsgNames
  PROVE  Codec(name)
BY LoginReqCodec,
   LoginRespCodec,
   GnsInfoReqCodec,
   CfgInfoReqCodec,
   CfgInfoRespCodec,
   LogInfoCodec,
   GetLogReqCodec,
   GetLogRespOldCodec,
   LogTextCodec,
   GetLogRespCodec,
   HeartBeatMsgCodec,
   ClearSessionReqCodec DEF MsgNames

----------------------------------------------------------------------------
(* Serialising and parsing *)

Start(name) == [ok |-> TRUE, msg |-> Empty(name)]

\* What every parse starts from.
LEMMA Starts ==
  ASSUME NEW name \in MsgNames
  PROVE  /\ Class(PyFields(name), MsgOf(name))
         /\ Start(name) \in Results(MsgOf(name))
         /\ Start(name).ok /\ Start(name).msg = Empty(name)
         /\ \A w : Parse(name, w) = ParsedAll(PyFields(name), Start(name), w)
<1>1. Codec(name)
  BY EveryCodec
<1>2. \A w : ParseFrom(Empty(name), PyFields(name), w)
               = ParsedAll(PyFields(name), Start(name), w)
  BY DEF ParseFrom, ParsedAll, Start
<1>3. QED BY <1>1, <1>2 DEF Codec, Start, Results

\* Parsing what was serialised merges it, in every class.
LEMMA ReadTo ==
  ASSUME NEW name \in MsgNames, NEW m \in MsgOf(name), Clean(name, m),
         NEW b \in Results(MsgOf(name)), b.ok
  PROVE  ReadsTo(PyFields(name), MsgOf(name), b, Serialize(name, m),
                 TextsOf(name, m), MergeFrom(name, b.msg, m))
BY EveryCodec DEF Codec

\* What a program serialises is read back, whatever the message holds, unless
\* one of its texts is not UTF-8.
THEOREM MessagesComeBack ==
  \A name \in MsgNames : \A m \in MsgOf(name) : Clean(name, m) => ReadBack(name, m)
<1> SUFFICES ASSUME NEW name \in MsgNames, NEW m \in MsgOf(name), Clean(name, m)
             PROVE  ReadBack(name, m)
  OBVIOUS
<1>1. ReadsTo(PyFields(name), MsgOf(name), Start(name), Serialize(name, m),
              TextsOf(name, m), MergeFrom(name, Empty(name), m))
  BY ReadTo, Starts
<1>2. /\ MergeFrom(name, Empty(name), m) = m
      /\ Valid(name, m) <=> \A text \in TextsOf(name, m) : Utf8(text)
  BY EveryCodec DEF Codec
<1> DEFINE r == ParsedAll(PyFields(name), Start(name), Serialize(name, m))
<1>3. Parse(name, Serialize(name, m)) = r
  BY Starts
<1>4. r.ok <=> Valid(name, m)
  BY <1>1, <1>2 DEF ReadsTo
<1>5. r.ok => r.msg = m
  BY <1>1, <1>2 DEF ReadsTo
<1>6. r.ok \in BOOLEAN /\ Valid(name, m) \in BOOLEAN
  <2>1. r \in Results(MsgOf(name))
    BY <1>1, Starts, ParsedKeeps DEF ReadsTo
  <2>2. QED BY <2>1 DEF Results, Valid
<1> HIDE DEF r
<1>7. QED BY <1>3, <1>4, <1>5, <1>6 DEF ReadBack

\* Two messages of a class serialised one after the other are read as MergeFrom
\* would put them together.
THEOREM MergedAsRead ==
  \A name \in MsgNames : \A to, from \in MsgOf(name) :
    Clean(name, to) /\ Clean(name, from) => MergeIsConcatenation(name, to, from)
<1> SUFFICES ASSUME NEW name \in MsgNames, NEW to \in MsgOf(name), NEW from \in MsgOf(name),
                    Clean(name, to), Clean(name, from)
             PROVE  MergeIsConcatenation(name, to, from)
  OBVIOUS
<1> DEFINE cases == PyFields(name)
           M == MsgOf(name)
           s == Serialize(name, to)
           t == Serialize(name, from)
           b == Start(name)
           mid == ParsedAll(cases, b, s)
           both == ParsedAll(cases, mid, t)
<1>1. Class(cases, M) /\ b \in Results(M) /\ b.ok /\ b.msg = Empty(name)
  BY Starts
<1>2. ReadsTo(cases, M, b, s, TextsOf(name, to), MergeFrom(name, Empty(name), to))
  BY <1>1, ReadTo
<1>3. ReadsTo(cases, M, b, t, TextsOf(name, from), MergeFrom(name, Empty(name), from))
  BY <1>1, ReadTo
<1>4. MergeFrom(name, Empty(name), to) = to
  BY EveryCodec DEF Codec
<1>5. s \in Seq(Tokens(cases)) /\ t \in Seq(Tokens(cases)) /\ (mid.ok => mid.msg = to)
  BY <1>2, <1>3, <1>4 DEF ReadsTo
<1>6. mid \in Results(M)
  BY <1>1, <1>5, ParsedKeeps
<1>7. Parse(name, s \o t) = both
  <2>1. Parse(name, s \o t) = ParsedAll(cases, b, s \o t)
    BY Starts
  <2> HIDE DEF cases, M, s, t, b
  <2>2. QED BY <1>1, <1>5, <2>1, ParsedJoined
<1>8. both.ok => both.msg = MergeFrom(name, to, from)
  <2>1. CASE ~mid.ok
    <3>1. both = mid
      <4> HIDE DEF cases, M, s, t, mid
      <4>1. QED BY <1>1, <1>5, <1>6, <2>1, StaysRefused
    <3>2. QED BY <2>1, <3>1
  <2>2. CASE mid.ok
    <3>1. ReadsTo(cases, M, mid, t, TextsOf(name, from), MergeFrom(name, mid.msg, from))
      BY <1>6, <2>2, ReadTo
    <3>2. QED BY <1>5, <2>2, <3>1 DEF ReadsTo
  <2>3. QED BY <2>1, <2>2
<1> HIDE DEF s, t, both
<1>9. QED BY <1>7, <1>8 DEF MergeIsConcatenation, s, t
\* FlatSize, one token after the other.
FlatSizeRuns(s, S) ==
  \E f : /\ f \in [0 .. Len(s) -> S] /\ f[0] = 0
         /\ \A k \in 1 .. Len(s) : f[k]
             = (f[k - 1] + 1 + (IF s[k].kind = "varint" THEN VarintSize(s[k].val)
             ELSE Delimited(Len(s[k].val))))
         /\ FlatSize(s) = f[Len(s)]

\* FlatSize is the last of a row of sums.
LEMMA FlatSizeSteps ==
  ASSUME NEW C, NEW s \in Seq(C), NEW S, 0 \in S
  PROVE  (\A k \in 1 .. Len(s) : \A x \in S :
         (x + 1 + (IF s[k].kind = "varint" THEN VarintSize(s[k].val)
         ELSE Delimited(Len(s[k].val)))) \in S) => FlatSizeRuns(s, S)
<1>0. SUFFICES ASSUME \A k \in 1 .. Len(s) : \A x \in S :
      (x + 1 + (IF s[k].kind = "varint" THEN VarintSize(s[k].val) ELSE Delimited(Len(s[k].val)))) \in S
      PROVE  FlatSizeRuns(s, S)
  OBVIOUS
<1> DEFINE n == Len(s)
           base == 0
           step == [p \in (1 .. n) \X S |-> (p[2] + 1 + (IF s[p[1]].kind = "varint"
               THEN VarintSize(s[p[1]].val) ELSE Delimited(Len(s[p[1]].val))))]
           turn(f, t) == IF t = {} THEN base
                         ELSE (f[t \ {Max(t)}] + 1 + (IF s[Max(t)].kind = "varint"
                             THEN VarintSize(s[Max(t)].val) ELSE Delimited(Len(s[Max(t)].val))))
           iter == CHOOSE iter : iter = [t \in SUBSET DOMAIN s |-> turn(iter, t)]
<1>1. DOMAIN s = 1 .. n /\ n \in Nat
  OBVIOUS
<1>a. FlatSize(s) = iter[DOMAIN s]
  BY DEF FlatSize, FoldLeft, MapThenFoldSet
<1>2. step \in [(1 .. n) \X S -> S] /\ base \in S
  BY <1>0
<1> HIDE DEF n, base
<1>3. \E h : h = [t \in SUBSET (1 .. n) |-> turn(h, t)]
  <2>1. PICK h : Folded(S, base, n, step, h)
    <3> HIDE DEF step
    <3>1. QED BY <1>1, <1>2, FoldIs
  <2> DEFINE g == [t \in SUBSET (1 .. n) |-> h[t]]
  <2>2. ASSUME NEW t \in SUBSET (1 .. n) PROVE g[t] = turn(g, t)
    BY <2>1 DEF Folded
  <2>3. g = [t \in SUBSET (1 .. n) |-> turn(g, t)]
    <3>1. g = [t \in SUBSET (1 .. n) |-> g[t]]
      OBVIOUS
    <3> HIDE DEF turn, g
    <3>2. QED BY <2>2, <3>1
  <2>4. QED BY <2>3
<1>4. iter = [t \in SUBSET (1 .. n) |-> turn(iter, t)]
  BY <1>1, <1>3
<1>5. \A t \in SUBSET (1 .. n) : iter[t] = turn(iter, t)
  <2> HIDE DEF turn, iter
  <2>1. QED BY <1>4
<1> HIDE DEF iter
<1>6. Iterates(iter, S, base, n, step)
  <2>1. iter[{}] = base
    BY <1>5
  <2>2. ASSUME NEW t \in SUBSET (1 .. n), t # {}, iter[t \ {Max(t)}] \in S
        PROVE  iter[t] = step[<<Max(t), iter[t \ {Max(t)}]>>]
    <3>1. Max(t) \in 1 .. n
      BY <1>1, <2>2, LastIn
    <3>2. QED BY <1>5, <2>2, <3>1
  <2>3. QED BY <2>1, <2>2 DEF Iterates
<1>7. PICK f : Trace(f, S, base, n, step) /\ iter[1 .. n] = f[n]
  <2> HIDE DEF step
  <2>1. HasTrace(iter, S, base, n, step)
    BY <1>1, <1>2, <1>6, TraceOf
  <2>2. QED BY <2>1 DEF HasTrace
<1>8. ASSUME NEW k \in 1 .. n PROVE f[k]
      = (f[k - 1] + 1 + (IF s[k].kind = "varint" THEN VarintSize(s[k].val)
      ELSE Delimited(Len(s[k].val))))
  <2>1. k - 1 \in 0 .. n
    BY <1>1
  <2>2. <<k, f[k - 1]>> \in (1 .. n) \X S
    BY <1>7, <2>1 DEF Trace
  <2>3. QED BY <1>7, <2>2 DEF Trace
<1>9. QED BY <1>1, <1>a, <1>7, <1>8 DEF FlatSizeRuns, Trace, n, base

\* WireSize, one token after the other.
WireSizeRuns(s, S) ==
  \E f : /\ f \in [0 .. Len(s) -> S] /\ f[0] = 0
         /\ \A k \in 1 .. Len(s) : f[k]
             = (f[k - 1] + (IF s[k].kind = "message" THEN 1 + Delimited(FlatSize(s[k].val))
             ELSE FlatSize(<<s[k]>>)))
         /\ WireSize(s) = f[Len(s)]

\* WireSize is the last of a row of sums.
LEMMA WireSizeSteps ==
  ASSUME NEW C, NEW s \in Seq(C), NEW S, 0 \in S
  PROVE  (\A k \in 1 .. Len(s) : \A x \in S :
         (x + (IF s[k].kind = "message" THEN 1 + Delimited(FlatSize(s[k].val))
         ELSE FlatSize(<<s[k]>>))) \in S) => WireSizeRuns(s, S)
<1>0. SUFFICES ASSUME \A k \in 1 .. Len(s) : \A x \in S :
      (x + (IF s[k].kind = "message" THEN 1 + Delimited(FlatSize(s[k].val))
      ELSE FlatSize(<<s[k]>>))) \in S
      PROVE  WireSizeRuns(s, S)
  OBVIOUS
<1> DEFINE n == Len(s)
           base == 0
           step == [p \in (1 .. n) \X S |-> (p[2] + (IF s[p[1]].kind = "message"
               THEN 1 + Delimited(FlatSize(s[p[1]].val)) ELSE FlatSize(<<s[p[1]]>>)))]
           turn(f, t) == IF t = {} THEN base
                         ELSE (f[t \ {Max(t)}] + (IF s[Max(t)].kind = "message"
                             THEN 1 + Delimited(FlatSize(s[Max(t)].val)) ELSE FlatSize(<<s[Max(t)]>>)))
           iter == CHOOSE iter : iter = [t \in SUBSET DOMAIN s |-> turn(iter, t)]
<1>1. DOMAIN s = 1 .. n /\ n \in Nat
  OBVIOUS
<1>a. WireSize(s) = iter[DOMAIN s]
  BY DEF WireSize, FoldLeft, MapThenFoldSet
<1>2. step \in [(1 .. n) \X S -> S] /\ base \in S
  BY <1>0
<1> HIDE DEF n, base
<1>3. \E h : h = [t \in SUBSET (1 .. n) |-> turn(h, t)]
  <2>1. PICK h : Folded(S, base, n, step, h)
    <3> HIDE DEF step
    <3>1. QED BY <1>1, <1>2, FoldIs
  <2> DEFINE g == [t \in SUBSET (1 .. n) |-> h[t]]
  <2>2. ASSUME NEW t \in SUBSET (1 .. n) PROVE g[t] = turn(g, t)
    BY <2>1 DEF Folded
  <2>3. g = [t \in SUBSET (1 .. n) |-> turn(g, t)]
    <3>1. g = [t \in SUBSET (1 .. n) |-> g[t]]
      OBVIOUS
    <3> HIDE DEF turn, g
    <3>2. QED BY <2>2, <3>1
  <2>4. QED BY <2>3
<1>4. iter = [t \in SUBSET (1 .. n) |-> turn(iter, t)]
  BY <1>1, <1>3
<1>5. \A t \in SUBSET (1 .. n) : iter[t] = turn(iter, t)
  <2> HIDE DEF turn, iter
  <2>1. QED BY <1>4
<1> HIDE DEF iter
<1>6. Iterates(iter, S, base, n, step)
  <2>1. iter[{}] = base
    BY <1>5
  <2>2. ASSUME NEW t \in SUBSET (1 .. n), t # {}, iter[t \ {Max(t)}] \in S
        PROVE  iter[t] = step[<<Max(t), iter[t \ {Max(t)}]>>]
    <3>1. Max(t) \in 1 .. n
      BY <1>1, <2>2, LastIn
    <3>2. QED BY <1>5, <2>2, <3>1
  <2>3. QED BY <2>1, <2>2 DEF Iterates
<1>7. PICK f : Trace(f, S, base, n, step) /\ iter[1 .. n] = f[n]
  <2> HIDE DEF step
  <2>1. HasTrace(iter, S, base, n, step)
    BY <1>1, <1>2, <1>6, TraceOf
  <2>2. QED BY <2>1 DEF HasTrace
<1>8. ASSUME NEW k \in 1 .. n PROVE f[k]
      = (f[k - 1] + (IF s[k].kind = "message" THEN 1 + Delimited(FlatSize(s[k].val))
      ELSE FlatSize(<<s[k]>>)))
  <2>1. k - 1 \in 0 .. n
    BY <1>1
  <2>2. <<k, f[k - 1]>> \in (1 .. n) \X S
    BY <1>7, <2>1 DEF Trace
  <2>3. QED BY <1>7, <2>2 DEF Trace
<1>9. QED BY <1>1, <1>a, <1>7, <1>8 DEF WireSizeRuns, Trace, n, base

\* StringsSize, one text after the other.
StringsSizeRuns(s, S) ==
  \E f : /\ f \in [0 .. Len(s) -> S] /\ f[0] = 0
         /\ \A k \in 1 .. Len(s) : f[k] = (f[k - 1] + 1 + Delimited(Len(s[k])))
         /\ StringsSize(s) = f[Len(s)]

\* StringsSize is the last of a row of sums.
LEMMA StringsSizeSteps ==
  ASSUME NEW C, NEW s \in Seq(C), NEW S, 0 \in S
  PROVE  (\A k \in 1 .. Len(s) : \A x \in S : (x + 1 + Delimited(Len(s[k]))) \in S)
         => StringsSizeRuns(s, S)
<1>0. SUFFICES ASSUME \A k \in 1 .. Len(s) : \A x \in S : (x + 1 + Delimited(Len(s[k]))) \in S
      PROVE  StringsSizeRuns(s, S)
  OBVIOUS
<1> DEFINE n == Len(s)
           base == 0
           step == [p \in (1 .. n) \X S |-> (p[2] + 1 + Delimited(Len(s[p[1]])))]
           turn(f, t) == IF t = {} THEN base
                         ELSE (f[t \ {Max(t)}] + 1 + Delimited(Len(s[Max(t)])))
           iter == CHOOSE iter : iter = [t \in SUBSET DOMAIN s |-> turn(iter, t)]
<1>1. DOMAIN s = 1 .. n /\ n \in Nat
  OBVIOUS
<1>a. StringsSize(s) = iter[DOMAIN s]
  BY DEF StringsSize, FoldLeft, MapThenFoldSet
<1>2. step \in [(1 .. n) \X S -> S] /\ base \in S
  BY <1>0
<1> HIDE DEF n, base
<1>3. \E h : h = [t \in SUBSET (1 .. n) |-> turn(h, t)]
  <2>1. PICK h : Folded(S, base, n, step, h)
    <3> HIDE DEF step
    <3>1. QED BY <1>1, <1>2, FoldIs
  <2> DEFINE g == [t \in SUBSET (1 .. n) |-> h[t]]
  <2>2. ASSUME NEW t \in SUBSET (1 .. n) PROVE g[t] = turn(g, t)
    BY <2>1 DEF Folded
  <2>3. g = [t \in SUBSET (1 .. n) |-> turn(g, t)]
    <3>1. g = [t \in SUBSET (1 .. n) |-> g[t]]
      OBVIOUS
    <3> HIDE DEF turn, g
    <3>2. QED BY <2>2, <3>1
  <2>4. QED BY <2>3
<1>4. iter = [t \in SUBSET (1 .. n) |-> turn(iter, t)]
  BY <1>1, <1>3
<1>5. \A t \in SUBSET (1 .. n) : iter[t] = turn(iter, t)
  <2> HIDE DEF turn, iter
  <2>1. QED BY <1>4
<1> HIDE DEF iter
<1>6. Iterates(iter, S, base, n, step)
  <2>1. iter[{}] = base
    BY <1>5
  <2>2. ASSUME NEW t \in SUBSET (1 .. n), t # {}, iter[t \ {Max(t)}] \in S
        PROVE  iter[t] = step[<<Max(t), iter[t \ {Max(t)}]>>]
    <3>1. Max(t) \in 1 .. n
      BY <1>1, <2>2, LastIn
    <3>2. QED BY <1>5, <2>2, <3>1
  <2>3. QED BY <2>1, <2>2 DEF Iterates
<1>7. PICK f : Trace(f, S, base, n, step) /\ iter[1 .. n] = f[n]
  <2> HIDE DEF step
  <2>1. HasTrace(iter, S, base, n, step)
    BY <1>1, <1>2, <1>6, TraceOf
  <2>2. QED BY <2>1 DEF HasTrace
<1>8. ASSUME NEW k \in 1 .. n PROVE f[k] = (f[k - 1] + 1 + Delimited(Len(s[k])))
  <2>1. k - 1 \in 0 .. n
    BY <1>1
  <2>2. <<k, f[k - 1]>> \in (1 .. n) \X S
    BY <1>7, <2>1 DEF Trace
  <2>3. QED BY <1>7, <2>2 DEF Trace
<1>9. QED BY <1>1, <1>a, <1>7, <1>8 DEF StringsSizeRuns, Trace, n, base

\* LogTextsSize, one LogText after the other.
LogTextsSizeRuns(s, S) ==
  \E f : /\ f \in [0 .. Len(s) -> S] /\ f[0] = 0
         /\ \A k \in 1 .. Len(s) : f[k] = (f[k - 1] + 1 + Delimited(LogText_ByteSize(s[k])))
         /\ LogTextsSize(s) = f[Len(s)]

\* LogTextsSize is the last of a row of sums.
LEMMA LogTextsSizeSteps ==
  ASSUME NEW C, NEW s \in Seq(C), NEW S, 0 \in S
  PROVE  (\A k \in 1 .. Len(s) : \A x \in S : (x + 1 + Delimited(LogText_ByteSize(s[k]))) \in S)
         => LogTextsSizeRuns(s, S)
<1>0. SUFFICES ASSUME \A k \in 1 .. Len(s) : \A x \in S :
      (x + 1 + Delimited(LogText_ByteSize(s[k]))) \in S
      PROVE  LogTextsSizeRuns(s, S)
  OBVIOUS
<1> DEFINE n == Len(s)
           base == 0
           step == [p \in (1 .. n) \X S |-> (p[2] + 1 + Delimited(LogText_ByteSize(s[p[1]])))]
           turn(f, t) == IF t = {} THEN base
                         ELSE (f[t \ {Max(t)}] + 1 + Delimited(LogText_ByteSize(s[Max(t)])))
           iter == CHOOSE iter : iter = [t \in SUBSET DOMAIN s |-> turn(iter, t)]
<1>1. DOMAIN s = 1 .. n /\ n \in Nat
  OBVIOUS
<1>a. LogTextsSize(s) = iter[DOMAIN s]
  BY DEF LogTextsSize, FoldLeft, MapThenFoldSet
<1>2. step \in [(1 .. n) \X S -> S] /\ base \in S
  BY <1>0
<1> HIDE DEF n, base
<1>3. \E h : h = [t \in SUBSET (1 .. n) |-> turn(h, t)]
  <2>1. PICK h : Folded(S, base, n, step, h)
    <3> HIDE DEF step
    <3>1. QED BY <1>1, <1>2, FoldIs
  <2> DEFINE g == [t \in SUBSET (1 .. n) |-> h[t]]
  <2>2. ASSUME NEW t \in SUBSET (1 .. n) PROVE g[t] = turn(g, t)
    BY <2>1 DEF Folded
  <2>3. g = [t \in SUBSET (1 .. n) |-> turn(g, t)]
    <3>1. g = [t \in SUBSET (1 .. n) |-> g[t]]
      OBVIOUS
    <3> HIDE DEF turn, g
    <3>2. QED BY <2>2, <3>1
  <2>4. QED BY <2>3
<1>4. iter = [t \in SUBSET (1 .. n) |-> turn(iter, t)]
  BY <1>1, <1>3
<1>5. \A t \in SUBSET (1 .. n) : iter[t] = turn(iter, t)
  <2> HIDE DEF turn, iter
  <2>1. QED BY <1>4
<1> HIDE DEF iter
<1>6. Iterates(iter, S, base, n, step)
  <2>1. iter[{}] = base
    BY <1>5
  <2>2. ASSUME NEW t \in SUBSET (1 .. n), t # {}, iter[t \ {Max(t)}] \in S
        PROVE  iter[t] = step[<<Max(t), iter[t \ {Max(t)}]>>]
    <3>1. Max(t) \in 1 .. n
      BY <1>1, <2>2, LastIn
    <3>2. QED BY <1>5, <2>2, <3>1
  <2>3. QED BY <2>1, <2>2 DEF Iterates
<1>7. PICK f : Trace(f, S, base, n, step) /\ iter[1 .. n] = f[n]
  <2> HIDE DEF step
  <2>1. HasTrace(iter, S, base, n, step)
    BY <1>1, <1>2, <1>6, TraceOf
  <2>2. QED BY <2>1 DEF HasTrace
<1>8. ASSUME NEW k \in 1 .. n PROVE f[k] = (f[k - 1] + 1 + Delimited(LogText_ByteSize(s[k])))
  <2>1. k - 1 \in 0 .. n
    BY <1>1
  <2>2. <<k, f[k - 1]>> \in (1 .. n) \X S
    BY <1>7, <2>1 DEF Trace
  <2>3. QED BY <1>7, <2>2 DEF Trace
<1>9. QED BY <1>1, <1>a, <1>7, <1>8 DEF LogTextsSizeRuns, Trace, n, base

----------------------------------------------------------------------------
(* Lengths *)

\* total is the sum of the n costs.
Totals(c, n, total) ==
  \E f : /\ f \in [0 .. n -> Nat] /\ f[0] = 0
         /\ \A k \in 1 .. n : c[k] \in Nat /\ f[k] = f[k - 1] + c[k]
         /\ total = f[n]

\* Costs add up to a natural number.
LEMMA TotalIsNat ==
  ASSUME NEW c, NEW n \in Nat, NEW a, Totals(c, n, a)
  PROVE  a \in Nat
<1>1. n \in 0 .. n
  OBVIOUS
<1>2. QED BY <1>1 DEF Totals

\* The costs decide their sum.
LEMMA OneTotal ==
  ASSUME NEW n \in Nat, NEW c, NEW d, \A k \in 1 .. n : c[k] = d[k],
         NEW a, NEW b, Totals(c, n, a), Totals(d, n, b)
  PROVE  a = b
<1>1. PICK f : /\ f \in [0 .. n -> Nat] /\ f[0] = 0 /\ a = f[n]
               /\ \A k \in 1 .. n : c[k] \in Nat /\ f[k] = f[k - 1] + c[k]
  BY DEF Totals
<1>2. PICK g : /\ g \in [0 .. n -> Nat] /\ g[0] = 0 /\ b = g[n]
               /\ \A k \in 1 .. n : d[k] \in Nat /\ g[k] = g[k - 1] + d[k]
  BY DEF Totals
<1> DEFINE P == [k \in 0 .. n |-> {g[k]}]
<1>3. \A k \in 0 .. n : P[k] = {g[k]}
  OBVIOUS
<1> HIDE DEF P
<1>4. f[0] \in P[0]
  BY <1>1, <1>2, <1>3
<1>5. ASSUME NEW k \in 1 .. n, f[k - 1] \in P[k - 1] PROVE f[k] \in P[k]
  <2>1. k - 1 \in 0 .. n /\ k \in 0 .. n
    OBVIOUS
  <2>2. f[k - 1] = g[k - 1]
    BY <1>3, <1>5, <2>1
  <2>3. f[k] = g[k]
    BY <1>1, <1>2, <2>2
  <2>4. QED BY <1>3, <2>1, <2>3
<1>6. \A k \in 0 .. n : f[k] \in P[k]
  BY <1>4, <1>5, Reaches
<1>7. f[n] = g[n]
  <2>1. n \in 0 .. n
    OBVIOUS
  <2>2. QED BY <1>3, <1>6, <2>1
<1>8. QED BY <1>1, <1>2, <1>7

\* One list of costs after another.
LEMMA TotalsJoin ==
  ASSUME NEW n \in Nat, NEW m \in Nat, NEW c, NEW d, NEW e,
         \A k \in 1 .. n : e[k] = c[k], \A k \in 1 .. m : e[n + k] = d[k],
         NEW a, NEW b, Totals(c, n, a), Totals(d, m, b)
  PROVE  Totals(e, n + m, a + b)
<1>1. PICK f : /\ f \in [0 .. n -> Nat] /\ f[0] = 0 /\ a = f[n]
               /\ \A k \in 1 .. n : c[k] \in Nat /\ f[k] = f[k - 1] + c[k]
  BY DEF Totals
<1>2. PICK g : /\ g \in [0 .. m -> Nat] /\ g[0] = 0 /\ b = g[m]
               /\ \A k \in 1 .. m : d[k] \in Nat /\ g[k] = g[k - 1] + d[k]
  BY DEF Totals
<1> DEFINE h == [k \in 0 .. n + m |-> IF k <= n THEN f[k] ELSE f[n] + g[k - n]]
<1>3. n \in 0 .. n /\ m \in 0 .. m /\ 0 \in 0 .. m
  OBVIOUS
<1>4. h \in [0 .. n + m -> Nat] /\ h[0] = 0
  <2>1. ASSUME NEW k \in 0 .. n + m PROVE h[k] \in Nat
    <3>1. CASE k <= n
      <4>1. k \in 0 .. n
        BY <3>1
      <4>2. QED BY <1>1, <3>1, <4>1
    <3>2. CASE ~(k <= n)
      <4>1. k - n \in 0 .. m
        BY <3>2
      <4>2. QED BY <1>1, <1>2, <1>3, <3>2, <4>1
    <3>3. QED BY <3>1, <3>2
  <2>2. h[0] = 0
    BY <1>1
  <2>3. QED BY <2>1, <2>2
<1>5. ASSUME NEW k \in 1 .. n + m PROVE e[k] \in Nat /\ h[k] = h[k - 1] + e[k]
  <2>1. k \in 0 .. n + m /\ k - 1 \in 0 .. n + m
    OBVIOUS
  <2>2. CASE k <= n
    <3>1. h[k] = f[k] /\ h[k - 1] = f[k - 1] /\ k \in 1 .. n
      BY <2>1, <2>2
    <3>2. QED BY <1>1, <3>1
  <2>3. CASE k = n + 1
    <3>1. h[k] = f[n] + g[1] /\ h[k - 1] = f[n] /\ 1 \in 1 .. m
      BY <2>1, <2>3
    <3>2. e[k] = d[1] /\ d[1] \in Nat /\ g[1] = g[0] + d[1] /\ g[1] \in Nat /\ f[n] \in Nat
      <4>1. 1 \in 0 .. m /\ 1 - 1 = 0
        BY <3>1
      <4>2. QED BY <1>1, <1>2, <1>3, <2>3, <3>1, <4>1
    <3>3. g[1] = d[1]
      <4>1. 1 - 1 = 0
        OBVIOUS
      <4>2. g[0] = 0
        BY <1>2
      <4>3. QED BY <1>2, <3>2, <4>1, <4>2
    <3>4. QED BY <3>1, <3>2, <3>3
  <2>4. CASE k > n + 1
    <3> DEFINE j == k - n
    <3>1. j \in 1 .. m /\ j - 1 \in 0 .. m /\ j \in 0 .. m /\ k = n + j
          /\ (k - 1) - n = j - 1
      BY <2>4
    <3>2. h[k] = f[n] + g[j] /\ h[k - 1] = f[n] + g[j - 1]
      BY <2>1, <2>4, <3>1
    <3> HIDE DEF j, h
    <3>3. d[j] \in Nat /\ g[j] = g[j - 1] + d[j] /\ g[j] \in Nat /\ g[j - 1] \in Nat /\ f[n] \in Nat
      BY <1>1, <1>2, <1>3, <3>1
    <3>4. e[k] = d[j]
      BY <3>1
    <3>5. QED BY <3>2, <3>3, <3>4
  <2>5. QED BY <2>2, <2>3, <2>4
<1>6. a + b = h[n + m]
  <2>1. n + m \in 0 .. n + m
    OBVIOUS
  <2>2. CASE m = 0
    <3>1. b = 0 /\ n + m = n /\ a \in Nat
      BY <1>1, <1>2, <1>3, <2>2
    <3>2. QED BY <1>1, <2>1, <3>1
  <2>3. CASE m # 0
    <3>1. ~(n + m <= n) /\ (n + m) - n = m
      BY <2>3
    <3>2. QED BY <1>1, <1>2, <2>1, <3>1
  <2>4. QED BY <2>2, <2>3
<1> HIDE DEF h
<1>7. QED BY <1>4, <1>5, <1>6 DEF Totals

\* Sizes of varints and of texts are natural numbers.
LEMMA VarintSizeIs ==
  /\ \A u : VarintSize(u) \in Nat
  /\ \A n \in Nat : Delimited(n) \in Nat
<1>1. ASSUME NEW u PROVE VarintSize(u) \in Nat
  <2> DEFINE T == {k \in 1 .. 9 : u >= Group ^ k}
  <2>0. 1 \in Int /\ 9 \in Int
    OBVIOUS
  <2>1. IsFiniteSet(1 .. 9) /\ T \in SUBSET (1 .. 9)
    BY <2>0, FS_Interval
  <2> HIDE DEF T
  <2>2. Cardinality(T) \in Nat
    BY <2>1, FS_Subset, FS_CardinalityType
  <2>3. VarintSize(u) = 1 + Cardinality(T)
    BY DEF VarintSize, T
  <2>4. QED BY <2>2, <2>3
<1>2. QED BY <1>1 DEF Delimited

FlatCost(t) ==
  1 + (IF t.kind = "varint" THEN VarintSize(t.val) ELSE Delimited(Len(t.val)))

\* The cost of a flat token is a natural number.
LEMMA FlatCostIs ==
  ASSUME NEW t \in Token
  PROVE  /\ (IF t.kind = "varint" THEN VarintSize(t.val) ELSE Delimited(Len(t.val))) \in Nat
         /\ FlatCost(t) \in Nat
<1>1. CASE t.kind = "varint"
  BY <1>1, VarintSizeIs DEF FlatCost
<1>2. CASE t.kind = "text" /\ t.val \in Seq(Byte)
  <2>1. Len(t.val) \in Nat
    BY <1>2
  <2>2. Delimited(Len(t.val)) \in Nat
    BY <2>1, VarintSizeIs
  <2>3. QED BY <1>2, <2>2 DEF FlatCost
<1>3. QED BY <1>1, <1>2, TokenIs

FlatCosts(s) == [k \in 1 .. Len(s) |-> FlatCost(s[k])]

\* FlatSize adds up the costs of its tokens.
LEMMA FlatTotals ==
  ASSUME NEW s \in Seq(Token)
  PROVE  Totals(FlatCosts(s), Len(s), FlatSize(s))
<1>1. Len(s) \in Nat /\ \A k \in 1 .. Len(s) : s[k] \in Token
  OBVIOUS
<1> DEFINE v(t) == IF t.kind = "varint" THEN VarintSize(t.val) ELSE Delimited(Len(t.val))
<1>2. \A k \in 1 .. Len(s) : v(s[k]) \in Nat /\ FlatCost(s[k]) = 1 + v(s[k])
  BY <1>1, FlatCostIs DEF FlatCost
<1>3. \A k \in 1 .. Len(s) : \A x \in Nat : (x + 1 + v(s[k])) \in Nat
  <2> HIDE DEF v
  <2>1. QED BY <1>2
<1>4. FlatSizeRuns(s, Nat)
  <2>1. 0 \in Nat
    OBVIOUS
  <2>2. QED BY <1>3, <2>1, FlatSizeSteps
<1>5. PICK f : /\ f \in [0 .. Len(s) -> Nat] /\ f[0] = 0
               /\ \A k \in 1 .. Len(s) : f[k] = (f[k - 1] + 1 + v(s[k]))
               /\ FlatSize(s) = f[Len(s)]
  BY <1>4 DEF FlatSizeRuns
<1> HIDE DEF v
<1>6. \A k \in 1 .. Len(s) : /\ FlatCosts(s)[k] = 1 + v(s[k]) /\ FlatCosts(s)[k] \in Nat
                             /\ v(s[k]) \in Nat
  BY <1>2 DEF FlatCosts
<1>7. \A k \in 1 .. Len(s) : f[k] = f[k - 1] + FlatCosts(s)[k]
  <2>1. ASSUME NEW k \in 1 .. Len(s) PROVE f[k] = f[k - 1] + FlatCosts(s)[k]
    <3>1. k - 1 \in 0 .. Len(s)
      BY <1>1
    <3>2. f[k - 1] \in Nat
      BY <1>5, <3>1
    <3>3. f[k] = (f[k - 1] + 1 + v(s[k]))
      BY <1>5
    <3>4. FlatCosts(s)[k] = 1 + v(s[k]) /\ v(s[k]) \in Nat
      BY <1>6
    <3>5. QED BY <3>2, <3>3, <3>4
  <2>2. QED BY <2>1
<1>8. QED BY <1>5, <1>6, <1>7 DEF Totals

\* FlatSize of one token is its cost.
LEMMA FlatOne ==
  ASSUME NEW t \in Token
  PROVE  FlatSize(<<t>>) = FlatCost(t)
<1>1. <<t>> \in Seq(Token) /\ Len(<<t>>) = 1 /\ <<t>>[1] = t
  OBVIOUS
<1>2. Totals(FlatCosts(<<t>>), 1, FlatSize(<<t>>)) /\ FlatCosts(<<t>>)[1] = FlatCost(t)
  <2>1. Totals(FlatCosts(<<t>>), Len(<<t>>), FlatSize(<<t>>))
    BY <1>1, FlatTotals
  <2>2. 1 \in 1 .. Len(<<t>>)
    BY <1>1
  <2>3. FlatCosts(<<t>>)[1] = FlatCost(<<t>>[1])
    BY <2>2 DEF FlatCosts
  <2>4. QED BY <1>1, <2>1, <2>3
<1>3. PICK f : /\ f[0] = 0 /\ FlatSize(<<t>>) = f[1]
               /\ f[1] = f[1 - 1] + FlatCosts(<<t>>)[1]
  BY <1>2 DEF Totals
<1>4. FlatCost(t) \in Nat /\ 1 - 1 = 0
  BY FlatCostIs
<1>5. QED BY <1>2, <1>3, <1>4

Wired == Token \cup MessageToken
Cost(t) == IF t.kind = "message" THEN 1 + Delimited(FlatSize(t.val)) ELSE FlatSize(<<t>>)
Costs(s) == [k \in 1 .. Len(s) |-> Cost(s[k])]

\* FlatSize is a natural number.
LEMMA FlatSizeIs ==
  ASSUME NEW s \in Seq(Token)
  PROVE  FlatSize(s) \in Nat
<1>1. Len(s) \in Nat
  OBVIOUS
<1>2. QED BY <1>1, FlatTotals, TotalIsNat

\* The cost of a token, flat or not.
LEMMA CostIs ==
  /\ \A t \in Token : Cost(t) = FlatCost(t)
  /\ \A t \in Wired : Cost(t) \in Nat
<1>1. ASSUME NEW t \in Token PROVE Cost(t) = FlatCost(t)
  BY TokenIs, FlatOne DEF Cost
<1>2. ASSUME NEW t \in MessageToken PROVE Cost(t) \in Nat
  <2>1. FlatSize(t.val) \in Nat
    BY TokenIs, FlatSizeIs
  <2>2. Delimited(FlatSize(t.val)) \in Nat
    BY <2>1, VarintSizeIs
  <2>3. QED BY <2>2, TokenIs DEF Cost
<1>3. QED BY <1>1, <1>2, FlatCostIs DEF Wired

\* WireSize adds up the costs of its tokens.
LEMMA WireTotals ==
  ASSUME NEW s \in Seq(Wired)
  PROVE  Totals(Costs(s), Len(s), WireSize(s))
<1>1. Len(s) \in Nat /\ \A k \in 1 .. Len(s) : Cost(s[k]) \in Nat
  BY CostIs
<1>2. \A k \in 1 .. Len(s) : \A x \in Nat : (x + Cost(s[k])) \in Nat
  BY <1>1
<1>3. WireSizeRuns(s, Nat)
  <2>1. 0 \in Nat
    OBVIOUS
  <2>2. QED BY <1>2, <2>1, WireSizeSteps DEF Cost
<1>4. PICK f : /\ f \in [0 .. Len(s) -> Nat] /\ f[0] = 0
               /\ \A k \in 1 .. Len(s) : f[k] = (f[k - 1] + Cost(s[k]))
               /\ WireSize(s) = f[Len(s)]
  BY <1>3 DEF WireSizeRuns, Cost
<1>5. QED BY <1>1, <1>4 DEF Totals, Costs

\* The length of a wire is that of its parts.
Sized(w, n) == w \in Seq(Wired) /\ WireSize(w) = n

\* Sizes of parts of a wire add up.
LEMMA SizedJoin ==
  ASSUME NEW w, NEW v, NEW a, NEW b, Sized(w, a), Sized(v, b)
  PROVE  Sized(w \o v, a + b)
<1>1. w \in Seq(Wired) /\ v \in Seq(Wired) /\ w \o v \in Seq(Wired)
  BY DEF Sized
<1>2. /\ Len(w) \in Nat /\ Len(v) \in Nat /\ Len(w \o v) = Len(w) + Len(v)
      /\ \A k \in 1 .. Len(w) : (w \o v)[k] = w[k]
      /\ \A k \in 1 .. Len(v) : (w \o v)[Len(w) + k] = v[k]
  BY <1>1
<1>3. /\ Totals(Costs(w), Len(w), a) /\ Totals(Costs(v), Len(v), b)
      /\ Totals(Costs(w \o v), Len(w) + Len(v), WireSize(w \o v))
  BY <1>1, <1>2, WireTotals DEF Sized
<1>4. /\ \A k \in 1 .. Len(w) : Costs(w \o v)[k] = Costs(w)[k]
      /\ \A k \in 1 .. Len(v) : Costs(w \o v)[Len(w) + k] = Costs(v)[k]
  <2>1. ASSUME NEW k \in 1 .. Len(w) PROVE Costs(w \o v)[k] = Costs(w)[k]
    <3>1. k \in 1 .. Len(w \o v) /\ (w \o v)[k] = w[k]
      BY <1>2
    <3>2. QED BY <3>1 DEF Costs
  <2>2. ASSUME NEW k \in 1 .. Len(v) PROVE Costs(w \o v)[Len(w) + k] = Costs(v)[k]
    <3>1. Len(w) + k \in 1 .. Len(w \o v) /\ (w \o v)[Len(w) + k] = v[k]
      BY <1>2
    <3>2. QED BY <3>1 DEF Costs
  <2>3. QED BY <2>1, <2>2
<1> DEFINE e == Costs(w \o v)
           c == Costs(w)
           d == Costs(v)
           n == Len(w)
           m == Len(v)
           whole == WireSize(w \o v)
<1>5. /\ n \in Nat /\ m \in Nat /\ n + m \in Nat
      /\ Totals(c, n, a) /\ Totals(d, m, b) /\ Totals(e, n + m, whole)
      /\ (\A k \in 1 .. n : e[k] = c[k])
      /\ (\A k \in 1 .. m : e[n + k] = d[k])
  BY <1>2, <1>3, <1>4
<1> HIDE DEF e, c, d, n, m, whole
<1>6. Totals(e, n + m, a + b)
  BY <1>5, TotalsJoin
<1>7. whole = a + b
  BY <1>5, <1>6, OneTotal
<1>8. QED BY <1>1, <1>7 DEF Sized, whole

\* The size of unknown fields.
LEMMA SizedUnknown ==
  ASSUME NEW s \in Seq(Token)
  PROVE  Sized(s, UnknownSize(s))
<1>1. s \in Seq(Wired) /\ Len(s) \in Nat /\ \A k \in 1 .. Len(s) : s[k] \in Token
  BY DEF Wired
<1>2. \A k \in 1 .. Len(s) : Costs(s)[k] = FlatCosts(s)[k]
  BY <1>1, CostIs DEF Costs, FlatCosts
<1>3. WireSize(s) = FlatSize(s)
  BY <1>1, <1>2, WireTotals, FlatTotals, OneTotal
<1>4. QED BY <1>1, <1>3 DEF Sized, UnknownSize

\* Nothing has no size.
LEMMA SizedNothing == Sized(<< >>, 0)
<1>1. << >> \in Seq(Wired) /\ Len(<< >>) = 0
  OBVIOUS
<1>2. Totals(Costs(<< >>), 0, WireSize(<< >>))
  BY <1>1, WireTotals
<1>3. WireSize(<< >>) = 0
  BY <1>2 DEF Totals
<1>4. QED BY <1>1, <1>3 DEF Sized

\* The size of one token.
LEMMA SizedToken ==
  ASSUME NEW t \in Token
  PROVE  Sized(<<t>>, FlatCost(t))
<1>1. <<t>> \in Seq(Token)
  OBVIOUS
<1>2. QED BY <1>1, SizedUnknown, FlatOne DEF UnknownSize

\* The size of an integer field.
LEMMA SizedInt ==
  ASSUME NEW num \in Nat, NEW n \in Int
  PROVE  Sized(IntField(num, n), IntSize(n))
<1>1. CASE n = 0
  BY <1>1, SizedNothing DEF IntField, IntSize
<1>2. CASE n # 0
  <2> DEFINE t == [num |-> num, kind |-> "varint", val |-> Varint(n)]
  <2>1. t \in Token
    BY Casts DEF Token
  <2>2. FlatCost(t) = 1 + VarintSize(Varint(n))
    BY DEF FlatCost
  <2>3. IntField(num, n) = <<t>> /\ IntSize(n) = 1 + VarintSize(Varint(n))
    BY <1>2 DEF IntField, IntSize
  <2> HIDE DEF t
  <2>4. QED BY <2>1, <2>2, <2>3, SizedToken
<1>3. QED BY <1>1, <1>2

\* The cost of a text is that of its length and its bytes.
LEMMA TextCost ==
  ASSUME NEW num \in Nat, NEW text \in Seq(Byte)
  PROVE  TextToken(num, text) \in Token /\ FlatCost(TextToken(num, text)) = 1 + Delimited(Len(text))
<1>1. TextToken(num, text) \in Token
  BY DEF TextToken, Token
<1>2. QED BY <1>1 DEF TextToken, FlatCost

\* The size of a string field.
LEMMA SizedString ==
  ASSUME NEW num \in Nat, NEW text \in Seq(Byte)
  PROVE  Sized(StringField(num, text), StringSize(text))
<1>1. CASE text = << >>
  BY <1>1, SizedNothing DEF StringField, StringSize
<1>2. CASE text # << >>
  <2>1. StringField(num, text) = <<TextToken(num, text)>>
        /\ StringSize(text) = 1 + Delimited(Len(text))
    BY <1>2 DEF StringField, StringSize
  <2>2. Sized(<<TextToken(num, text)>>, FlatCost(TextToken(num, text)))
    BY TextCost, SizedToken
  <2>3. QED BY <2>1, <2>2, TextCost
<1>3. QED BY <1>1, <1>2

\* The size of repeated strings.
LEMMA SizedStrings ==
  ASSUME NEW num \in Nat, NEW texts \in Seq(Seq(Byte))
  PROVE  Sized(StringFields(num, texts), StringsSize(texts))
<1> DEFINE n == Len(texts)
           s == StringFields(num, texts)
           c == [k \in 1 .. n |-> 1 + Delimited(Len(texts[k]))]
<1>1. n \in Nat /\ DOMAIN texts = 1 .. n /\ \A k \in 1 .. n : texts[k] \in Seq(Byte)
  OBVIOUS
<1>2. \A k \in 1 .. n : Delimited(Len(texts[k])) \in Nat
  <2>1. \A k \in 1 .. n : Len(texts[k]) \in Nat
    BY <1>1
  <2>2. QED BY <2>1, VarintSizeIs
<1>3. s = [k \in 1 .. n |-> TextToken(num, texts[k])]
  BY <1>1 DEF StringFields
<1>4. \A k \in 1 .. n : s[k] \in Token /\ FlatCost(s[k]) = 1 + Delimited(Len(texts[k]))
  <2>1. \A k \in 1 .. n : s[k] = TextToken(num, texts[k])
    BY <1>3
  <2>2. QED BY <1>1, <2>1, TextCost
<1>5. s \in Seq(Token) /\ Len(s) = n
  <2>1. s \in [1 .. n -> Token]
    BY <1>3, <1>4
  <2> HIDE DEF s, n
  <2>2. QED BY <1>1, <2>1
<1>6. Totals(c, n, StringsSize(texts))
  <2>1. \A k \in 1 .. Len(texts) : \A x \in Nat : (x + 1 + Delimited(Len(texts[k]))) \in Nat
    BY <1>2
  <2>2. 0 \in Nat
    OBVIOUS
  <2>3. StringsSizeRuns(texts, Nat)
    BY <2>1, <2>2, StringsSizeSteps
  <2>4. PICK f : /\ f \in [0 .. n -> Nat] /\ f[0] = 0
                 /\ \A k \in 1 .. n : f[k] = (f[k - 1] + 1 + Delimited(Len(texts[k])))
                 /\ StringsSize(texts) = f[n]
    BY <2>3 DEF StringsSizeRuns
  <2>5. ASSUME NEW k \in 1 .. n PROVE c[k] \in Nat /\ f[k] = f[k - 1] + c[k]
    <3>1. k - 1 \in 0 .. n
      BY <1>1
    <3>2. f[k - 1] \in Nat
      BY <2>4, <3>1
    <3>3. c[k] = 1 + Delimited(Len(texts[k])) /\ Delimited(Len(texts[k])) \in Nat
      BY <1>2
    <3>4. f[k] = (f[k - 1] + 1 + Delimited(Len(texts[k])))
      BY <2>4
    <3> DEFINE d == Delimited(Len(texts[k]))
    <3>5. d \in Nat /\ c[k] = 1 + d /\ f[k] = (f[k - 1] + 1 + d)
      BY <3>3, <3>4
    <3> HIDE DEF c, d
    <3>6. c[k] \in Nat
      BY <3>5
    <3>7. \A x \in Nat : (x + 1 + d) = x + (1 + d)
      BY <3>5
    <3>8. QED BY <3>2, <3>5, <3>6, <3>7
  <2> HIDE DEF c, n
  <2>6. QED BY <2>4, <2>5 DEF Totals
<1>7. \A k \in 1 .. n : FlatCosts(s)[k] = c[k]
  BY <1>4, <1>5 DEF FlatCosts
<1>8. Totals(FlatCosts(s), n, FlatSize(s))
  BY <1>5, FlatTotals
<1> HIDE DEF c, s, n
<1>9. FlatSize(s) = StringsSize(texts)
  BY <1>1, <1>6, <1>7, <1>8, OneTotal
<1>10. Sized(s, FlatSize(s))
  BY <1>5, SizedUnknown DEF UnknownSize
<1>11. QED BY <1>9, <1>10 DEF s

\* What LogText announces is what it writes.
LEMMA LogTextSized ==
  ASSUME NEW m \in LogTextMsg
  PROVE  Sized(LogText_Serialize(m), LogText_ByteSize(m))
         /\ LogText_Serialize(m) \in Seq(Token)
<1> DEFINE w1 == StringField(1, m.ip_port)
           n1 == StringSize(m.ip_port)
           w2 == w1 \o StringField(2, m.gns_name)
           n2 == n1 + StringSize(m.gns_name)
           w3 == w2 \o StringFields(3, m.text)
           n3 == n2 + StringsSize(m.text)
<1>0. LogText_Serialize(m) = w3 \o m.unknown /\ LogText_ByteSize(m) = n3 + UnknownSize(m.unknown)
  BY DEF LogText_Serialize, LogText_ByteSize
<1>f. m.ip_port \in Seq(Byte) /\ m.gns_name \in Seq(Byte) /\ m.text \in Seq(Seq(Byte))
      /\ m.unknown \in Seq(Token)
  BY NumbersBack DEF LogTextMsg
<1>1. Sized(w1, n1)
  BY <1>f, SizedString
<1> HIDE DEF w1, n1
<1>2. Sized(w2, n2)
  <2>1. Sized(StringField(2, m.gns_name), StringSize(m.gns_name))
    BY <1>f, SizedString
  <2>2. QED BY <1>1, <2>1, SizedJoin
<1> HIDE DEF w2, n2
<1>3. Sized(w3, n3)
  <2>1. Sized(StringFields(3, m.text), StringsSize(m.text))
    BY <1>f, SizedStrings
  <2>2. QED BY <1>2, <2>1, SizedJoin
<1> HIDE DEF w3, n3
<1>4. Sized(w3 \o m.unknown, n3 + UnknownSize(m.unknown))
  <2>1. Sized(m.unknown, UnknownSize(m.unknown))
    BY <1>f, SizedUnknown
  <2>2. QED BY <1>3, <2>1, SizedJoin
<1>5. LogText_Serialize(m) \in Seq(Token)
  <2>1. StringField(1, m.ip_port) \in Seq(Token) /\ StringField(2, m.gns_name) \in Seq(Token)
    BY <1>f, TextCost DEF StringField
  <2>2. StringFields(3, m.text) \in Seq(Token)
    <3>1. DOMAIN m.text = 1 .. Len(m.text) /\ Len(m.text) \in Nat
          /\ \A k \in 1 .. Len(m.text) : TextToken(3, m.text[k]) \in Token
      BY <1>f, TextCost
    <3>2. StringFields(3, m.text) = [k \in 1 .. Len(m.text) |-> TextToken(3, m.text[k])]
      BY <3>1 DEF StringFields
    <3>3. StringFields(3, m.text) \in [1 .. Len(m.text) -> Token]
      BY <3>1, <3>2
    <3>4. QED BY <3>1, <3>3
  <2>3. QED BY <1>f, <2>1, <2>2 DEF LogText_Serialize
<1>6. QED BY <1>0, <1>4, <1>5

\* The size of repeated LogTexts.
LEMMA SizedMessages ==
  ASSUME NEW num \in Nat, NEW texts \in Seq(LogTextMsg)
  PROVE  Sized(LogTextFields(num, texts), LogTextsSize(texts))
<1> DEFINE n == Len(texts)
           s == LogTextFields(num, texts)
           c == [k \in 1 .. n |-> 1 + Delimited(LogText_ByteSize(texts[k]))]
<1>1. n \in Nat /\ DOMAIN texts = 1 .. n /\ \A k \in 1 .. n : texts[k] \in LogTextMsg
  OBVIOUS
<1>2. ASSUME NEW k \in 1 .. n
      PROVE  /\ LogText_Serialize(texts[k]) \in Seq(Token)
             /\ LogText_ByteSize(texts[k]) = FlatSize(LogText_Serialize(texts[k]))
             /\ Delimited(LogText_ByteSize(texts[k])) \in Nat
  <2>1. Sized(LogText_Serialize(texts[k]), LogText_ByteSize(texts[k]))
        /\ LogText_Serialize(texts[k]) \in Seq(Token)
    BY <1>1, LogTextSized
  <2>2. Sized(LogText_Serialize(texts[k]), FlatSize(LogText_Serialize(texts[k])))
    BY <2>1, SizedUnknown DEF UnknownSize
  <2>3. LogText_ByteSize(texts[k]) = FlatSize(LogText_Serialize(texts[k]))
    BY <2>1, <2>2 DEF Sized
  <2>4. FlatSize(LogText_Serialize(texts[k])) \in Nat
    BY <2>1, FlatSizeIs
  <2>5. QED BY <2>1, <2>3, <2>4, VarintSizeIs
<1>3. s = [k \in 1 .. n |-> [num |-> num, kind |-> "message", val |-> LogText_Serialize(texts[k])]]
  BY <1>1 DEF LogTextFields
<1>4. \A k \in 1 .. n : s[k] \in Wired /\ Cost(s[k]) = 1 + Delimited(LogText_ByteSize(texts[k]))
  <2>1. ASSUME NEW k \in 1 .. n
        PROVE  s[k] \in Wired /\ Cost(s[k]) = 1 + Delimited(LogText_ByteSize(texts[k]))
    <3> DEFINE w == LogText_Serialize(texts[k])
               t == [num |-> num, kind |-> "message", val |-> w]
    <3>1. s[k] = t
      BY <1>3
    <3>2. w \in Seq(Token) /\ LogText_ByteSize(texts[k]) = FlatSize(w)
      BY <1>2
    <3> HIDE DEF w, s
    <3>3. t \in MessageToken
      BY <3>2 DEF MessageToken
    <3>4. Cost(t) = 1 + Delimited(FlatSize(w))
      BY DEF Cost
    <3>5. QED BY <3>1, <3>2, <3>3, <3>4 DEF Wired
  <2>2. QED BY <2>1
<1>5. s \in Seq(Wired) /\ Len(s) = n
  <2>1. s \in [1 .. n -> Wired]
    BY <1>3, <1>4
  <2> HIDE DEF s, n
  <2>2. QED BY <1>1, <2>1
<1>6. Totals(c, n, LogTextsSize(texts))
  <2>1. \A k \in 1 .. Len(texts) : \A x \in Nat :
          (x + 1 + Delimited(LogText_ByteSize(texts[k]))) \in Nat
    BY <1>2
  <2>2. 0 \in Nat
    OBVIOUS
  <2>3. LogTextsSizeRuns(texts, Nat)
    BY <2>1, <2>2, LogTextsSizeSteps
  <2>4. PICK f : /\ f \in [0 .. n -> Nat] /\ f[0] = 0
                 /\ \A k \in 1 .. n : f[k] = (f[k - 1] + 1 + Delimited(LogText_ByteSize(texts[k])))
                 /\ LogTextsSize(texts) = f[n]
    BY <2>3 DEF LogTextsSizeRuns
  <2>5. ASSUME NEW k \in 1 .. n PROVE c[k] \in Nat /\ f[k] = f[k - 1] + c[k]
    <3>1. k - 1 \in 0 .. n
      BY <1>1
    <3>2. f[k - 1] \in Nat
      BY <2>4, <3>1
    <3>3. c[k] = 1 + Delimited(LogText_ByteSize(texts[k]))
          /\ Delimited(LogText_ByteSize(texts[k])) \in Nat
      BY <1>2
    <3>4. f[k] = (f[k - 1] + 1 + Delimited(LogText_ByteSize(texts[k])))
      BY <2>4
    <3> DEFINE d == Delimited(LogText_ByteSize(texts[k]))
    <3>5. d \in Nat /\ c[k] = 1 + d /\ f[k] = (f[k - 1] + 1 + d)
      BY <3>3, <3>4
    <3> HIDE DEF c, d
    <3>6. QED BY <3>2, <3>5
  <2> HIDE DEF c, n
  <2>6. QED BY <2>4, <2>5 DEF Totals
<1>7. \A k \in 1 .. n : Costs(s)[k] = c[k]
  BY <1>4, <1>5 DEF Costs
<1>8. Totals(Costs(s), n, WireSize(s))
  BY <1>5, WireTotals
<1> HIDE DEF c, s, n
<1>9. WireSize(s) = LogTextsSize(texts)
  BY <1>1, <1>6, <1>7, <1>8, OneTotal
<1>10. QED BY <1>5, <1>9 DEF Sized, s

\* What LoginReq announces is what it writes.
LEMMA LoginReqSized ==
  ASSUME NEW m \in LoginReqMsg
  PROVE  Sized(LoginReq_Serialize(m), LoginReq_ByteSize(m))
<1> DEFINE w1 == StringField(1, m.user_name)
           n1 == StringSize(m.user_name)
           w2 == w1 \o StringField(2, m.password)
           n2 == n1 + StringSize(m.password)
           w3 == w2 \o IntField(3, m.fd)
           n3 == n2 + IntSize(m.fd)
           w4 == w3 \o IntField(4, m.req_begin_time)
           n4 == n3 + IntSize(m.req_begin_time)
<1>0. LoginReq_Serialize(m) = w4 \o m.unknown /\ LoginReq_ByteSize(m) = n4 + UnknownSize(m.unknown)
  BY DEF LoginReq_Serialize, LoginReq_ByteSize
<1>f. m.user_name \in Seq(Byte) /\ m.password \in Seq(Byte) /\ m.fd \in Int /\ m.req_begin_time \in Int
      /\ m.unknown \in Seq(Token)
  BY NumbersBack DEF LoginReqMsg
<1>1. Sized(w1, n1)
  BY <1>f, SizedString
<1> HIDE DEF w1, n1
<1>2. Sized(w2, n2)
  <2>1. Sized(StringField(2, m.password), StringSize(m.password))
    BY <1>f, SizedString
  <2>2. QED BY <1>1, <2>1, SizedJoin
<1> HIDE DEF w2, n2
<1>3. Sized(w3, n3)
  <2>1. Sized(IntField(3, m.fd), IntSize(m.fd))
    BY <1>f, SizedInt
  <2>2. QED BY <1>2, <2>1, SizedJoin
<1> HIDE DEF w3, n3
<1>4. Sized(w4, n4)
  <2>1. Sized(IntField(4, m.req_begin_time), IntSize(m.req_begin_time))
    BY <1>f, SizedInt
  <2>2. QED BY <1>3, <2>1, SizedJoin
<1> HIDE DEF w4, n4
<1>5. Sized(w4 \o m.unknown, n4 + UnknownSize(m.unknown))
  <2>1. Sized(m.unknown, UnknownSize(m.unknown))
    BY <1>f, SizedUnknown
  <2>2. QED BY <1>4, <2>1, SizedJoin
<1>6. QED BY <1>0, <1>5

\* What LoginResp announces is what it writes.
LEMMA LoginRespSized ==
  ASSUME NEW m \in LoginRespMsg
  PROVE  Sized(LoginResp_Serialize(m), LoginResp_ByteSize(m))
<1> DEFINE w1 == StringField(1, m.session_id)
           n1 == StringSize(m.session_id)
           w2 == w1 \o IntField(2, m.fd)
           n2 == n1 + IntSize(m.fd)
           w3 == w2 \o IntField(3, m.req_begin_time)
           n3 == n2 + IntSize(m.req_begin_time)
           w4 == w3 \o IntField(4, m.ret)
           n4 == n3 + IntSize(m.ret)
           w5 == w4 \o StringField(5, m.ret_msg)
           n5 == n4 + StringSize(m.ret_msg)
<1>0. LoginResp_Serialize(m) = w5 \o m.unknown /\ LoginResp_ByteSize(m) = n5 + UnknownSize(m.unknown)
  BY DEF LoginResp_Serialize, LoginResp_ByteSize
<1>f. m.session_id \in Seq(Byte) /\ m.fd \in Int /\ m.req_begin_time \in Int /\ m.ret \in Int
      /\ m.ret_msg \in Seq(Byte) /\ m.unknown \in Seq(Token)
  BY NumbersBack DEF LoginRespMsg
<1>1. Sized(w1, n1)
  BY <1>f, SizedString
<1> HIDE DEF w1, n1
<1>2. Sized(w2, n2)
  <2>1. Sized(IntField(2, m.fd), IntSize(m.fd))
    BY <1>f, SizedInt
  <2>2. QED BY <1>1, <2>1, SizedJoin
<1> HIDE DEF w2, n2
<1>3. Sized(w3, n3)
  <2>1. Sized(IntField(3, m.req_begin_time), IntSize(m.req_begin_time))
    BY <1>f, SizedInt
  <2>2. QED BY <1>2, <2>1, SizedJoin
<1> HIDE DEF w3, n3
<1>4. Sized(w4, n4)
  <2>1. Sized(IntField(4, m.ret), IntSize(m.ret))
    BY <1>f, SizedInt
  <2>2. QED BY <1>3, <2>1, SizedJoin
<1> HIDE DEF w4, n4
<1>5. Sized(w5, n5)
  <2>1. Sized(StringField(5, m.ret_msg), StringSize(m.ret_msg))
    BY <1>f, SizedString
  <2>2. QED BY <1>4, <2>1, SizedJoin
<1> HIDE DEF w5, n5
<1>6. Sized(w5 \o m.unknown, n5 + UnknownSize(m.unknown))
  <2>1. Sized(m.unknown, UnknownSize(m.unknown))
    BY <1>f, SizedUnknown
  <2>2. QED BY <1>5, <2>1, SizedJoin
<1>7. QED BY <1>0, <1>6

\* What GnsInfoReq announces is what it writes.
LEMMA GnsInfoReqSized ==
  ASSUME NEW m \in GnsInfoReqMsg
  PROVE  Sized(GnsInfoReq_Serialize(m), GnsInfoReq_ByteSize(m))
<1> DEFINE w1 == StringFields(1, m.gns_name)
           n1 == StringsSize(m.gns_name)
           w2 == w1 \o StringFields(2, m.ip_port)
           n2 == n1 + StringsSize(m.ip_port)
<1>0. GnsInfoReq_Serialize(m) = w2 \o m.unknown /\ GnsInfoReq_ByteSize(m) = n2 + UnknownSize(m.unknown)
  BY DEF GnsInfoReq_Serialize, GnsInfoReq_ByteSize
<1>f. m.gns_name \in Seq(Seq(Byte)) /\ m.ip_port \in Seq(Seq(Byte)) /\ m.unknown \in Seq(Token)
  BY NumbersBack DEF GnsInfoReqMsg
<1>1. Sized(w1, n1)
  BY <1>f, SizedStrings
<1> HIDE DEF w1, n1
<1>2. Sized(w2, n2)
  <2>1. Sized(StringFields(2, m.ip_port), StringsSize(m.ip_port))
    BY <1>f, SizedStrings
  <2>2. QED BY <1>1, <2>1, SizedJoin
<1> HIDE DEF w2, n2
<1>3. Sized(w2 \o m.unknown, n2 + UnknownSize(m.unknown))
  <2>1. Sized(m.unknown, UnknownSize(m.unknown))
    BY <1>f, SizedUnknown
  <2>2. QED BY <1>2, <2>1, SizedJoin
<1>4. QED BY <1>0, <1>3

\* What CfgInfoReq announces is what it writes.
LEMMA CfgInfoReqSized ==
  ASSUME NEW m \in CfgInfoReqMsg
  PROVE  Sized(CfgInfoReq_Serialize(m), CfgInfoReq_ByteSize(m))
<1> DEFINE w1 == StringField(1, m.session_id)
           n1 == StringSize(m.session_id)
           w2 == w1 \o IntField(2, m.p1)
           n2 == n1 + IntSize(m.p1)
           w3 == w2 \o IntField(3, m.p2)
           n3 == n2 + IntSize(m.p2)
           w4 == w3 \o StringField(4, m.p3)
           n4 == n3 + StringSize(m.p3)
           w5 == w4 \o StringField(5, m.gns_name)
           n5 == n4 + StringSize(m.gns_name)
           w6 == w5 \o StringField(6, m.ip_port)
           n6 == n5 + StringSize(m.ip_port)
           w7 == w6 \o IntField(7, m.fd)
           n7 == n6 + IntSize(m.fd)
           w8 == w7 \o IntField(8, m.req_begin_time)
           n8 == n7 + IntSize(m.req_begin_time)
<1>0. CfgInfoReq_Serialize(m) = w8 \o m.unknown /\ CfgInfoReq_ByteSize(m) = n8 + UnknownSize(m.unknown)
  BY DEF CfgInfoReq_Serialize, CfgInfoReq_ByteSize
<1>f. m.session_id \in Seq(Byte) /\ m.p1 \in Int /\ m.p2 \in Int /\ m.p3 \in Seq(Byte)
      /\ m.gns_name \in Seq(Byte) /\ m.ip_port \in Seq(Byte) /\ m.fd \in Int /\ m.req_begin_time \in Int
         /\ m.unknown \in Seq(Token)
  BY NumbersBack DEF CfgInfoReqMsg
<1>1. Sized(w1, n1)
  BY <1>f, SizedString
<1> HIDE DEF w1, n1
<1>2. Sized(w2, n2)
  <2>1. Sized(IntField(2, m.p1), IntSize(m.p1))
    BY <1>f, SizedInt
  <2>2. QED BY <1>1, <2>1, SizedJoin
<1> HIDE DEF w2, n2
<1>3. Sized(w3, n3)
  <2>1. Sized(IntField(3, m.p2), IntSize(m.p2))
    BY <1>f, SizedInt
  <2>2. QED BY <1>2, <2>1, SizedJoin
<1> HIDE DEF w3, n3
<1>4. Sized(w4, n4)
  <2>1. Sized(StringField(4, m.p3), StringSize(m.p3))
    BY <1>f, SizedString
  <2>2. QED BY <1>3, <2>1, SizedJoin
<1> HIDE DEF w4, n4
<1>5. Sized(w5, n5)
  <2>1. Sized(StringField(5, m.gns_name), StringSize(m.gns_name))
    BY <1>f, SizedString
  <2>2. QED BY <1>4, <2>1, SizedJoin
<1> HIDE DEF w5, n5
<1>6. Sized(w6, n6)
  <2>1. Sized(StringField(6, m.ip_port), StringSize(m.ip_port))
    BY <1>f, SizedString
  <2>2. QED BY <1>5, <2>1, SizedJoin
<1> HIDE DEF w6, n6
<1>7. Sized(w7, n7)
  <2>1. Sized(IntField(7, m.fd), IntSize(m.fd))
    BY <1>f, SizedInt
  <2>2. QED BY <1>6, <2>1, SizedJoin
<1> HIDE DEF w7, n7
<1>8. Sized(w8, n8)
  <2>1. Sized(IntField(8, m.req_begin_time), IntSize(m.req_begin_time))
    BY <1>f, SizedInt
  <2>2. QED BY <1>7, <2>1, SizedJoin
<1> HIDE DEF w8, n8
<1>9. Sized(w8 \o m.unknown, n8 + UnknownSize(m.unknown))
  <2>1. Sized(m.unknown, UnknownSize(m.unknown))
    BY <1>f, SizedUnknown
  <2>2. QED BY <1>8, <2>1, SizedJoin
<1>10. QED BY <1>0, <1>9

\* What CfgInfoResp announces is what it writes.
LEMMA CfgInfoRespSized ==
  ASSUME NEW m \in CfgInfoRespMsg
  PROVE  Sized(CfgInfoResp_Serialize(m), CfgInfoResp_ByteSize(m))
<1> DEFINE w1 == IntField(1, m.ret)
           n1 == IntSize(m.ret)
           w2 == w1 \o StringField(2, m.ret_msg)
           n2 == n1 + StringSize(m.ret_msg)
           w3 == w2 \o IntField(3, m.fd)
           n3 == n2 + IntSize(m.fd)
           w4 == w3 \o IntField(4, m.req_begin_time)
           n4 == n3 + IntSize(m.req_begin_time)
<1>0. CfgInfoResp_Serialize(m) = w4 \o m.unknown /\ CfgInfoResp_ByteSize(m)
      = n4 + UnknownSize(m.unknown)
  BY DEF CfgInfoResp_Serialize, CfgInfoResp_ByteSize
<1>f. m.ret \in Int /\ m.ret_msg \in Seq(Byte) /\ m.fd \in Int /\ m.req_begin_time \in Int
      /\ m.unknown \in Seq(Token)
  BY NumbersBack DEF CfgInfoRespMsg
<1>1. Sized(w1, n1)
  BY <1>f, SizedInt
<1> HIDE DEF w1, n1
<1>2. Sized(w2, n2)
  <2>1. Sized(StringField(2, m.ret_msg), StringSize(m.ret_msg))
    BY <1>f, SizedString
  <2>2. QED BY <1>1, <2>1, SizedJoin
<1> HIDE DEF w2, n2
<1>3. Sized(w3, n3)
  <2>1. Sized(IntField(3, m.fd), IntSize(m.fd))
    BY <1>f, SizedInt
  <2>2. QED BY <1>2, <2>1, SizedJoin
<1> HIDE DEF w3, n3
<1>4. Sized(w4, n4)
  <2>1. Sized(IntField(4, m.req_begin_time), IntSize(m.req_begin_time))
    BY <1>f, SizedInt
  <2>2. QED BY <1>3, <2>1, SizedJoin
<1> HIDE DEF w4, n4
<1>5. Sized(w4 \o m.unknown, n4 + UnknownSize(m.unknown))
  <2>1. Sized(m.unknown, UnknownSize(m.unknown))
    BY <1>f, SizedUnknown
  <2>2. QED BY <1>4, <2>1, SizedJoin
<1>6. QED BY <1>0, <1>5

\* What LogInfo announces is what it writes.
LEMMA LogInfoSized ==
  ASSUME NEW m \in LogInfoMsg
  PROVE  Sized(LogInfo_Serialize(m), LogInfo_ByteSize(m))
<1> DEFINE w1 == StringField(1, m.gns_name)
           n1 == StringSize(m.gns_name)
           w2 == w1 \o StringField(2, m.ip_port)
           n2 == n1 + StringSize(m.ip_port)
           w3 == w2 \o StringField(3, m.session_id)
           n3 == n2 + StringSize(m.session_id)
           w4 == w3 \o StringField(4, m.log_text)
           n4 == n3 + StringSize(m.log_text)
<1>0. LogInfo_Serialize(m) = w4 \o m.unknown /\ LogInfo_ByteSize(m) = n4 + UnknownSize(m.unknown)
  BY DEF LogInfo_Serialize, LogInfo_ByteSize
<1>f. m.gns_name \in Seq(Byte) /\ m.ip_port \in Seq(Byte) /\ m.session_id \in Seq(Byte)
      /\ m.log_text \in Seq(Byte) /\ m.unknown \in Seq(Token)
  BY NumbersBack DEF LogInfoMsg
<1>1. Sized(w1, n1)
  BY <1>f, SizedString
<1> HIDE DEF w1, n1
<1>2. Sized(w2, n2)
  <2>1. Sized(StringField(2, m.ip_port), StringSize(m.ip_port))
    BY <1>f, SizedString
  <2>2. QED BY <1>1, <2>1, SizedJoin
<1> HIDE DEF w2, n2
<1>3. Sized(w3, n3)
  <2>1. Sized(StringField(3, m.session_id), StringSize(m.session_id))
    BY <1>f, SizedString
  <2>2. QED BY <1>2, <2>1, SizedJoin
<1> HIDE DEF w3, n3
<1>4. Sized(w4, n4)
  <2>1. Sized(StringField(4, m.log_text), StringSize(m.log_text))
    BY <1>f, SizedString
  <2>2. QED BY <1>3, <2>1, SizedJoin
<1> HIDE DEF w4, n4
<1>5. Sized(w4 \o m.unknown, n4 + UnknownSize(m.unknown))
  <2>1. Sized(m.unknown, UnknownSize(m.unknown))
    BY <1>f, SizedUnknown
  <2>2. QED BY <1>4, <2>1, SizedJoin
<1>6. QED BY <1>0, <1>5

\* What GetLogReq announces is what it writes.
LEMMA GetLogReqSized ==
  ASSUME NEW m \in GetLogReqMsg
  PROVE  Sized(GetLogReq_Serialize(m), GetLogReq_ByteSize(m))
<1> DEFINE w1 == StringField(1, m.session_id)
           n1 == StringSize(m.session_id)
           w2 == w1 \o StringField(2, m.gns_name)
           n2 == n1 + StringSize(m.gns_name)
           w3 == w2 \o StringField(3, m.ip_port)
           n3 == n2 + StringSize(m.ip_port)
           w4 == w3 \o IntField(4, m.seq)
           n4 == n3 + IntSize(m.seq)
           w5 == w4 \o IntField(5, m.fd)
           n5 == n4 + IntSize(m.fd)
           w6 == w5 \o IntField(6, m.req_begin_time)
           n6 == n5 + IntSize(m.req_begin_time)
<1>0. GetLogReq_Serialize(m) = w6 \o m.unknown /\ GetLogReq_ByteSize(m) = n6 + UnknownSize(m.unknown)
  BY DEF GetLogReq_Serialize, GetLogReq_ByteSize
<1>f. m.session_id \in Seq(Byte) /\ m.gns_name \in Seq(Byte) /\ m.ip_port \in Seq(Byte) /\ m.seq \in Int
      /\ m.fd \in Int /\ m.req_begin_time \in Int /\ m.unknown \in Seq(Token)
  BY NumbersBack DEF GetLogReqMsg
<1>1. Sized(w1, n1)
  BY <1>f, SizedString
<1> HIDE DEF w1, n1
<1>2. Sized(w2, n2)
  <2>1. Sized(StringField(2, m.gns_name), StringSize(m.gns_name))
    BY <1>f, SizedString
  <2>2. QED BY <1>1, <2>1, SizedJoin
<1> HIDE DEF w2, n2
<1>3. Sized(w3, n3)
  <2>1. Sized(StringField(3, m.ip_port), StringSize(m.ip_port))
    BY <1>f, SizedString
  <2>2. QED BY <1>2, <2>1, SizedJoin
<1> HIDE DEF w3, n3
<1>4. Sized(w4, n4)
  <2>1. Sized(IntField(4, m.seq), IntSize(m.seq))
    BY <1>f, SizedInt
  <2>2. QED BY <1>3, <2>1, SizedJoin
<1> HIDE DEF w4, n4
<1>5. Sized(w5, n5)
  <2>1. Sized(IntField(5, m.fd), IntSize(m.fd))
    BY <1>f, SizedInt
  <2>2. QED BY <1>4, <2>1, SizedJoin
<1> HIDE DEF w5, n5
<1>6. Sized(w6, n6)
  <2>1. Sized(IntField(6, m.req_begin_time), IntSize(m.req_begin_time))
    BY <1>f, SizedInt
  <2>2. QED BY <1>5, <2>1, SizedJoin
<1> HIDE DEF w6, n6
<1>7. Sized(w6 \o m.unknown, n6 + UnknownSize(m.unknown))
  <2>1. Sized(m.unknown, UnknownSize(m.unknown))
    BY <1>f, SizedUnknown
  <2>2. QED BY <1>6, <2>1, SizedJoin
<1>8. QED BY <1>0, <1>7

\* What GetLogRespOld announces is what it writes.
LEMMA GetLogRespOldSized ==
  ASSUME NEW m \in GetLogRespOldMsg
  PROVE  Sized(GetLogRespOld_Serialize(m), GetLogRespOld_ByteSize(m))
<1> DEFINE w1 == IntField(1, m.ret)
           n1 == IntSize(m.ret)
           w2 == w1 \o StringField(2, m.ret_msg)
           n2 == n1 + StringSize(m.ret_msg)
           w3 == w2 \o StringField(3, m.log_text)
           n3 == n2 + StringSize(m.log_text)
           w4 == w3 \o IntField(4, m.cur_len)
           n4 == n3 + IntSize(m.cur_len)
           w5 == w4 \o IntField(5, m.fd)
           n5 == n4 + IntSize(m.fd)
           w6 == w5 \o IntField(6, m.req_begin_time)
           n6 == n5 + IntSize(m.req_begin_time)
<1>0. GetLogRespOld_Serialize(m) = w6 \o m.unknown /\ GetLogRespOld_ByteSize(m)
      = n6 + UnknownSize(m.unknown)
  BY DEF GetLogRespOld_Serialize, GetLogRespOld_ByteSize
<1>f. m.ret \in Int /\ m.ret_msg \in Seq(Byte) /\ m.log_text \in Seq(Byte) /\ m.cur_len \in Int
      /\ m.fd \in Int /\ m.req_begin_time \in Int /\ m.unknown \in Seq(Token)
  BY NumbersBack DEF GetLogRespOldMsg
<1>1. Sized(w1, n1)
  BY <1>f, SizedInt
<1> HIDE DEF w1, n1
<1>2. Sized(w2, n2)
  <2>1. Sized(StringField(2, m.ret_msg), StringSize(m.ret_msg))
    BY <1>f, SizedString
  <2>2. QED BY <1>1, <2>1, SizedJoin
<1> HIDE DEF w2, n2
<1>3. Sized(w3, n3)
  <2>1. Sized(StringField(3, m.log_text), StringSize(m.log_text))
    BY <1>f, SizedString
  <2>2. QED BY <1>2, <2>1, SizedJoin
<1> HIDE DEF w3, n3
<1>4. Sized(w4, n4)
  <2>1. Sized(IntField(4, m.cur_len), IntSize(m.cur_len))
    BY <1>f, SizedInt
  <2>2. QED BY <1>3, <2>1, SizedJoin
<1> HIDE DEF w4, n4
<1>5. Sized(w5, n5)
  <2>1. Sized(IntField(5, m.fd), IntSize(m.fd))
    BY <1>f, SizedInt
  <2>2. QED BY <1>4, <2>1, SizedJoin
<1> HIDE DEF w5, n5
<1>6. Sized(w6, n6)
  <2>1. Sized(IntField(6, m.req_begin_time), IntSize(m.req_begin_time))
    BY <1>f, SizedInt
  <2>2. QED BY <1>5, <2>1, SizedJoin
<1> HIDE DEF w6, n6
<1>7. Sized(w6 \o m.unknown, n6 + UnknownSize(m.unknown))
  <2>1. Sized(m.unknown, UnknownSize(m.unknown))
    BY <1>f, SizedUnknown
  <2>2. QED BY <1>6, <2>1, SizedJoin
<1>8. QED BY <1>0, <1>7

\* What GetLogResp announces is what it writes.
LEMMA GetLogRespSized ==
  ASSUME NEW m \in GetLogRespMsg
  PROVE  Sized(GetLogResp_Serialize(m), GetLogResp_ByteSize(m))
<1> DEFINE w1 == IntField(1, m.ret)
           n1 == IntSize(m.ret)
           w2 == w1 \o StringField(2, m.ret_msg)
           n2 == n1 + StringSize(m.ret_msg)
           w3 == w2 \o IntField(3, m.fd)
           n3 == n2 + IntSize(m.fd)
           w4 == w3 \o IntField(4, m.req_begin_time)
           n4 == n3 + IntSize(m.req_begin_time)
           w5 == w4 \o LogTextFields(5, m.log_text)
           n5 == n4 + LogTextsSize(m.log_text)
<1>0. GetLogResp_Serialize(m) = w5 \o m.unknown /\ GetLogResp_ByteSize(m) = n5 + UnknownSize(m.unknown)
  BY DEF GetLogResp_Serialize, GetLogResp_ByteSize
<1>f. m.ret \in Int /\ m.ret_msg \in Seq(Byte) /\ m.fd \in Int /\ m.req_begin_time \in Int
      /\ m.log_text \in Seq(LogTextMsg) /\ m.unknown \in Seq(Token)
  BY NumbersBack DEF GetLogRespMsg
<1>1. Sized(w1, n1)
  BY <1>f, SizedInt
<1> HIDE DEF w1, n1
<1>2. Sized(w2, n2)
  <2>1. Sized(StringField(2, m.ret_msg), StringSize(m.ret_msg))
    BY <1>f, SizedString
  <2>2. QED BY <1>1, <2>1, SizedJoin
<1> HIDE DEF w2, n2
<1>3. Sized(w3, n3)
  <2>1. Sized(IntField(3, m.fd), IntSize(m.fd))
    BY <1>f, SizedInt
  <2>2. QED BY <1>2, <2>1, SizedJoin
<1> HIDE DEF w3, n3
<1>4. Sized(w4, n4)
  <2>1. Sized(IntField(4, m.req_begin_time), IntSize(m.req_begin_time))
    BY <1>f, SizedInt
  <2>2. QED BY <1>3, <2>1, SizedJoin
<1> HIDE DEF w4, n4
<1>5. Sized(w5, n5)
  <2>1. Sized(LogTextFields(5, m.log_text), LogTextsSize(m.log_text))
    BY <1>f, SizedMessages
  <2>2. QED BY <1>4, <2>1, SizedJoin
<1> HIDE DEF w5, n5
<1>6. Sized(w5 \o m.unknown, n5 + UnknownSize(m.unknown))
  <2>1. Sized(m.unknown, UnknownSize(m.unknown))
    BY <1>f, SizedUnknown
  <2>2. QED BY <1>5, <2>1, SizedJoin
<1>7. QED BY <1>0, <1>6

\* What HeartBeatMsg announces is what it writes.
LEMMA HeartBeatMsgSized ==
  ASSUME NEW m \in HeartBeatMsgMsg
  PROVE  Sized(HeartBeatMsg_Serialize(m), HeartBeatMsg_ByteSize(m))
<1> DEFINE w1 == StringField(1, m.reserve)
           n1 == StringSize(m.reserve)
<1>0. HeartBeatMsg_Serialize(m) = w1 \o m.unknown /\ HeartBeatMsg_ByteSize(m)
      = n1 + UnknownSize(m.unknown)
  BY DEF HeartBeatMsg_Serialize, HeartBeatMsg_ByteSize
<1>f. m.reserve \in Seq(Byte) /\ m.unknown \in Seq(Token)
  BY NumbersBack DEF HeartBeatMsgMsg
<1>1. Sized(w1, n1)
  BY <1>f, SizedString
<1> HIDE DEF w1, n1
<1>2. Sized(w1 \o m.unknown, n1 + UnknownSize(m.unknown))
  <2>1. Sized(m.unknown, UnknownSize(m.unknown))
    BY <1>f, SizedUnknown
  <2>2. QED BY <1>1, <2>1, SizedJoin
<1>3. QED BY <1>0, <1>2

\* What ClearSessionReq announces is what it writes.
LEMMA ClearSessionReqSized ==
  ASSUME NEW m \in ClearSessionReqMsg
  PROVE  Sized(ClearSessionReq_Serialize(m), ClearSessionReq_ByteSize(m))
<1> DEFINE w1 == StringField(1, m.session_id)
           n1 == StringSize(m.session_id)
<1>0. ClearSessionReq_Serialize(m) = w1 \o m.unknown /\ ClearSessionReq_ByteSize(m)
      = n1 + UnknownSize(m.unknown)
  BY DEF ClearSessionReq_Serialize, ClearSessionReq_ByteSize
<1>f. m.session_id \in Seq(Byte) /\ m.unknown \in Seq(Token)
  BY NumbersBack DEF ClearSessionReqMsg
<1>1. Sized(w1, n1)
  BY <1>f, SizedString
<1> HIDE DEF w1, n1
<1>2. Sized(w1 \o m.unknown, n1 + UnknownSize(m.unknown))
  <2>1. Sized(m.unknown, UnknownSize(m.unknown))
    BY <1>f, SizedUnknown
  <2>2. QED BY <1>1, <2>1, SizedJoin
<1>3. QED BY <1>0, <1>2

\* ByteSizeLong announces the bytes that _InternalSerialize writes.
THEOREM SizesAreLengths ==
  \A name \in MsgNames : \A m \in MsgOf(name) : SizeIsLength(name, m)
<1>1. ASSUME NEW m \in MsgOf("LoginReq") PROVE SizeIsLength("LoginReq", m)
  <2>1. m \in LoginReqMsg
    BY DEF MsgOf
  <2>2. Sized(LoginReq_Serialize(m), LoginReq_ByteSize(m))
    BY <2>1, LoginReqSized
  <2>3. Serialize("LoginReq", m) = LoginReq_Serialize(m) /\ ByteSize("LoginReq", m)
        = LoginReq_ByteSize(m)
    BY DEF Serialize, ByteSize
  <2>4. QED BY <2>2, <2>3 DEF Sized, SizeIsLength
<1>2. ASSUME NEW m \in MsgOf("LoginResp") PROVE SizeIsLength("LoginResp", m)
  <2>1. m \in LoginRespMsg
    BY DEF MsgOf
  <2>2. Sized(LoginResp_Serialize(m), LoginResp_ByteSize(m))
    BY <2>1, LoginRespSized
  <2>3. Serialize("LoginResp", m) = LoginResp_Serialize(m) /\ ByteSize("LoginResp", m)
        = LoginResp_ByteSize(m)
    BY DEF Serialize, ByteSize
  <2>4. QED BY <2>2, <2>3 DEF Sized, SizeIsLength
<1>3. ASSUME NEW m \in MsgOf("GnsInfoReq") PROVE SizeIsLength("GnsInfoReq", m)
  <2>1. m \in GnsInfoReqMsg
    BY DEF MsgOf
  <2>2. Sized(GnsInfoReq_Serialize(m), GnsInfoReq_ByteSize(m))
    BY <2>1, GnsInfoReqSized
  <2>3. Serialize("GnsInfoReq", m) = GnsInfoReq_Serialize(m) /\ ByteSize("GnsInfoReq", m)
        = GnsInfoReq_ByteSize(m)
    BY DEF Serialize, ByteSize
  <2>4. QED BY <2>2, <2>3 DEF Sized, SizeIsLength
<1>4. ASSUME NEW m \in MsgOf("CfgInfoReq") PROVE SizeIsLength("CfgInfoReq", m)
  <2>1. m \in CfgInfoReqMsg
    BY DEF MsgOf
  <2>2. Sized(CfgInfoReq_Serialize(m), CfgInfoReq_ByteSize(m))
    BY <2>1, CfgInfoReqSized
  <2>3. Serialize("CfgInfoReq", m) = CfgInfoReq_Serialize(m) /\ ByteSize("CfgInfoReq", m)
        = CfgInfoReq_ByteSize(m)
    BY DEF Serialize, ByteSize
  <2>4. QED BY <2>2, <2>3 DEF Sized, SizeIsLength
<1>5. ASSUME NEW m \in MsgOf("CfgInfoResp") PROVE SizeIsLength("CfgInfoResp", m)
  <2>1. m \in CfgInfoRespMsg
    BY DEF MsgOf
  <2>2. Sized(CfgInfoResp_Serialize(m), CfgInfoResp_ByteSize(m))
    BY <2>1, CfgInfoRespSized
  <2>3. Serialize("CfgInfoResp", m) = CfgInfoResp_Serialize(m) /\ ByteSize("CfgInfoResp", m)
        = CfgInfoResp_ByteSize(m)
    BY DEF Serialize, ByteSize
  <2>4. QED BY <2>2, <2>3 DEF Sized, SizeIsLength
<1>6. ASSUME NEW m \in MsgOf("LogInfo") PROVE SizeIsLength("LogInfo", m)
  <2>1. m \in LogInfoMsg
    BY DEF MsgOf
  <2>2. Sized(LogInfo_Serialize(m), LogInfo_ByteSize(m))
    BY <2>1, LogInfoSized
  <2>3. Serialize("LogInfo", m) = LogInfo_Serialize(m) /\ ByteSize("LogInfo", m) = LogInfo_ByteSize(m)
    BY DEF Serialize, ByteSize
  <2>4. QED BY <2>2, <2>3 DEF Sized, SizeIsLength
<1>7. ASSUME NEW m \in MsgOf("GetLogReq") PROVE SizeIsLength("GetLogReq", m)
  <2>1. m \in GetLogReqMsg
    BY DEF MsgOf
  <2>2. Sized(GetLogReq_Serialize(m), GetLogReq_ByteSize(m))
    BY <2>1, GetLogReqSized
  <2>3. Serialize("GetLogReq", m) = GetLogReq_Serialize(m) /\ ByteSize("GetLogReq", m)
        = GetLogReq_ByteSize(m)
    BY DEF Serialize, ByteSize
  <2>4. QED BY <2>2, <2>3 DEF Sized, SizeIsLength
<1>8. ASSUME NEW m \in MsgOf("GetLogRespOld") PROVE SizeIsLength("GetLogRespOld", m)
  <2>1. m \in GetLogRespOldMsg
    BY DEF MsgOf
  <2>2. Sized(GetLogRespOld_Serialize(m), GetLogRespOld_ByteSize(m))
    BY <2>1, GetLogRespOldSized
  <2>3. Serialize("GetLogRespOld", m) = GetLogRespOld_Serialize(m) /\ ByteSize("GetLogRespOld", m)
        = GetLogRespOld_ByteSize(m)
    BY DEF Serialize, ByteSize
  <2>4. QED BY <2>2, <2>3 DEF Sized, SizeIsLength
<1>9. ASSUME NEW m \in MsgOf("LogText") PROVE SizeIsLength("LogText", m)
  <2>1. m \in LogTextMsg
    BY DEF MsgOf
  <2>2. Sized(LogText_Serialize(m), LogText_ByteSize(m))
    BY <2>1, LogTextSized
  <2>3. Serialize("LogText", m) = LogText_Serialize(m) /\ ByteSize("LogText", m) = LogText_ByteSize(m)
    BY DEF Serialize, ByteSize
  <2>4. QED BY <2>2, <2>3 DEF Sized, SizeIsLength
<1>10. ASSUME NEW m \in MsgOf("GetLogResp") PROVE SizeIsLength("GetLogResp", m)
  <2>1. m \in GetLogRespMsg
    BY DEF MsgOf
  <2>2. Sized(GetLogResp_Serialize(m), GetLogResp_ByteSize(m))
    BY <2>1, GetLogRespSized
  <2>3. Serialize("GetLogResp", m) = GetLogResp_Serialize(m) /\ ByteSize("GetLogResp", m)
        = GetLogResp_ByteSize(m)
    BY DEF Serialize, ByteSize
  <2>4. QED BY <2>2, <2>3 DEF Sized, SizeIsLength
<1>11. ASSUME NEW m \in MsgOf("HeartBeatMsg") PROVE SizeIsLength("HeartBeatMsg", m)
  <2>1. m \in HeartBeatMsgMsg
    BY DEF MsgOf
  <2>2. Sized(HeartBeatMsg_Serialize(m), HeartBeatMsg_ByteSize(m))
    BY <2>1, HeartBeatMsgSized
  <2>3. Serialize("HeartBeatMsg", m) = HeartBeatMsg_Serialize(m) /\ ByteSize("HeartBeatMsg", m)
        = HeartBeatMsg_ByteSize(m)
    BY DEF Serialize, ByteSize
  <2>4. QED BY <2>2, <2>3 DEF Sized, SizeIsLength
<1>12. ASSUME NEW m \in MsgOf("ClearSessionReq") PROVE SizeIsLength("ClearSessionReq", m)
  <2>1. m \in ClearSessionReqMsg
    BY DEF MsgOf
  <2>2. Sized(ClearSessionReq_Serialize(m), ClearSessionReq_ByteSize(m))
    BY <2>1, ClearSessionReqSized
  <2>3. Serialize("ClearSessionReq", m) = ClearSessionReq_Serialize(m) /\ ByteSize("ClearSessionReq", m)
        = ClearSessionReq_ByteSize(m)
    BY DEF Serialize, ByteSize
  <2>4. QED BY <2>2, <2>3 DEF Sized, SizeIsLength
<1>13. QED BY <1>1, <1>2, <1>3, <1>4, <1>5, <1>6, <1>7, <1>8, <1>9, <1>10, <1>11, <1>12 DEF MsgNames

----------------------------------------------------------------------------
(* What a class keeps of its texts *)

Distinct(cases) ==
  /\ \A i, j \in DOMAIN cases : cases[i].name = cases[j].name => i = j
  /\ \A i \in DOMAIN cases : i \in Nat /\ i # 9 /\ cases[i].name # "unknown"

\* log_text of GetLogResp is the one field with messages.
Holds(name, cases) ==
  /\ \A i \in DOMAIN cases :
       cases[i].type = "messages" => name = "GetLogResp" /\ cases[i].name = "log_text"
  /\ name = "GetLogResp" =>
       5 \in DOMAIN cases /\ cases[5].type = "messages" /\ cases[5].name = "log_text"

\* Nothing is in a new message.
Blank(cases, m) ==
  /\ m.unknown = << >>
  /\ \A i \in DOMAIN cases :
       cases[i].type \in {"string", "strings", "messages"} => m[cases[i].name] = << >>

Fielded(name) ==
  /\ Distinct(PyFields(name)) /\ Holds(name, PyFields(name))
  /\ Blank(PyFields(name), Empty(name))

\* The fields of LoginReq are the keys of its messages, each once, empty at first.
LEMMA LoginReqFielded == Fielded("LoginReq")
<1>1. PyFields("LoginReq") = LoginReq_Cases
  BY DEF PyFields, PyLoginReq, LoginReq_Cases
<1>2. DOMAIN LoginReq_Cases = {1, 2, 3, 4}
  BY LoginReqClass
<1>3. LoginReq_Cases[1].name = "user_name" /\ LoginReq_Cases[2].name = "password"
      /\ LoginReq_Cases[3].name = "fd" /\ LoginReq_Cases[4].name = "req_begin_time"
  BY LoginReqClass DEF Field
<1>4. LoginReq_Cases[1].type = "string" /\ LoginReq_Cases[2].type = "string" /\ LoginReq_Cases[3].type
      = "int32" /\ LoginReq_Cases[4].type = "int32"
  BY LoginReqClass DEF Field
<1>5. Distinct(LoginReq_Cases)
  BY <1>2, <1>3 DEF Distinct
<1>6. Holds("LoginReq", LoginReq_Cases)
  BY <1>2, <1>3, <1>4 DEF Holds
<1>7. Empty("LoginReq") = EmptyLoginReq
  BY DEF Empty
<1>8. Blank(LoginReq_Cases, EmptyLoginReq)
  BY <1>2, <1>3, <1>4 DEF Blank, EmptyLoginReq
<1>9. QED BY <1>1, <1>5, <1>6, <1>7, <1>8 DEF Fielded

\* The fields of LoginResp are the keys of its messages, each once, empty at first.
LEMMA LoginRespFielded == Fielded("LoginResp")
<1>1. PyFields("LoginResp") = LoginResp_Cases
  BY DEF PyFields, PyLoginResp, LoginResp_Cases
<1>2. DOMAIN LoginResp_Cases = {1, 2, 3, 4, 5}
  BY LoginRespClass
<1>3. LoginResp_Cases[1].name = "session_id" /\ LoginResp_Cases[2].name = "fd"
      /\ LoginResp_Cases[3].name = "req_begin_time" /\ LoginResp_Cases[4].name = "ret"
         /\ LoginResp_Cases[5].name = "ret_msg"
  BY LoginRespClass DEF Field
<1>4. LoginResp_Cases[1].type = "string" /\ LoginResp_Cases[2].type = "int32" /\ LoginResp_Cases[3].type
      = "int32" /\ LoginResp_Cases[4].type = "int32" /\ LoginResp_Cases[5].type = "string"
  BY LoginRespClass DEF Field
<1>5. Distinct(LoginResp_Cases)
  BY <1>2, <1>3 DEF Distinct
<1>6. Holds("LoginResp", LoginResp_Cases)
  BY <1>2, <1>3, <1>4 DEF Holds
<1>7. Empty("LoginResp") = EmptyLoginResp
  BY DEF Empty
<1>8. Blank(LoginResp_Cases, EmptyLoginResp)
  BY <1>2, <1>3, <1>4 DEF Blank, EmptyLoginResp
<1>9. QED BY <1>1, <1>5, <1>6, <1>7, <1>8 DEF Fielded

\* The fields of GnsInfoReq are the keys of its messages, each once, empty at first.
LEMMA GnsInfoReqFielded == Fielded("GnsInfoReq")
<1>1. PyFields("GnsInfoReq") = GnsInfoReq_Cases
  BY DEF PyFields, PyGnsInfoReq, GnsInfoReq_Cases
<1>2. DOMAIN GnsInfoReq_Cases = {1, 2}
  BY GnsInfoReqClass
<1>3. GnsInfoReq_Cases[1].name = "gns_name" /\ GnsInfoReq_Cases[2].name = "ip_port"
  BY GnsInfoReqClass DEF Field
<1>4. GnsInfoReq_Cases[1].type = "strings" /\ GnsInfoReq_Cases[2].type = "strings"
  BY GnsInfoReqClass DEF Field
<1>5. Distinct(GnsInfoReq_Cases)
  BY <1>2, <1>3 DEF Distinct
<1>6. Holds("GnsInfoReq", GnsInfoReq_Cases)
  BY <1>2, <1>3, <1>4 DEF Holds
<1>7. Empty("GnsInfoReq") = EmptyGnsInfoReq
  BY DEF Empty
<1>8. Blank(GnsInfoReq_Cases, EmptyGnsInfoReq)
  BY <1>2, <1>3, <1>4 DEF Blank, EmptyGnsInfoReq
<1>9. QED BY <1>1, <1>5, <1>6, <1>7, <1>8 DEF Fielded

\* The fields of CfgInfoReq are the keys of its messages, each once, empty at first.
LEMMA CfgInfoReqFielded == Fielded("CfgInfoReq")
<1>1. PyFields("CfgInfoReq") = CfgInfoReq_Cases
  BY DEF PyFields, PyCfgInfoReq, CfgInfoReq_Cases
<1>2. DOMAIN CfgInfoReq_Cases = {1, 2, 3, 4, 5, 6, 7, 8}
  BY CfgInfoReqClass
<1>3. CfgInfoReq_Cases[1].name = "session_id" /\ CfgInfoReq_Cases[2].name = "p1"
      /\ CfgInfoReq_Cases[3].name = "p2" /\ CfgInfoReq_Cases[4].name = "p3" /\ CfgInfoReq_Cases[5].name
         = "gns_name" /\ CfgInfoReq_Cases[6].name = "ip_port" /\ CfgInfoReq_Cases[7].name = "fd"
         /\ CfgInfoReq_Cases[8].name = "req_begin_time"
  BY CfgInfoReqClass DEF Field
<1>4. CfgInfoReq_Cases[1].type = "string" /\ CfgInfoReq_Cases[2].type = "int32"
      /\ CfgInfoReq_Cases[3].type = "int64" /\ CfgInfoReq_Cases[4].type = "string"
         /\ CfgInfoReq_Cases[5].type = "string" /\ CfgInfoReq_Cases[6].type = "string"
            /\ CfgInfoReq_Cases[7].type = "int32" /\ CfgInfoReq_Cases[8].type = "int32"
  BY CfgInfoReqClass DEF Field
<1>5. Distinct(CfgInfoReq_Cases)
  BY <1>2, <1>3 DEF Distinct
<1>6. Holds("CfgInfoReq", CfgInfoReq_Cases)
  BY <1>2, <1>3, <1>4 DEF Holds
<1>7. Empty("CfgInfoReq") = EmptyCfgInfoReq
  BY DEF Empty
<1>8. Blank(CfgInfoReq_Cases, EmptyCfgInfoReq)
  BY <1>2, <1>3, <1>4 DEF Blank, EmptyCfgInfoReq
<1>9. QED BY <1>1, <1>5, <1>6, <1>7, <1>8 DEF Fielded

\* The fields of CfgInfoResp are the keys of its messages, each once, empty at first.
LEMMA CfgInfoRespFielded == Fielded("CfgInfoResp")
<1>1. PyFields("CfgInfoResp") = CfgInfoResp_Cases
  BY DEF PyFields, PyCfgInfoResp, CfgInfoResp_Cases
<1>2. DOMAIN CfgInfoResp_Cases = {1, 2, 3, 4}
  BY CfgInfoRespClass
<1>3. CfgInfoResp_Cases[1].name = "ret" /\ CfgInfoResp_Cases[2].name = "ret_msg"
      /\ CfgInfoResp_Cases[3].name = "fd" /\ CfgInfoResp_Cases[4].name = "req_begin_time"
  BY CfgInfoRespClass DEF Field
<1>4. CfgInfoResp_Cases[1].type = "int32" /\ CfgInfoResp_Cases[2].type = "string"
      /\ CfgInfoResp_Cases[3].type = "int32" /\ CfgInfoResp_Cases[4].type = "int32"
  BY CfgInfoRespClass DEF Field
<1>5. Distinct(CfgInfoResp_Cases)
  BY <1>2, <1>3 DEF Distinct
<1>6. Holds("CfgInfoResp", CfgInfoResp_Cases)
  BY <1>2, <1>3, <1>4 DEF Holds
<1>7. Empty("CfgInfoResp") = EmptyCfgInfoResp
  BY DEF Empty
<1>8. Blank(CfgInfoResp_Cases, EmptyCfgInfoResp)
  BY <1>2, <1>3, <1>4 DEF Blank, EmptyCfgInfoResp
<1>9. QED BY <1>1, <1>5, <1>6, <1>7, <1>8 DEF Fielded

\* The fields of LogInfo are the keys of its messages, each once, empty at first.
LEMMA LogInfoFielded == Fielded("LogInfo")
<1>1. PyFields("LogInfo") = LogInfo_Cases
  BY DEF PyFields, PyLogInfo, LogInfo_Cases
<1>2. DOMAIN LogInfo_Cases = {1, 2, 3, 4}
  BY LogInfoClass
<1>3. LogInfo_Cases[1].name = "gns_name" /\ LogInfo_Cases[2].name = "ip_port" /\ LogInfo_Cases[3].name
      = "session_id" /\ LogInfo_Cases[4].name = "log_text"
  BY LogInfoClass DEF Field
<1>4. LogInfo_Cases[1].type = "string" /\ LogInfo_Cases[2].type = "string" /\ LogInfo_Cases[3].type
      = "string" /\ LogInfo_Cases[4].type = "string"
  BY LogInfoClass DEF Field
<1>5. Distinct(LogInfo_Cases)
  BY <1>2, <1>3 DEF Distinct
<1>6. Holds("LogInfo", LogInfo_Cases)
  BY <1>2, <1>3, <1>4 DEF Holds
<1>7. Empty("LogInfo") = EmptyLogInfo
  BY DEF Empty
<1>8. Blank(LogInfo_Cases, EmptyLogInfo)
  BY <1>2, <1>3, <1>4 DEF Blank, EmptyLogInfo
<1>9. QED BY <1>1, <1>5, <1>6, <1>7, <1>8 DEF Fielded

\* The fields of GetLogReq are the keys of its messages, each once, empty at first.
LEMMA GetLogReqFielded == Fielded("GetLogReq")
<1>1. PyFields("GetLogReq") = GetLogReq_Cases
  BY DEF PyFields, PyGetLogReq, GetLogReq_Cases
<1>2. DOMAIN GetLogReq_Cases = {1, 2, 3, 4, 5, 6}
  BY GetLogReqClass
<1>3. GetLogReq_Cases[1].name = "session_id" /\ GetLogReq_Cases[2].name = "gns_name"
      /\ GetLogReq_Cases[3].name = "ip_port" /\ GetLogReq_Cases[4].name = "seq"
         /\ GetLogReq_Cases[5].name = "fd" /\ GetLogReq_Cases[6].name = "req_begin_time"
  BY GetLogReqClass DEF Field
<1>4. GetLogReq_Cases[1].type = "string" /\ GetLogReq_Cases[2].type = "string"
      /\ GetLogReq_Cases[3].type = "string" /\ GetLogReq_Cases[4].type = "int32"
         /\ GetLogReq_Cases[5].type = "int32" /\ GetLogReq_Cases[6].type = "int32"
  BY GetLogReqClass DEF Field
<1>5. Distinct(GetLogReq_Cases)
  BY <1>2, <1>3 DEF Distinct
<1>6. Holds("GetLogReq", GetLogReq_Cases)
  BY <1>2, <1>3, <1>4 DEF Holds
<1>7. Empty("GetLogReq") = EmptyGetLogReq
  BY DEF Empty
<1>8. Blank(GetLogReq_Cases, EmptyGetLogReq)
  BY <1>2, <1>3, <1>4 DEF Blank, EmptyGetLogReq
<1>9. QED BY <1>1, <1>5, <1>6, <1>7, <1>8 DEF Fielded

\* The fields of GetLogRespOld are the keys of its messages, each once, empty at first.
LEMMA GetLogRespOldFielded == Fielded("GetLogRespOld")
<1>1. PyFields("GetLogRespOld") = GetLogRespOld_Cases
  BY DEF PyFields, PyGetLogRespOld, GetLogRespOld_Cases
<1>2. DOMAIN GetLogRespOld_Cases = {1, 2, 3, 4, 5, 6}
  BY GetLogRespOldClass
<1>3. GetLogRespOld_Cases[1].name = "ret" /\ GetLogRespOld_Cases[2].name = "ret_msg"
      /\ GetLogRespOld_Cases[3].name = "log_text" /\ GetLogRespOld_Cases[4].name = "cur_len"
         /\ GetLogRespOld_Cases[5].name = "fd" /\ GetLogRespOld_Cases[6].name = "req_begin_time"
  BY GetLogRespOldClass DEF Field
<1>4. GetLogRespOld_Cases[1].type = "int32" /\ GetLogRespOld_Cases[2].type = "string"
      /\ GetLogRespOld_Cases[3].type = "string" /\ GetLogRespOld_Cases[4].type = "int32"
         /\ GetLogRespOld_Cases[5].type = "int32" /\ GetLogRespOld_Cases[6].type = "int32"
  BY GetLogRespOldClass DEF Field
<1>5. Distinct(GetLogRespOld_Cases)
  BY <1>2, <1>3 DEF Distinct
<1>6. Holds("GetLogRespOld", GetLogRespOld_Cases)
  BY <1>2, <1>3, <1>4 DEF Holds
<1>7. Empty("GetLogRespOld") = EmptyGetLogRespOld
  BY DEF Empty
<1>8. Blank(GetLogRespOld_Cases, EmptyGetLogRespOld)
  BY <1>2, <1>3, <1>4 DEF Blank, EmptyGetLogRespOld
<1>9. QED BY <1>1, <1>5, <1>6, <1>7, <1>8 DEF Fielded

\* The fields of LogText are the keys of its messages, each once, empty at first.
LEMMA LogTextFielded == Fielded("LogText")
<1>1. PyFields("LogText") = LogText_Cases
  BY DEF PyFields, PyLogText, LogText_Cases
<1>2. DOMAIN LogText_Cases = {1, 2, 3}
  BY LogTextClass
<1>3. LogText_Cases[1].name = "ip_port" /\ LogText_Cases[2].name = "gns_name" /\ LogText_Cases[3].name
      = "text"
  BY LogTextClass DEF Field
<1>4. LogText_Cases[1].type = "string" /\ LogText_Cases[2].type = "string" /\ LogText_Cases[3].type
      = "strings"
  BY LogTextClass DEF Field
<1>5. Distinct(LogText_Cases)
  BY <1>2, <1>3 DEF Distinct
<1>6. Holds("LogText", LogText_Cases)
  BY <1>2, <1>3, <1>4 DEF Holds
<1>7. Empty("LogText") = EmptyLogText
  BY DEF Empty
<1>8. Blank(LogText_Cases, EmptyLogText)
  BY <1>2, <1>3, <1>4 DEF Blank, EmptyLogText
<1>9. QED BY <1>1, <1>5, <1>6, <1>7, <1>8 DEF Fielded

\* The fields of GetLogResp are the keys of its messages, each once, empty at first.
LEMMA GetLogRespFielded == Fielded("GetLogResp")
<1>1. PyFields("GetLogResp") = GetLogResp_Cases
  BY DEF PyFields, PyGetLogResp, GetLogResp_Cases, PyEmptyLogText, PyLogText, EmptyLogText,
      LogText_Cases
<1>2. DOMAIN GetLogResp_Cases = {1, 2, 3, 4, 5}
  BY GetLogRespClass
<1>3. GetLogResp_Cases[1].name = "ret" /\ GetLogResp_Cases[2].name = "ret_msg"
      /\ GetLogResp_Cases[3].name = "fd" /\ GetLogResp_Cases[4].name = "req_begin_time"
         /\ GetLogResp_Cases[5].name = "log_text"
  BY GetLogRespClass DEF Field, Repeated
<1>4. GetLogResp_Cases[1].type = "int32" /\ GetLogResp_Cases[2].type = "string"
      /\ GetLogResp_Cases[3].type = "int32" /\ GetLogResp_Cases[4].type = "int32"
         /\ GetLogResp_Cases[5].type = "messages"
  BY GetLogRespClass DEF Field, Repeated
<1>5. Distinct(GetLogResp_Cases)
  BY <1>2, <1>3 DEF Distinct
<1>6. Holds("GetLogResp", GetLogResp_Cases)
  BY <1>2, <1>3, <1>4 DEF Holds
<1>7. Empty("GetLogResp") = EmptyGetLogResp
  BY DEF Empty
<1>8. Blank(GetLogResp_Cases, EmptyGetLogResp)
  BY <1>2, <1>3, <1>4 DEF Blank, EmptyGetLogResp
<1>9. QED BY <1>1, <1>5, <1>6, <1>7, <1>8 DEF Fielded

\* The fields of HeartBeatMsg are the keys of its messages, each once, empty at first.
LEMMA HeartBeatMsgFielded == Fielded("HeartBeatMsg")
<1>1. PyFields("HeartBeatMsg") = HeartBeatMsg_Cases
  BY DEF PyFields, PyHeartBeatMsg, HeartBeatMsg_Cases
<1>2. DOMAIN HeartBeatMsg_Cases = {1}
  BY HeartBeatMsgClass
<1>3. HeartBeatMsg_Cases[1].name = "reserve"
  BY HeartBeatMsgClass DEF Field
<1>4. HeartBeatMsg_Cases[1].type = "string"
  BY HeartBeatMsgClass DEF Field
<1>5. Distinct(HeartBeatMsg_Cases)
  BY <1>2, <1>3 DEF Distinct
<1>6. Holds("HeartBeatMsg", HeartBeatMsg_Cases)
  BY <1>2, <1>3, <1>4 DEF Holds
<1>7. Empty("HeartBeatMsg") = EmptyHeartBeatMsg
  BY DEF Empty
<1>8. Blank(HeartBeatMsg_Cases, EmptyHeartBeatMsg)
  BY <1>2, <1>3, <1>4 DEF Blank, EmptyHeartBeatMsg
<1>9. QED BY <1>1, <1>5, <1>6, <1>7, <1>8 DEF Fielded

\* The fields of ClearSessionReq are the keys of its messages, each once, empty at first.
LEMMA ClearSessionReqFielded == Fielded("ClearSessionReq")
<1>1. PyFields("ClearSessionReq") = ClearSessionReq_Cases
  BY DEF PyFields, PyClearSessionReq, ClearSessionReq_Cases
<1>2. DOMAIN ClearSessionReq_Cases = {1}
  BY ClearSessionReqClass
<1>3. ClearSessionReq_Cases[1].name = "session_id"
  BY ClearSessionReqClass DEF Field
<1>4. ClearSessionReq_Cases[1].type = "string"
  BY ClearSessionReqClass DEF Field
<1>5. Distinct(ClearSessionReq_Cases)
  BY <1>2, <1>3 DEF Distinct
<1>6. Holds("ClearSessionReq", ClearSessionReq_Cases)
  BY <1>2, <1>3, <1>4 DEF Holds
<1>7. Empty("ClearSessionReq") = EmptyClearSessionReq
  BY DEF Empty
<1>8. Blank(ClearSessionReq_Cases, EmptyClearSessionReq)
  BY <1>2, <1>3, <1>4 DEF Blank, EmptyClearSessionReq
<1>9. QED BY <1>1, <1>5, <1>6, <1>7, <1>8 DEF Fielded

\* What every class has in common in its fields.
LEMMA FieldsOf ==
  ASSUME NEW name \in MsgNames
  PROVE  /\ Distinct(PyFields(name)) /\ Holds(name, PyFields(name))
         /\ Blank(PyFields(name), Empty(name))
<1>1. Fielded(name)
  BY LoginReqFielded,
     LoginRespFielded,
     GnsInfoReqFielded,
     CfgInfoReqFielded,
     CfgInfoRespFielded,
     LogInfoFielded,
     GetLogReqFielded,
     GetLogRespOldFielded,
     LogTextFielded,
     GetLogRespFielded,
     HeartBeatMsgFielded,
     ClearSessionReqFielded DEF MsgNames
<1>2. QED BY <1>1 DEF Fielded

\* What a field keeps: messages with no field of their own among the unknown
\* ones, and texts that are UTF-8.
Kept(c, v) ==
  c.type = "messages" => \A k \in 1 .. Len(v) : Strangers(LogText_Cases, v[k].unknown)
Legible(c, v) == \A text \in TextsIn(c.type, v) : Utf8(text)

SoundMsg(cases, m) ==
  /\ Strangers(cases, m.unknown)
  /\ \A i \in DOMAIN cases : Kept(cases[i], m[cases[i].name]) /\ Legible(cases[i], m[cases[i].name])

Sound(cases, M) == {r \in Results(M) : r.ok => SoundMsg(cases, r.msg)}

\* Clean and Valid, field by field.
LEMMA CleanIs ==
  ASSUME NEW name \in MsgNames, NEW m
  PROVE  /\ Clean(name, m) <=>
              /\ Strangers(PyFields(name), m.unknown)
              /\ \A i \in DOMAIN PyFields(name) : Kept(PyFields(name)[i], m[PyFields(name)[i].name])
         /\ SoundMsg(PyFields(name), m) <=> Clean(name, m) /\ Valid(name, m)
<1>1. Holds(name, PyFields(name))
  BY FieldsOf
<1>2. (\A i \in DOMAIN PyFields(name) : Kept(PyFields(name)[i], m[PyFields(name)[i].name]))
        <=> (name = "GetLogResp" =>
               \A k \in 1 .. Len(m.log_text) : Strangers(LogText_Cases, m.log_text[k].unknown))
  BY <1>1 DEF Holds, Kept
<1>3. Valid(name, m) <=>
        \A i \in DOMAIN PyFields(name) : Legible(PyFields(name)[i], m[PyFields(name)[i].name])
  BY DEF Valid, Legible
<1>4. QED BY <1>2, <1>3 DEF Clean, SoundMsg

With(m, x, v) == [m EXCEPT ![x] = v]

\* One field given another value.
LEMMA GivenField ==
  ASSUME NEW cases, NEW M, Class(cases, M), Distinct(cases), NEW m \in M,
         NEW i \in DOMAIN cases, NEW v
  PROVE  /\ [m EXCEPT ![cases[i].name] = v].unknown = m.unknown
         /\ [m EXCEPT ![cases[i].name] = v][cases[i].name] = v
         /\ \A j \in DOMAIN cases : j # i =>
              [m EXCEPT ![cases[i].name] = v][cases[j].name] = m[cases[j].name]
<1>1. /\ cases[i].name \in DOMAIN m /\ cases[i].name # "unknown" /\ "unknown" \in DOMAIN m
      /\ \A j \in DOMAIN cases : cases[j].name \in DOMAIN m
      /\ \A j \in DOMAIN cases : j # i => cases[j].name # cases[i].name
  BY DEF Class, HasField, Distinct
<1>2. QED BY <1>1

\* A message stays sound when a field gets a value that is.
LEMMA SoundGiven ==
  ASSUME NEW cases, NEW M, Class(cases, M), Distinct(cases), NEW m \in M,
         SoundMsg(cases, m), NEW i \in DOMAIN cases, NEW v,
         Kept(cases[i], v), Legible(cases[i], v)
  PROVE  SoundMsg(cases, With(m, cases[i].name, v))
<1> DEFINE q == [m EXCEPT ![cases[i].name] = v]
<1>1. /\ q.unknown = m.unknown /\ q[cases[i].name] = v
      /\ \A j \in DOMAIN cases : j # i => q[cases[j].name] = m[cases[j].name]
  BY GivenField
<1> HIDE DEF q
<1>2. \A j \in DOMAIN cases : Kept(cases[j], q[cases[j].name]) /\ Legible(cases[j], q[cases[j].name])
  <2>1. ASSUME NEW j \in DOMAIN cases
        PROVE  Kept(cases[j], q[cases[j].name]) /\ Legible(cases[j], q[cases[j].name])
    <3>1. CASE j = i
      BY <1>1, <3>1
    <3>2. CASE j # i
      BY <1>1, <3>2 DEF SoundMsg
    <3>3. QED BY <3>1, <3>2
  <2>2. QED BY <2>1
<1>3. SoundMsg(cases, q)
  BY <1>1, <1>2 DEF SoundMsg
<1>4. QED BY <1>3 DEF q, With

\* The texts of a sequence that one joined.
LEMMA TextsAppended ==
  ASSUME NEW s, NEW x, NEW T, s \in Seq(T), x \in T
  PROVE  \A k \in DOMAIN Append(s, x) : Append(s, x)[k] \in {s[j] : j \in DOMAIN s} \cup {x}
<1>1. DOMAIN Append(s, x) = 1 .. Len(s) + 1 /\ DOMAIN s = 1 .. Len(s) /\ Len(s) \in Nat
  OBVIOUS
<1>2. \A k \in 1 .. Len(s) + 1 : Append(s, x)[k] = IF k = Len(s) + 1 THEN x ELSE s[k]
  OBVIOUS
<1>3. \A k \in 1 .. Len(s) + 1 : k # Len(s) + 1 => k \in 1 .. Len(s)
  BY <1>1
<1>4. QED BY <1>1, <1>2, <1>3

\* Reading a token keeps a message sound.
LEMMA ReadSound ==
  ASSUME NEW cases, NEW M, Class(cases, M), Distinct(cases), NEW m \in M, NEW t \in Token,
         SoundMsg(cases, m)
  PROVE  Read(cases, m, t) \in Sound(cases, M)
<1>0. Read(cases, m, t) \in Results(M)
  BY ReadKeeps
<1>1. CASE ~Accepts(cases, t)
  <2> DEFINE q == [m EXCEPT !.unknown = Append(@, t)]
  <2>1. Read(cases, m, t).msg = q
    BY <1>1 DEF Read
  <2>2. /\ m.unknown \in Seq(Token) /\ "unknown" \in DOMAIN m
        /\ \A j \in DOMAIN cases : cases[j].name # "unknown"
    BY DEF Class, Distinct
  <2>3. q.unknown = Append(m.unknown, t)
        /\ \A j \in DOMAIN cases : q[cases[j].name] = m[cases[j].name]
    <3>1. \A j \in DOMAIN cases : cases[j].name \in DOMAIN m
      BY DEF Class, HasField
    <3>2. QED BY <2>2, <3>1
  <2> HIDE DEF q
  <2>4. Strangers(cases, Append(m.unknown, t))
    <3>1. Strangers(cases, m.unknown)
      BY DEF SoundMsg
    <3>2. ASSUME NEW k \in 1 .. Len(Append(m.unknown, t))
          PROVE  ~Accepts(cases, Append(m.unknown, t)[k])
      <4>1. Len(Append(m.unknown, t)) = Len(m.unknown) + 1 /\ Len(m.unknown) \in Nat
        BY <2>2
      <4>2. CASE k = Len(m.unknown) + 1
        <5>1. Append(m.unknown, t)[k] = t
          BY <2>2, <4>2
        <5>2. QED BY <1>1, <5>1
      <4>3. CASE k # Len(m.unknown) + 1
        <5>1. k \in 1 .. Len(m.unknown) /\ Append(m.unknown, t)[k] = m.unknown[k]
          BY <2>2, <4>1, <4>3
        <5>2. QED BY <3>1, <5>1 DEF Strangers
      <4>4. QED BY <4>2, <4>3
    <3>3. QED BY <3>2 DEF Strangers
  <2>5. SoundMsg(cases, q)
    BY <2>3, <2>4 DEF SoundMsg
  <2>6. QED BY <1>0, <2>1, <2>5 DEF Sound
<1>2. CASE Accepts(cases, t)
  <2> DEFINE i == t.num
             c == cases[i]
  <2>1. i \in DOMAIN cases /\ HasField(c, M) /\ c.kind = t.kind
    BY <1>2 DEF Accepts, Class
  <2>2. c.type \in {"string", "strings", "int32", "int64"}
    <3>1. t.kind # "message"
      BY TokenIs
    <3>2. QED BY <2>1, <3>1 DEF HasField, KindOf, Types
  <2>3. CASE c.type = "string"
    <3>1. Read(cases, m, t) = [ok |-> Utf8(t.val), msg |-> With(m, c.name, t.val)]
      BY <1>2, <2>3 DEF Read, With
    <3>2. ASSUME Utf8(t.val) PROVE SoundMsg(cases, With(m, c.name, t.val))
      <4>1. Kept(c, t.val) /\ Legible(c, t.val)
        BY <2>3, <3>2 DEF Kept, Legible, TextsIn
      <4>2. QED BY <2>1, <4>1, SoundGiven
    <3>3. QED BY <1>0, <3>1, <3>2 DEF Sound
  <2>4. CASE c.type = "strings"
    <3> DEFINE v == Append(m[c.name], t.val)
    <3>1. Read(cases, m, t) = [ok |-> Utf8(t.val), msg |-> With(m, c.name, v)]
      BY <1>2, <2>4 DEF Read, With
    <3>2. m[c.name] \in Seq(Seq(Byte)) /\ t.val \in Seq(Byte)
      BY <2>1, <2>4, TokenIs DEF HasField, KindOf, Values
    <3>3. ASSUME Utf8(t.val) PROVE SoundMsg(cases, With(m, c.name, v))
      <4>1. \A text \in {m[c.name][k] : k \in DOMAIN m[c.name]} : Utf8(text)
        BY <2>1, <2>4 DEF SoundMsg, Legible, TextsIn
      <4>2. \A k \in DOMAIN v : Utf8(v[k])
        BY <3>2, <3>3, <4>1, TextsAppended
      <4> HIDE DEF v
      <4>3. Kept(c, v) /\ Legible(c, v)
        BY <2>4, <4>2 DEF Kept, Legible, TextsIn
      <4>4. QED BY <2>1, <4>3, SoundGiven
    <3>4. QED BY <1>0, <3>1, <3>3 DEF Sound
  <2>5. CASE c.type = "int32"
    <3>1. Read(cases, m, t) = [ok |-> TRUE, msg |-> With(m, c.name, Int32Of(t.val))]
      BY <1>2, <2>5 DEF Read, With
    <3>2. Kept(c, Int32Of(t.val)) /\ Legible(c, Int32Of(t.val))
      BY <2>5 DEF Kept, Legible, TextsIn
    <3>3. SoundMsg(cases, With(m, c.name, Int32Of(t.val)))
      BY <2>1, <3>2, SoundGiven
    <3>4. QED BY <1>0, <3>1, <3>3 DEF Sound
  <2>6. CASE c.type = "int64"
    <3>1. Read(cases, m, t) = [ok |-> TRUE, msg |-> With(m, c.name, Int64Of(t.val))]
      BY <1>2, <2>6 DEF Read, With
    <3>2. Kept(c, Int64Of(t.val)) /\ Legible(c, Int64Of(t.val))
      BY <2>6 DEF Kept, Legible, TextsIn
    <3>3. SoundMsg(cases, With(m, c.name, Int64Of(t.val)))
      BY <2>1, <3>2, SoundGiven
    <3>4. QED BY <1>0, <3>1, <3>3 DEF Sound
  <2>7. QED BY <2>2, <2>3, <2>4, <2>5, <2>6
<1>3. QED BY <1>1, <1>2

\* Parsing flat tokens keeps a message sound.
LEMMA FlatSound ==
  ASSUME NEW cases, NEW M, Class(cases, M), Distinct(cases), NEW b \in Sound(cases, M),
         NEW s \in Seq(Token)
  PROVE  FlatAll(cases, b, s) \in Sound(cases, M)
<1>1. \A k \in 1 .. Len(s) : s[k] \in Token
  OBVIOUS
<1>2. \A k \in 1 .. Len(s) : \A x \in Sound(cases, M) : FlatTurn(cases, x, s[k]) \in Sound(cases, M)
  BY <1>1, ReadSound DEF FlatTurn, Sound, Results
<1>3. FlatRuns(cases, b, s, Sound(cases, M))
  BY <1>2, FlatSteps
<1>4. Len(s) \in 0 .. Len(s)
  OBVIOUS
<1>5. QED BY <1>3, <1>4 DEF FlatRuns

\* A LogText that was parsed is sound.
LEMMA LogTextSound ==
  ASSUME NEW s \in Seq(Token), ParseFlat(EmptyLogText, LogText_Cases, s).ok
  PROVE  /\ ParseFlat(EmptyLogText, LogText_Cases, s).msg \in LogTextMsg
         /\ SoundMsg(LogText_Cases, ParseFlat(EmptyLogText, LogText_Cases, s).msg)
<1> DEFINE b == [ok |-> TRUE, msg |-> EmptyLogText]
<1>1. /\ EmptyLogText \in LogTextMsg /\ Class(LogText_Cases, LogTextMsg)
      /\ Distinct(LogText_Cases) /\ DOMAIN LogText_Cases = {1, 2, 3}
  <2>1. EmptyLogText \in LogTextMsg
    BY DEF EmptyLogText, LogTextMsg
  <2>2. PyFields("LogText") = LogText_Cases
    BY DEF PyFields, PyLogText, LogText_Cases
  <2>3. QED BY <2>1, <2>2, LogTextClass, LogTextFielded DEF Fielded
<1>2. SoundMsg(LogText_Cases, EmptyLogText)
  <2>1. Strangers(LogText_Cases, EmptyLogText.unknown)
    BY DEF EmptyLogText, Strangers
  <2>2. \A i \in {1, 2, 3} : LogText_Cases[i].type \in {"string", "strings"}
                             /\ EmptyLogText[LogText_Cases[i].name] = << >>
    BY LogTextClass DEF Field, EmptyLogText
  <2>3. Utf8(<< >>)
    BY DEF Utf8
  <2>4. \A i \in {1, 2, 3} : /\ Kept(LogText_Cases[i], EmptyLogText[LogText_Cases[i].name])
                             /\ Legible(LogText_Cases[i], EmptyLogText[LogText_Cases[i].name])
    BY <2>2, <2>3 DEF Kept, Legible, TextsIn
  <2>5. QED BY <1>1, <2>1, <2>4 DEF SoundMsg
<1>3. b \in Sound(LogText_Cases, LogTextMsg)
  BY <1>1, <1>2 DEF Sound, Results
<1>4. ParseFlat(EmptyLogText, LogText_Cases, s) = FlatAll(LogText_Cases, b, s)
  BY DEF ParseFlat, FlatAll
<1>5. FlatAll(LogText_Cases, b, s) \in Sound(LogText_Cases, LogTextMsg)
  <2> HIDE DEF b
  <2>1. QED BY <1>1, <1>3, FlatSound
<1>6. QED BY <1>4, <1>5 DEF Sound, Results

\* The texts of a message are among those of its class.
LEMMA LogTextLegible ==
  ASSUME NEW x \in LogTextMsg, SoundMsg(LogText_Cases, x)
  PROVE  Utf8(x.ip_port) /\ Utf8(x.gns_name) /\ \A k \in DOMAIN x.text : Utf8(x.text[k])
<1>1. /\ Legible(LogText_Cases[1], x[LogText_Cases[1].name])
      /\ Legible(LogText_Cases[2], x[LogText_Cases[2].name])
      /\ Legible(LogText_Cases[3], x[LogText_Cases[3].name])
  BY LogTextClass DEF SoundMsg
<1>2. /\ LogText_Cases[1].type = "string" /\ LogText_Cases[1].name = "ip_port"
      /\ LogText_Cases[2].type = "string" /\ LogText_Cases[2].name = "gns_name"
      /\ LogText_Cases[3].type = "strings" /\ LogText_Cases[3].name = "text"
  BY LogTextClass DEF Field
<1>3. QED BY <1>1, <1>2 DEF Legible, TextsIn

\* Reading any token keeps a message sound.
LEMMA AnySound ==
  ASSUME NEW cases, NEW M, Class(cases, M), Distinct(cases), NEW m \in M,
         NEW t \in Tokens(cases), SoundMsg(cases, m)
  PROVE  ReadAny(cases, m, t) \in Sound(cases, M)
<1>0. ReadAny(cases, m, t) \in Results(M)
  BY ReadAnyKeeps
<1>1. CASE t.kind # "message"
  <2>1. t \in Token
    BY <1>1, TokenIs DEF Tokens
  <2>2. QED BY <1>1, <2>1, ReadSound DEF ReadAny
<1>2. CASE t.kind = "message"
  <2> DEFINE i == t.num
             c == cases[i]
             inner == ParseFlat(c.empty, c.cases, t.val)
             v == Append(m[c.name], inner.msg)
  <2>1. Accepts(cases, t) /\ t.val \in Seq(Token)
    <3>1. t \notin Token
      BY <1>2 DEF Token
    <3>2. QED BY <1>2, <3>1, TokenIs DEF Tokens
  <2>2. i \in DOMAIN cases /\ HasField(c, M) /\ c.kind = "message"
    BY <1>2, <2>1 DEF Accepts, Class
  <2>3. c.type = "messages" /\ c.empty = EmptyLogText /\ c.cases = LogText_Cases
    BY <2>2 DEF HasField, KindOf
  <2>4. ReadAny(cases, m, t) = [ok |-> inner.ok, msg |-> With(m, c.name, v)]
    BY <1>2, <2>1 DEF ReadAny, With
  <2>5. ASSUME inner.ok PROVE SoundMsg(cases, With(m, c.name, v))
    <3> DEFINE x == inner.msg
               old == m[c.name]
    <3>1. x \in LogTextMsg /\ SoundMsg(LogText_Cases, x)
      BY <2>1, <2>3, <2>5, LogTextSound
    <3>2. /\ Strangers(LogText_Cases, x.unknown) /\ Utf8(x.ip_port) /\ Utf8(x.gns_name)
          /\ \A k \in DOMAIN x.text : Utf8(x.text[k])
      <4> HIDE DEF x
      <4>1. QED BY <3>1, LogTextLegible DEF SoundMsg
    <3>3. old \in Seq(LogTextMsg) /\ Kept(c, old) /\ Legible(c, old)
      BY <2>2, <2>3 DEF HasField, Values, SoundMsg
    <3> HIDE DEF x, old, inner
    <3>4. DOMAIN old = 1 .. Len(old)
      BY <3>3
    <3>5. ASSUME NEW k \in DOMAIN old
          PROVE  /\ Strangers(LogText_Cases, old[k].unknown)
                 /\ Utf8(old[k].ip_port) /\ Utf8(old[k].gns_name)
                 /\ \A j \in DOMAIN old[k].text : Utf8(old[k].text[j])
      <4>1. Strangers(LogText_Cases, old[k].unknown)
        BY <2>3, <3>3, <3>4 DEF Kept
      <4>2. \A text \in {old[k].ip_port, old[k].gns_name} \cup
                        {old[k].text[j] : j \in DOMAIN old[k].text} :
              text \in TextsIn(c.type, old)
        BY <2>3 DEF TextsIn
      <4>3. QED BY <3>3, <4>1, <4>2 DEF Legible
    <3> DEFINE new == Append(old, x)
    <3>6. \A k \in DOMAIN new : new[k] \in {old[j] : j \in DOMAIN old} \cup {x}
      BY <3>1, <3>3, TextsAppended
    <3>7. DOMAIN new = 1 .. Len(new)
      BY <3>1, <3>3
    <3> HIDE DEF new
    <3>8. ASSUME NEW k \in DOMAIN new
          PROVE  /\ Strangers(LogText_Cases, new[k].unknown)
                 /\ Utf8(new[k].ip_port) /\ Utf8(new[k].gns_name)
                 /\ \A j \in DOMAIN new[k].text : Utf8(new[k].text[j])
      <4>1. CASE new[k] = x
        BY <3>2, <4>1
      <4>2. CASE \E j \in DOMAIN old : new[k] = old[j]
        BY <3>5, <4>2
      <4>3. QED BY <3>6, <4>1, <4>2
    <3>9. Kept(c, new)
      BY <3>7, <3>8 DEF Kept
    <3>10. Legible(c, new)
      <4>1. ASSUME NEW text \in TextsIn(c.type, new) PROVE Utf8(text)
        <5>1. PICK k \in DOMAIN new :
                text \in {new[k].ip_port, new[k].gns_name} \cup
                         {new[k].text[j] : j \in DOMAIN new[k].text}
          BY <2>3, <4>1 DEF TextsIn
        <5>2. QED BY <3>8, <5>1
      <4>2. QED BY <4>1 DEF Legible
    <3>11. SoundMsg(cases, With(m, c.name, new))
      BY <2>2, <3>9, <3>10, SoundGiven
    <3>12. QED BY <3>11 DEF new, old, x
  <2>6. QED BY <1>0, <2>4, <2>5 DEF Sound
<1>3. QED BY <1>1, <1>2

\* Parsing keeps a message sound.
LEMMA ParsedSound ==
  ASSUME NEW cases, NEW M, Class(cases, M), Distinct(cases), NEW b \in Sound(cases, M),
         NEW s \in Seq(Tokens(cases))
  PROVE  ParsedAll(cases, b, s) \in Sound(cases, M)
<1>1. \A k \in 1 .. Len(s) : s[k] \in Tokens(cases)
  OBVIOUS
<1>2. \A k \in 1 .. Len(s) : \A x \in Sound(cases, M) : Turn(cases, x, s[k]) \in Sound(cases, M)
  BY <1>1, AnySound DEF Turn, Sound, Results
<1>3. ParsedRuns(cases, b, s, Sound(cases, M))
  BY <1>2, ParsedSteps
<1>4. Len(s) \in 0 .. Len(s)
  OBVIOUS
<1>5. QED BY <1>3, <1>4 DEF ParsedRuns

\* What PySerialize writes for the field with number num.
Wrote(fields, m, num) == PyField(fields[num], num, m[fields[num].name])

\* The fields with the numbers of s.
Written(fields, m, s) ==
  FoldLeft(LAMBDA w, num : w \o PyField(fields[num], num, m[fields[num].name]), << >>, s)

\* PySerialize, one field after the other.
WrittenRuns(fields, m, s, S) ==
  \E f : /\ f \in [0 .. Len(s) -> S] /\ f[0] = << >>
         /\ \A k \in 1 .. Len(s) : f[k] = (f[k - 1] \o Wrote(fields, m, s[k]))
         /\ Written(fields, m, s) = f[Len(s)]

\* PySerialize is the last of a row of wires.
LEMMA WrittenSteps ==
  ASSUME NEW fields, NEW m, NEW C, NEW s \in Seq(C), NEW S, << >> \in S
  PROVE  (\A k \in 1 .. Len(s) : \A x \in S : (x \o Wrote(fields, m, s[k])) \in S)
         => WrittenRuns(fields, m, s, S)
<1>0. SUFFICES ASSUME \A k \in 1 .. Len(s) : \A x \in S : (x \o Wrote(fields, m, s[k])) \in S
      PROVE  WrittenRuns(fields, m, s, S)
  OBVIOUS
<1> DEFINE n == Len(s)
           base == << >>
           step == [p \in (1 .. n) \X S |-> (p[2] \o Wrote(fields, m, s[p[1]]))]
           turn(f, t) == IF t = {} THEN base
                         ELSE (f[t \ {Max(t)}] \o Wrote(fields, m, s[Max(t)]))
           iter == CHOOSE iter : iter = [t \in SUBSET DOMAIN s |-> turn(iter, t)]
<1>1. DOMAIN s = 1 .. n /\ n \in Nat
  OBVIOUS
<1>a. Written(fields, m, s) = iter[DOMAIN s]
  BY DEF Written, Wrote, FoldLeft, MapThenFoldSet
<1>2. step \in [(1 .. n) \X S -> S] /\ base \in S
  BY <1>0
<1> HIDE DEF n, base
<1>3. \E h : h = [t \in SUBSET (1 .. n) |-> turn(h, t)]
  <2>1. PICK h : Folded(S, base, n, step, h)
    <3> HIDE DEF step
    <3>1. QED BY <1>1, <1>2, FoldIs
  <2> DEFINE g == [t \in SUBSET (1 .. n) |-> h[t]]
  <2>2. ASSUME NEW t \in SUBSET (1 .. n) PROVE g[t] = turn(g, t)
    BY <2>1 DEF Folded
  <2>3. g = [t \in SUBSET (1 .. n) |-> turn(g, t)]
    <3>1. g = [t \in SUBSET (1 .. n) |-> g[t]]
      OBVIOUS
    <3> HIDE DEF turn, g
    <3>2. QED BY <2>2, <3>1
  <2>4. QED BY <2>3
<1>4. iter = [t \in SUBSET (1 .. n) |-> turn(iter, t)]
  BY <1>1, <1>3
<1>5. \A t \in SUBSET (1 .. n) : iter[t] = turn(iter, t)
  <2> HIDE DEF turn, iter
  <2>1. QED BY <1>4
<1> HIDE DEF iter
<1>6. Iterates(iter, S, base, n, step)
  <2>1. iter[{}] = base
    BY <1>5
  <2>2. ASSUME NEW t \in SUBSET (1 .. n), t # {}, iter[t \ {Max(t)}] \in S
        PROVE  iter[t] = step[<<Max(t), iter[t \ {Max(t)}]>>]
    <3>1. Max(t) \in 1 .. n
      BY <1>1, <2>2, LastIn
    <3>2. QED BY <1>5, <2>2, <3>1
  <2>3. QED BY <2>1, <2>2 DEF Iterates
<1>7. PICK f : Trace(f, S, base, n, step) /\ iter[1 .. n] = f[n]
  <2> HIDE DEF step
  <2>1. HasTrace(iter, S, base, n, step)
    BY <1>1, <1>2, <1>6, TraceOf
  <2>2. QED BY <2>1 DEF HasTrace
<1>8. ASSUME NEW k \in 1 .. n PROVE f[k] = (f[k - 1] \o Wrote(fields, m, s[k]))
  <2>1. k - 1 \in 0 .. n
    BY <1>1
  <2>2. <<k, f[k - 1]>> \in (1 .. n) \X S
    BY <1>7, <2>1 DEF Trace
  <2>3. QED BY <1>7, <2>2 DEF Trace
<1>9. QED BY <1>1, <1>a, <1>7, <1>8 DEF WrittenRuns, Trace, n, base

\* PySerialize writes the fields in the order of their numbers.
LEMMA FieldByField ==
  ASSUME NEW cases, NEW m, NEW n \in Nat, DOMAIN cases = 1 .. n,
         \A k \in 1 .. n : Wrote(cases, m, k) \in Seq(Wired)
  PROVE  \E f : /\ f[0] = << >> /\ PySerialize(cases, m) = f[n] \o m.unknown
                /\ \A k \in 1 .. n : f[k] = (f[k - 1] \o Wrote(cases, m, k))
<1> DEFINE s == [num \in DOMAIN cases |-> num]
<1>1. s \in Seq(1 .. n) /\ Len(s) = n /\ \A k \in 1 .. n : s[k] = k
  <2>1. s \in [1 .. n -> 1 .. n]
    OBVIOUS
  <2>2. \A k \in 1 .. n : s[k] = k
    OBVIOUS
  <2> HIDE DEF s
  <2>3. QED BY <2>1, <2>2
<1>2. PySerialize(cases, m) = Written(cases, m, s) \o m.unknown
  BY DEF PySerialize, Written
<1> HIDE DEF s
<1>3. \A k \in 1 .. Len(s) : \A x \in Seq(Wired) : (x \o Wrote(cases, m, s[k])) \in Seq(Wired)
  <2>1. ASSUME NEW k \in 1 .. Len(s), NEW x \in Seq(Wired)
        PROVE  (x \o Wrote(cases, m, s[k])) \in Seq(Wired)
    <3>1. Wrote(cases, m, s[k]) \in Seq(Wired)
      BY <1>1
    <3> HIDE DEF Wrote
    <3>2. QED BY <3>1
  <2>2. QED BY <2>1
<1>4. WrittenRuns(cases, m, s, Seq(Wired))
  <2>1. << >> \in Seq(Wired)
    OBVIOUS
  <2>2. QED BY <1>1, <1>3, <2>1, WrittenSteps
<1>5. PICK f : /\ f[0] = << >> /\ Written(cases, m, s) = f[Len(s)]
               /\ \A k \in 1 .. Len(s) : f[k] = (f[k - 1] \o Wrote(cases, m, s[k]))
  BY <1>4 DEF WrittenRuns
<1>6. \A k \in 1 .. n : f[k] = (f[k - 1] \o Wrote(cases, m, k))
  BY <1>1, <1>5
<1>7. PySerialize(cases, m) = f[n] \o m.unknown
  BY <1>1, <1>2, <1>5
<1>8. QED BY <1>5, <1>6, <1>7

\* Python writes LoginReq field by field, in the order of _InternalSerialize.
LEMMA LoginReqWritten ==
  ASSUME NEW m \in LoginReqMsg
  PROVE  PySerialize(PyLoginReq, m) = LoginReq_Serialize(m)
<1> DEFINE w1 == StringField(1, m.user_name)
           w2 == StringField(2, m.password)
           w3 == IntField(3, m.fd)
           w4 == IntField(4, m.req_begin_time)
<1>f. m.user_name \in Seq(Byte) /\ m.password \in Seq(Byte) /\ m.fd \in Int /\ m.req_begin_time \in Int
  BY NumbersBack DEF LoginReqMsg
<1>1. PyLoginReq = LoginReq_Cases
  BY DEF PyLoginReq, LoginReq_Cases
<1>2. DOMAIN LoginReq_Cases = 1 .. 4
  BY LoginReqClass
<1>p1. Wrote(LoginReq_Cases, m, 1) = w1 /\ w1 \in Seq(Wired)
  <2>1. LoginReq_Cases[1].type = "string" /\ LoginReq_Cases[1].name = "user_name"
    BY LoginReqClass DEF Field
  <2>2. Sized(w1, StringSize(m.user_name))
    BY <1>f, SizedString
  <2>3. QED BY <2>1, <2>2 DEF Wrote, PyField, Sized
<1>p2. Wrote(LoginReq_Cases, m, 2) = w2 /\ w2 \in Seq(Wired)
  <2>1. LoginReq_Cases[2].type = "string" /\ LoginReq_Cases[2].name = "password"
    BY LoginReqClass DEF Field
  <2>2. Sized(w2, StringSize(m.password))
    BY <1>f, SizedString
  <2>3. QED BY <2>1, <2>2 DEF Wrote, PyField, Sized
<1>p3. Wrote(LoginReq_Cases, m, 3) = w3 /\ w3 \in Seq(Wired)
  <2>1. LoginReq_Cases[3].type = "int32" /\ LoginReq_Cases[3].name = "fd"
    BY LoginReqClass DEF Field
  <2>2. Sized(w3, IntSize(m.fd))
    BY <1>f, SizedInt
  <2>3. QED BY <2>1, <2>2 DEF Wrote, PyField, Sized
<1>p4. Wrote(LoginReq_Cases, m, 4) = w4 /\ w4 \in Seq(Wired)
  <2>1. LoginReq_Cases[4].type = "int32" /\ LoginReq_Cases[4].name = "req_begin_time"
    BY LoginReqClass DEF Field
  <2>2. Sized(w4, IntSize(m.req_begin_time))
    BY <1>f, SizedInt
  <2>3. QED BY <2>1, <2>2 DEF Wrote, PyField, Sized
<1> HIDE DEF w1, w2, w3, w4
<1>4. \A k \in 1 .. 4 : Wrote(LoginReq_Cases, m, k) \in Seq(Wired)
  BY <1>p1, <1>p2, <1>p3, <1>p4
<1>6. PICK f : /\ f[0] = << >> /\ PySerialize(LoginReq_Cases, m) = f[4] \o m.unknown
               /\ \A k \in 1 .. 4 : f[k] = (f[k - 1] \o Wrote(LoginReq_Cases, m, k))
  <2>1. 4 \in Nat
    OBVIOUS
  <2>2. QED BY <1>2, <1>4, <2>1, FieldByField
<1>s1. f[1] = w1
  <2>1. 1 \in 1 .. 4 /\ 1 - 1 = 0
    OBVIOUS
  <2>2. f[1] = << >> \o w1
    BY <1>6, <1>p1, <2>1
  <2>3. QED BY <1>p1, <2>2
<1>s2. f[2] = w1 \o w2
  <2>1. 2 \in 1 .. 4 /\ 2 - 1 = 1
    OBVIOUS
  <2>2. QED BY <1>6, <1>p2, <1>s1, <2>1
<1>s3. f[3] = w1 \o w2 \o w3
  <2>1. 3 \in 1 .. 4 /\ 3 - 1 = 2
    OBVIOUS
  <2>2. QED BY <1>6, <1>p3, <1>s2, <2>1
<1>s4. f[4] = w1 \o w2 \o w3 \o w4
  <2>1. 4 \in 1 .. 4 /\ 4 - 1 = 3
    OBVIOUS
  <2>2. QED BY <1>6, <1>p4, <1>s3, <2>1
<1>7. LoginReq_Serialize(m) = w1 \o w2 \o w3 \o w4 \o m.unknown
  BY DEF LoginReq_Serialize, w1, w2, w3, w4
<1>8. QED BY <1>1, <1>6, <1>s4, <1>7

\* Python writes LoginResp field by field, in the order of _InternalSerialize.
LEMMA LoginRespWritten ==
  ASSUME NEW m \in LoginRespMsg
  PROVE  PySerialize(PyLoginResp, m) = LoginResp_Serialize(m)
<1> DEFINE w1 == StringField(1, m.session_id)
           w2 == IntField(2, m.fd)
           w3 == IntField(3, m.req_begin_time)
           w4 == IntField(4, m.ret)
           w5 == StringField(5, m.ret_msg)
<1>f. m.session_id \in Seq(Byte) /\ m.fd \in Int /\ m.req_begin_time \in Int /\ m.ret \in Int
      /\ m.ret_msg \in Seq(Byte)
  BY NumbersBack DEF LoginRespMsg
<1>1. PyLoginResp = LoginResp_Cases
  BY DEF PyLoginResp, LoginResp_Cases
<1>2. DOMAIN LoginResp_Cases = 1 .. 5
  BY LoginRespClass
<1>p1. Wrote(LoginResp_Cases, m, 1) = w1 /\ w1 \in Seq(Wired)
  <2>1. LoginResp_Cases[1].type = "string" /\ LoginResp_Cases[1].name = "session_id"
    BY LoginRespClass DEF Field
  <2>2. Sized(w1, StringSize(m.session_id))
    BY <1>f, SizedString
  <2>3. QED BY <2>1, <2>2 DEF Wrote, PyField, Sized
<1>p2. Wrote(LoginResp_Cases, m, 2) = w2 /\ w2 \in Seq(Wired)
  <2>1. LoginResp_Cases[2].type = "int32" /\ LoginResp_Cases[2].name = "fd"
    BY LoginRespClass DEF Field
  <2>2. Sized(w2, IntSize(m.fd))
    BY <1>f, SizedInt
  <2>3. QED BY <2>1, <2>2 DEF Wrote, PyField, Sized
<1>p3. Wrote(LoginResp_Cases, m, 3) = w3 /\ w3 \in Seq(Wired)
  <2>1. LoginResp_Cases[3].type = "int32" /\ LoginResp_Cases[3].name = "req_begin_time"
    BY LoginRespClass DEF Field
  <2>2. Sized(w3, IntSize(m.req_begin_time))
    BY <1>f, SizedInt
  <2>3. QED BY <2>1, <2>2 DEF Wrote, PyField, Sized
<1>p4. Wrote(LoginResp_Cases, m, 4) = w4 /\ w4 \in Seq(Wired)
  <2>1. LoginResp_Cases[4].type = "int32" /\ LoginResp_Cases[4].name = "ret"
    BY LoginRespClass DEF Field
  <2>2. Sized(w4, IntSize(m.ret))
    BY <1>f, SizedInt
  <2>3. QED BY <2>1, <2>2 DEF Wrote, PyField, Sized
<1>p5. Wrote(LoginResp_Cases, m, 5) = w5 /\ w5 \in Seq(Wired)
  <2>1. LoginResp_Cases[5].type = "string" /\ LoginResp_Cases[5].name = "ret_msg"
    BY LoginRespClass DEF Field
  <2>2. Sized(w5, StringSize(m.ret_msg))
    BY <1>f, SizedString
  <2>3. QED BY <2>1, <2>2 DEF Wrote, PyField, Sized
<1> HIDE DEF w1, w2, w3, w4, w5
<1>4. \A k \in 1 .. 5 : Wrote(LoginResp_Cases, m, k) \in Seq(Wired)
  BY <1>p1, <1>p2, <1>p3, <1>p4, <1>p5
<1>6. PICK f : /\ f[0] = << >> /\ PySerialize(LoginResp_Cases, m) = f[5] \o m.unknown
               /\ \A k \in 1 .. 5 : f[k] = (f[k - 1] \o Wrote(LoginResp_Cases, m, k))
  <2>1. 5 \in Nat
    OBVIOUS
  <2>2. QED BY <1>2, <1>4, <2>1, FieldByField
<1>s1. f[1] = w1
  <2>1. 1 \in 1 .. 5 /\ 1 - 1 = 0
    OBVIOUS
  <2>2. f[1] = << >> \o w1
    BY <1>6, <1>p1, <2>1
  <2>3. QED BY <1>p1, <2>2
<1>s2. f[2] = w1 \o w2
  <2>1. 2 \in 1 .. 5 /\ 2 - 1 = 1
    OBVIOUS
  <2>2. QED BY <1>6, <1>p2, <1>s1, <2>1
<1>s3. f[3] = w1 \o w2 \o w3
  <2>1. 3 \in 1 .. 5 /\ 3 - 1 = 2
    OBVIOUS
  <2>2. QED BY <1>6, <1>p3, <1>s2, <2>1
<1>s4. f[4] = w1 \o w2 \o w3 \o w4
  <2>1. 4 \in 1 .. 5 /\ 4 - 1 = 3
    OBVIOUS
  <2>2. QED BY <1>6, <1>p4, <1>s3, <2>1
<1>s5. f[5] = w1 \o w2 \o w3 \o w4 \o w5
  <2>1. 5 \in 1 .. 5 /\ 5 - 1 = 4
    OBVIOUS
  <2>2. QED BY <1>6, <1>p5, <1>s4, <2>1
<1>7. LoginResp_Serialize(m) = w1 \o w2 \o w3 \o w4 \o w5 \o m.unknown
  BY DEF LoginResp_Serialize, w1, w2, w3, w4, w5
<1>8. QED BY <1>1, <1>6, <1>s5, <1>7

\* Python writes GnsInfoReq field by field, in the order of _InternalSerialize.
LEMMA GnsInfoReqWritten ==
  ASSUME NEW m \in GnsInfoReqMsg
  PROVE  PySerialize(PyGnsInfoReq, m) = GnsInfoReq_Serialize(m)
<1> DEFINE w1 == StringFields(1, m.gns_name)
           w2 == StringFields(2, m.ip_port)
<1>f. m.gns_name \in Seq(Seq(Byte)) /\ m.ip_port \in Seq(Seq(Byte))
  BY NumbersBack DEF GnsInfoReqMsg
<1>1. PyGnsInfoReq = GnsInfoReq_Cases
  BY DEF PyGnsInfoReq, GnsInfoReq_Cases
<1>2. DOMAIN GnsInfoReq_Cases = 1 .. 2
  BY GnsInfoReqClass
<1>p1. Wrote(GnsInfoReq_Cases, m, 1) = w1 /\ w1 \in Seq(Wired)
  <2>1. GnsInfoReq_Cases[1].type = "strings" /\ GnsInfoReq_Cases[1].name = "gns_name"
    BY GnsInfoReqClass DEF Field
  <2>2. Sized(w1, StringsSize(m.gns_name))
    BY <1>f, SizedStrings
  <2>3. QED BY <2>1, <2>2 DEF Wrote, PyField, Sized
<1>p2. Wrote(GnsInfoReq_Cases, m, 2) = w2 /\ w2 \in Seq(Wired)
  <2>1. GnsInfoReq_Cases[2].type = "strings" /\ GnsInfoReq_Cases[2].name = "ip_port"
    BY GnsInfoReqClass DEF Field
  <2>2. Sized(w2, StringsSize(m.ip_port))
    BY <1>f, SizedStrings
  <2>3. QED BY <2>1, <2>2 DEF Wrote, PyField, Sized
<1> HIDE DEF w1, w2
<1>4. \A k \in 1 .. 2 : Wrote(GnsInfoReq_Cases, m, k) \in Seq(Wired)
  BY <1>p1, <1>p2
<1>6. PICK f : /\ f[0] = << >> /\ PySerialize(GnsInfoReq_Cases, m) = f[2] \o m.unknown
               /\ \A k \in 1 .. 2 : f[k] = (f[k - 1] \o Wrote(GnsInfoReq_Cases, m, k))
  <2>1. 2 \in Nat
    OBVIOUS
  <2>2. QED BY <1>2, <1>4, <2>1, FieldByField
<1>s1. f[1] = w1
  <2>1. 1 \in 1 .. 2 /\ 1 - 1 = 0
    OBVIOUS
  <2>2. f[1] = << >> \o w1
    BY <1>6, <1>p1, <2>1
  <2>3. QED BY <1>p1, <2>2
<1>s2. f[2] = w1 \o w2
  <2>1. 2 \in 1 .. 2 /\ 2 - 1 = 1
    OBVIOUS
  <2>2. QED BY <1>6, <1>p2, <1>s1, <2>1
<1>7. GnsInfoReq_Serialize(m) = w1 \o w2 \o m.unknown
  BY DEF GnsInfoReq_Serialize, w1, w2
<1>8. QED BY <1>1, <1>6, <1>s2, <1>7

\* Python writes CfgInfoReq field by field, in the order of _InternalSerialize.
LEMMA CfgInfoReqWritten ==
  ASSUME NEW m \in CfgInfoReqMsg
  PROVE  PySerialize(PyCfgInfoReq, m) = CfgInfoReq_Serialize(m)
<1> DEFINE w1 == StringField(1, m.session_id)
           w2 == IntField(2, m.p1)
           w3 == IntField(3, m.p2)
           w4 == StringField(4, m.p3)
           w5 == StringField(5, m.gns_name)
           w6 == StringField(6, m.ip_port)
           w7 == IntField(7, m.fd)
           w8 == IntField(8, m.req_begin_time)
<1>f. m.session_id \in Seq(Byte) /\ m.p1 \in Int /\ m.p2 \in Int /\ m.p3 \in Seq(Byte)
      /\ m.gns_name \in Seq(Byte) /\ m.ip_port \in Seq(Byte) /\ m.fd \in Int /\ m.req_begin_time \in Int
  BY NumbersBack DEF CfgInfoReqMsg
<1>1. PyCfgInfoReq = CfgInfoReq_Cases
  BY DEF PyCfgInfoReq, CfgInfoReq_Cases
<1>2. DOMAIN CfgInfoReq_Cases = 1 .. 8
  BY CfgInfoReqClass
<1>p1. Wrote(CfgInfoReq_Cases, m, 1) = w1 /\ w1 \in Seq(Wired)
  <2>1. CfgInfoReq_Cases[1].type = "string" /\ CfgInfoReq_Cases[1].name = "session_id"
    BY CfgInfoReqClass DEF Field
  <2>2. Sized(w1, StringSize(m.session_id))
    BY <1>f, SizedString
  <2>3. QED BY <2>1, <2>2 DEF Wrote, PyField, Sized
<1>p2. Wrote(CfgInfoReq_Cases, m, 2) = w2 /\ w2 \in Seq(Wired)
  <2>1. CfgInfoReq_Cases[2].type = "int32" /\ CfgInfoReq_Cases[2].name = "p1"
    BY CfgInfoReqClass DEF Field
  <2>2. Sized(w2, IntSize(m.p1))
    BY <1>f, SizedInt
  <2>3. QED BY <2>1, <2>2 DEF Wrote, PyField, Sized
<1>p3. Wrote(CfgInfoReq_Cases, m, 3) = w3 /\ w3 \in Seq(Wired)
  <2>1. CfgInfoReq_Cases[3].type = "int64" /\ CfgInfoReq_Cases[3].name = "p2"
    BY CfgInfoReqClass DEF Field
  <2>2. Sized(w3, IntSize(m.p2))
    BY <1>f, SizedInt
  <2>3. QED BY <2>1, <2>2 DEF Wrote, PyField, Sized
<1>p4. Wrote(CfgInfoReq_Cases, m, 4) = w4 /\ w4 \in Seq(Wired)
  <2>1. CfgInfoReq_Cases[4].type = "string" /\ CfgInfoReq_Cases[4].name = "p3"
    BY CfgInfoReqClass DEF Field
  <2>2. Sized(w4, StringSize(m.p3))
    BY <1>f, SizedString
  <2>3. QED BY <2>1, <2>2 DEF Wrote, PyField, Sized
<1>p5. Wrote(CfgInfoReq_Cases, m, 5) = w5 /\ w5 \in Seq(Wired)
  <2>1. CfgInfoReq_Cases[5].type = "string" /\ CfgInfoReq_Cases[5].name = "gns_name"
    BY CfgInfoReqClass DEF Field
  <2>2. Sized(w5, StringSize(m.gns_name))
    BY <1>f, SizedString
  <2>3. QED BY <2>1, <2>2 DEF Wrote, PyField, Sized
<1>p6. Wrote(CfgInfoReq_Cases, m, 6) = w6 /\ w6 \in Seq(Wired)
  <2>1. CfgInfoReq_Cases[6].type = "string" /\ CfgInfoReq_Cases[6].name = "ip_port"
    BY CfgInfoReqClass DEF Field
  <2>2. Sized(w6, StringSize(m.ip_port))
    BY <1>f, SizedString
  <2>3. QED BY <2>1, <2>2 DEF Wrote, PyField, Sized
<1>p7. Wrote(CfgInfoReq_Cases, m, 7) = w7 /\ w7 \in Seq(Wired)
  <2>1. CfgInfoReq_Cases[7].type = "int32" /\ CfgInfoReq_Cases[7].name = "fd"
    BY CfgInfoReqClass DEF Field
  <2>2. Sized(w7, IntSize(m.fd))
    BY <1>f, SizedInt
  <2>3. QED BY <2>1, <2>2 DEF Wrote, PyField, Sized
<1>p8. Wrote(CfgInfoReq_Cases, m, 8) = w8 /\ w8 \in Seq(Wired)
  <2>1. CfgInfoReq_Cases[8].type = "int32" /\ CfgInfoReq_Cases[8].name = "req_begin_time"
    BY CfgInfoReqClass DEF Field
  <2>2. Sized(w8, IntSize(m.req_begin_time))
    BY <1>f, SizedInt
  <2>3. QED BY <2>1, <2>2 DEF Wrote, PyField, Sized
<1> HIDE DEF w1, w2, w3, w4, w5, w6, w7, w8
<1>4. \A k \in 1 .. 8 : Wrote(CfgInfoReq_Cases, m, k) \in Seq(Wired)
  BY <1>p1, <1>p2, <1>p3, <1>p4, <1>p5, <1>p6, <1>p7, <1>p8
<1>6. PICK f : /\ f[0] = << >> /\ PySerialize(CfgInfoReq_Cases, m) = f[8] \o m.unknown
               /\ \A k \in 1 .. 8 : f[k] = (f[k - 1] \o Wrote(CfgInfoReq_Cases, m, k))
  <2>1. 8 \in Nat
    OBVIOUS
  <2>2. QED BY <1>2, <1>4, <2>1, FieldByField
<1>s1. f[1] = w1
  <2>1. 1 \in 1 .. 8 /\ 1 - 1 = 0
    OBVIOUS
  <2>2. f[1] = << >> \o w1
    BY <1>6, <1>p1, <2>1
  <2>3. QED BY <1>p1, <2>2
<1>s2. f[2] = w1 \o w2
  <2>1. 2 \in 1 .. 8 /\ 2 - 1 = 1
    OBVIOUS
  <2>2. QED BY <1>6, <1>p2, <1>s1, <2>1
<1>s3. f[3] = w1 \o w2 \o w3
  <2>1. 3 \in 1 .. 8 /\ 3 - 1 = 2
    OBVIOUS
  <2>2. QED BY <1>6, <1>p3, <1>s2, <2>1
<1>s4. f[4] = w1 \o w2 \o w3 \o w4
  <2>1. 4 \in 1 .. 8 /\ 4 - 1 = 3
    OBVIOUS
  <2>2. QED BY <1>6, <1>p4, <1>s3, <2>1
<1>s5. f[5] = w1 \o w2 \o w3 \o w4 \o w5
  <2>1. 5 \in 1 .. 8 /\ 5 - 1 = 4
    OBVIOUS
  <2>2. QED BY <1>6, <1>p5, <1>s4, <2>1
<1>s6. f[6] = w1 \o w2 \o w3 \o w4 \o w5 \o w6
  <2>1. 6 \in 1 .. 8 /\ 6 - 1 = 5
    OBVIOUS
  <2>2. QED BY <1>6, <1>p6, <1>s5, <2>1
<1>s7. f[7] = w1 \o w2 \o w3 \o w4 \o w5 \o w6 \o w7
  <2>1. 7 \in 1 .. 8 /\ 7 - 1 = 6
    OBVIOUS
  <2>2. QED BY <1>6, <1>p7, <1>s6, <2>1
<1>s8. f[8] = w1 \o w2 \o w3 \o w4 \o w5 \o w6 \o w7 \o w8
  <2>1. 8 \in 1 .. 8 /\ 8 - 1 = 7
    OBVIOUS
  <2>2. QED BY <1>6, <1>p8, <1>s7, <2>1
<1>7. CfgInfoReq_Serialize(m) = w1 \o w2 \o w3 \o w4 \o w5 \o w6 \o w7 \o w8 \o m.unknown
  BY DEF CfgInfoReq_Serialize, w1, w2, w3, w4, w5, w6, w7, w8
<1>8. QED BY <1>1, <1>6, <1>s8, <1>7

\* Python writes CfgInfoResp field by field, in the order of _InternalSerialize.
LEMMA CfgInfoRespWritten ==
  ASSUME NEW m \in CfgInfoRespMsg
  PROVE  PySerialize(PyCfgInfoResp, m) = CfgInfoResp_Serialize(m)
<1> DEFINE w1 == IntField(1, m.ret)
           w2 == StringField(2, m.ret_msg)
           w3 == IntField(3, m.fd)
           w4 == IntField(4, m.req_begin_time)
<1>f. m.ret \in Int /\ m.ret_msg \in Seq(Byte) /\ m.fd \in Int /\ m.req_begin_time \in Int
  BY NumbersBack DEF CfgInfoRespMsg
<1>1. PyCfgInfoResp = CfgInfoResp_Cases
  BY DEF PyCfgInfoResp, CfgInfoResp_Cases
<1>2. DOMAIN CfgInfoResp_Cases = 1 .. 4
  BY CfgInfoRespClass
<1>p1. Wrote(CfgInfoResp_Cases, m, 1) = w1 /\ w1 \in Seq(Wired)
  <2>1. CfgInfoResp_Cases[1].type = "int32" /\ CfgInfoResp_Cases[1].name = "ret"
    BY CfgInfoRespClass DEF Field
  <2>2. Sized(w1, IntSize(m.ret))
    BY <1>f, SizedInt
  <2>3. QED BY <2>1, <2>2 DEF Wrote, PyField, Sized
<1>p2. Wrote(CfgInfoResp_Cases, m, 2) = w2 /\ w2 \in Seq(Wired)
  <2>1. CfgInfoResp_Cases[2].type = "string" /\ CfgInfoResp_Cases[2].name = "ret_msg"
    BY CfgInfoRespClass DEF Field
  <2>2. Sized(w2, StringSize(m.ret_msg))
    BY <1>f, SizedString
  <2>3. QED BY <2>1, <2>2 DEF Wrote, PyField, Sized
<1>p3. Wrote(CfgInfoResp_Cases, m, 3) = w3 /\ w3 \in Seq(Wired)
  <2>1. CfgInfoResp_Cases[3].type = "int32" /\ CfgInfoResp_Cases[3].name = "fd"
    BY CfgInfoRespClass DEF Field
  <2>2. Sized(w3, IntSize(m.fd))
    BY <1>f, SizedInt
  <2>3. QED BY <2>1, <2>2 DEF Wrote, PyField, Sized
<1>p4. Wrote(CfgInfoResp_Cases, m, 4) = w4 /\ w4 \in Seq(Wired)
  <2>1. CfgInfoResp_Cases[4].type = "int32" /\ CfgInfoResp_Cases[4].name = "req_begin_time"
    BY CfgInfoRespClass DEF Field
  <2>2. Sized(w4, IntSize(m.req_begin_time))
    BY <1>f, SizedInt
  <2>3. QED BY <2>1, <2>2 DEF Wrote, PyField, Sized
<1> HIDE DEF w1, w2, w3, w4
<1>4. \A k \in 1 .. 4 : Wrote(CfgInfoResp_Cases, m, k) \in Seq(Wired)
  BY <1>p1, <1>p2, <1>p3, <1>p4
<1>6. PICK f : /\ f[0] = << >> /\ PySerialize(CfgInfoResp_Cases, m) = f[4] \o m.unknown
               /\ \A k \in 1 .. 4 : f[k] = (f[k - 1] \o Wrote(CfgInfoResp_Cases, m, k))
  <2>1. 4 \in Nat
    OBVIOUS
  <2>2. QED BY <1>2, <1>4, <2>1, FieldByField
<1>s1. f[1] = w1
  <2>1. 1 \in 1 .. 4 /\ 1 - 1 = 0
    OBVIOUS
  <2>2. f[1] = << >> \o w1
    BY <1>6, <1>p1, <2>1
  <2>3. QED BY <1>p1, <2>2
<1>s2. f[2] = w1 \o w2
  <2>1. 2 \in 1 .. 4 /\ 2 - 1 = 1
    OBVIOUS
  <2>2. QED BY <1>6, <1>p2, <1>s1, <2>1
<1>s3. f[3] = w1 \o w2 \o w3
  <2>1. 3 \in 1 .. 4 /\ 3 - 1 = 2
    OBVIOUS
  <2>2. QED BY <1>6, <1>p3, <1>s2, <2>1
<1>s4. f[4] = w1 \o w2 \o w3 \o w4
  <2>1. 4 \in 1 .. 4 /\ 4 - 1 = 3
    OBVIOUS
  <2>2. QED BY <1>6, <1>p4, <1>s3, <2>1
<1>7. CfgInfoResp_Serialize(m) = w1 \o w2 \o w3 \o w4 \o m.unknown
  BY DEF CfgInfoResp_Serialize, w1, w2, w3, w4
<1>8. QED BY <1>1, <1>6, <1>s4, <1>7

\* Python writes LogInfo field by field, in the order of _InternalSerialize.
LEMMA LogInfoWritten ==
  ASSUME NEW m \in LogInfoMsg
  PROVE  PySerialize(PyLogInfo, m) = LogInfo_Serialize(m)
<1> DEFINE w1 == StringField(1, m.gns_name)
           w2 == StringField(2, m.ip_port)
           w3 == StringField(3, m.session_id)
           w4 == StringField(4, m.log_text)
<1>f. m.gns_name \in Seq(Byte) /\ m.ip_port \in Seq(Byte) /\ m.session_id \in Seq(Byte)
      /\ m.log_text \in Seq(Byte)
  BY NumbersBack DEF LogInfoMsg
<1>1. PyLogInfo = LogInfo_Cases
  BY DEF PyLogInfo, LogInfo_Cases
<1>2. DOMAIN LogInfo_Cases = 1 .. 4
  BY LogInfoClass
<1>p1. Wrote(LogInfo_Cases, m, 1) = w1 /\ w1 \in Seq(Wired)
  <2>1. LogInfo_Cases[1].type = "string" /\ LogInfo_Cases[1].name = "gns_name"
    BY LogInfoClass DEF Field
  <2>2. Sized(w1, StringSize(m.gns_name))
    BY <1>f, SizedString
  <2>3. QED BY <2>1, <2>2 DEF Wrote, PyField, Sized
<1>p2. Wrote(LogInfo_Cases, m, 2) = w2 /\ w2 \in Seq(Wired)
  <2>1. LogInfo_Cases[2].type = "string" /\ LogInfo_Cases[2].name = "ip_port"
    BY LogInfoClass DEF Field
  <2>2. Sized(w2, StringSize(m.ip_port))
    BY <1>f, SizedString
  <2>3. QED BY <2>1, <2>2 DEF Wrote, PyField, Sized
<1>p3. Wrote(LogInfo_Cases, m, 3) = w3 /\ w3 \in Seq(Wired)
  <2>1. LogInfo_Cases[3].type = "string" /\ LogInfo_Cases[3].name = "session_id"
    BY LogInfoClass DEF Field
  <2>2. Sized(w3, StringSize(m.session_id))
    BY <1>f, SizedString
  <2>3. QED BY <2>1, <2>2 DEF Wrote, PyField, Sized
<1>p4. Wrote(LogInfo_Cases, m, 4) = w4 /\ w4 \in Seq(Wired)
  <2>1. LogInfo_Cases[4].type = "string" /\ LogInfo_Cases[4].name = "log_text"
    BY LogInfoClass DEF Field
  <2>2. Sized(w4, StringSize(m.log_text))
    BY <1>f, SizedString
  <2>3. QED BY <2>1, <2>2 DEF Wrote, PyField, Sized
<1> HIDE DEF w1, w2, w3, w4
<1>4. \A k \in 1 .. 4 : Wrote(LogInfo_Cases, m, k) \in Seq(Wired)
  BY <1>p1, <1>p2, <1>p3, <1>p4
<1>6. PICK f : /\ f[0] = << >> /\ PySerialize(LogInfo_Cases, m) = f[4] \o m.unknown
               /\ \A k \in 1 .. 4 : f[k] = (f[k - 1] \o Wrote(LogInfo_Cases, m, k))
  <2>1. 4 \in Nat
    OBVIOUS
  <2>2. QED BY <1>2, <1>4, <2>1, FieldByField
<1>s1. f[1] = w1
  <2>1. 1 \in 1 .. 4 /\ 1 - 1 = 0
    OBVIOUS
  <2>2. f[1] = << >> \o w1
    BY <1>6, <1>p1, <2>1
  <2>3. QED BY <1>p1, <2>2
<1>s2. f[2] = w1 \o w2
  <2>1. 2 \in 1 .. 4 /\ 2 - 1 = 1
    OBVIOUS
  <2>2. QED BY <1>6, <1>p2, <1>s1, <2>1
<1>s3. f[3] = w1 \o w2 \o w3
  <2>1. 3 \in 1 .. 4 /\ 3 - 1 = 2
    OBVIOUS
  <2>2. QED BY <1>6, <1>p3, <1>s2, <2>1
<1>s4. f[4] = w1 \o w2 \o w3 \o w4
  <2>1. 4 \in 1 .. 4 /\ 4 - 1 = 3
    OBVIOUS
  <2>2. QED BY <1>6, <1>p4, <1>s3, <2>1
<1>7. LogInfo_Serialize(m) = w1 \o w2 \o w3 \o w4 \o m.unknown
  BY DEF LogInfo_Serialize, w1, w2, w3, w4
<1>8. QED BY <1>1, <1>6, <1>s4, <1>7

\* Python writes GetLogReq field by field, in the order of _InternalSerialize.
LEMMA GetLogReqWritten ==
  ASSUME NEW m \in GetLogReqMsg
  PROVE  PySerialize(PyGetLogReq, m) = GetLogReq_Serialize(m)
<1> DEFINE w1 == StringField(1, m.session_id)
           w2 == StringField(2, m.gns_name)
           w3 == StringField(3, m.ip_port)
           w4 == IntField(4, m.seq)
           w5 == IntField(5, m.fd)
           w6 == IntField(6, m.req_begin_time)
<1>f. m.session_id \in Seq(Byte) /\ m.gns_name \in Seq(Byte) /\ m.ip_port \in Seq(Byte) /\ m.seq \in Int
      /\ m.fd \in Int /\ m.req_begin_time \in Int
  BY NumbersBack DEF GetLogReqMsg
<1>1. PyGetLogReq = GetLogReq_Cases
  BY DEF PyGetLogReq, GetLogReq_Cases
<1>2. DOMAIN GetLogReq_Cases = 1 .. 6
  BY GetLogReqClass
<1>p1. Wrote(GetLogReq_Cases, m, 1) = w1 /\ w1 \in Seq(Wired)
  <2>1. GetLogReq_Cases[1].type = "string" /\ GetLogReq_Cases[1].name = "session_id"
    BY GetLogReqClass DEF Field
  <2>2. Sized(w1, StringSize(m.session_id))
    BY <1>f, SizedString
  <2>3. QED BY <2>1, <2>2 DEF Wrote, PyField, Sized
<1>p2. Wrote(GetLogReq_Cases, m, 2) = w2 /\ w2 \in Seq(Wired)
  <2>1. GetLogReq_Cases[2].type = "string" /\ GetLogReq_Cases[2].name = "gns_name"
    BY GetLogReqClass DEF Field
  <2>2. Sized(w2, StringSize(m.gns_name))
    BY <1>f, SizedString
  <2>3. QED BY <2>1, <2>2 DEF Wrote, PyField, Sized
<1>p3. Wrote(GetLogReq_Cases, m, 3) = w3 /\ w3 \in Seq(Wired)
  <2>1. GetLogReq_Cases[3].type = "string" /\ GetLogReq_Cases[3].name = "ip_port"
    BY GetLogReqClass DEF Field
  <2>2. Sized(w3, StringSize(m.ip_port))
    BY <1>f, SizedString
  <2>3. QED BY <2>1, <2>2 DEF Wrote, PyField, Sized
<1>p4. Wrote(GetLogReq_Cases, m, 4) = w4 /\ w4 \in Seq(Wired)
  <2>1. GetLogReq_Cases[4].type = "int32" /\ GetLogReq_Cases[4].name = "seq"
    BY GetLogReqClass DEF Field
  <2>2. Sized(w4, IntSize(m.seq))
    BY <1>f, SizedInt
  <2>3. QED BY <2>1, <2>2 DEF Wrote, PyField, Sized
<1>p5. Wrote(GetLogReq_Cases, m, 5) = w5 /\ w5 \in Seq(Wired)
  <2>1. GetLogReq_Cases[5].type = "int32" /\ GetLogReq_Cases[5].name = "fd"
    BY GetLogReqClass DEF Field
  <2>2. Sized(w5, IntSize(m.fd))
    BY <1>f, SizedInt
  <2>3. QED BY <2>1, <2>2 DEF Wrote, PyField, Sized
<1>p6. Wrote(GetLogReq_Cases, m, 6) = w6 /\ w6 \in Seq(Wired)
  <2>1. GetLogReq_Cases[6].type = "int32" /\ GetLogReq_Cases[6].name = "req_begin_time"
    BY GetLogReqClass DEF Field
  <2>2. Sized(w6, IntSize(m.req_begin_time))
    BY <1>f, SizedInt
  <2>3. QED BY <2>1, <2>2 DEF Wrote, PyField, Sized
<1> HIDE DEF w1, w2, w3, w4, w5, w6
<1>4. \A k \in 1 .. 6 : Wrote(GetLogReq_Cases, m, k) \in Seq(Wired)
  BY <1>p1, <1>p2, <1>p3, <1>p4, <1>p5, <1>p6
<1>6. PICK f : /\ f[0] = << >> /\ PySerialize(GetLogReq_Cases, m) = f[6] \o m.unknown
               /\ \A k \in 1 .. 6 : f[k] = (f[k - 1] \o Wrote(GetLogReq_Cases, m, k))
  <2>1. 6 \in Nat
    OBVIOUS
  <2>2. QED BY <1>2, <1>4, <2>1, FieldByField
<1>s1. f[1] = w1
  <2>1. 1 \in 1 .. 6 /\ 1 - 1 = 0
    OBVIOUS
  <2>2. f[1] = << >> \o w1
    BY <1>6, <1>p1, <2>1
  <2>3. QED BY <1>p1, <2>2
<1>s2. f[2] = w1 \o w2
  <2>1. 2 \in 1 .. 6 /\ 2 - 1 = 1
    OBVIOUS
  <2>2. QED BY <1>6, <1>p2, <1>s1, <2>1
<1>s3. f[3] = w1 \o w2 \o w3
  <2>1. 3 \in 1 .. 6 /\ 3 - 1 = 2
    OBVIOUS
  <2>2. QED BY <1>6, <1>p3, <1>s2, <2>1
<1>s4. f[4] = w1 \o w2 \o w3 \o w4
  <2>1. 4 \in 1 .. 6 /\ 4 - 1 = 3
    OBVIOUS
  <2>2. QED BY <1>6, <1>p4, <1>s3, <2>1
<1>s5. f[5] = w1 \o w2 \o w3 \o w4 \o w5
  <2>1. 5 \in 1 .. 6 /\ 5 - 1 = 4
    OBVIOUS
  <2>2. QED BY <1>6, <1>p5, <1>s4, <2>1
<1>s6. f[6] = w1 \o w2 \o w3 \o w4 \o w5 \o w6
  <2>1. 6 \in 1 .. 6 /\ 6 - 1 = 5
    OBVIOUS
  <2>2. QED BY <1>6, <1>p6, <1>s5, <2>1
<1>7. GetLogReq_Serialize(m) = w1 \o w2 \o w3 \o w4 \o w5 \o w6 \o m.unknown
  BY DEF GetLogReq_Serialize, w1, w2, w3, w4, w5, w6
<1>8. QED BY <1>1, <1>6, <1>s6, <1>7

\* Python writes GetLogRespOld field by field, in the order of _InternalSerialize.
LEMMA GetLogRespOldWritten ==
  ASSUME NEW m \in GetLogRespOldMsg
  PROVE  PySerialize(PyGetLogRespOld, m) = GetLogRespOld_Serialize(m)
<1> DEFINE w1 == IntField(1, m.ret)
           w2 == StringField(2, m.ret_msg)
           w3 == StringField(3, m.log_text)
           w4 == IntField(4, m.cur_len)
           w5 == IntField(5, m.fd)
           w6 == IntField(6, m.req_begin_time)
<1>f. m.ret \in Int /\ m.ret_msg \in Seq(Byte) /\ m.log_text \in Seq(Byte) /\ m.cur_len \in Int
      /\ m.fd \in Int /\ m.req_begin_time \in Int
  BY NumbersBack DEF GetLogRespOldMsg
<1>1. PyGetLogRespOld = GetLogRespOld_Cases
  BY DEF PyGetLogRespOld, GetLogRespOld_Cases
<1>2. DOMAIN GetLogRespOld_Cases = 1 .. 6
  BY GetLogRespOldClass
<1>p1. Wrote(GetLogRespOld_Cases, m, 1) = w1 /\ w1 \in Seq(Wired)
  <2>1. GetLogRespOld_Cases[1].type = "int32" /\ GetLogRespOld_Cases[1].name = "ret"
    BY GetLogRespOldClass DEF Field
  <2>2. Sized(w1, IntSize(m.ret))
    BY <1>f, SizedInt
  <2>3. QED BY <2>1, <2>2 DEF Wrote, PyField, Sized
<1>p2. Wrote(GetLogRespOld_Cases, m, 2) = w2 /\ w2 \in Seq(Wired)
  <2>1. GetLogRespOld_Cases[2].type = "string" /\ GetLogRespOld_Cases[2].name = "ret_msg"
    BY GetLogRespOldClass DEF Field
  <2>2. Sized(w2, StringSize(m.ret_msg))
    BY <1>f, SizedString
  <2>3. QED BY <2>1, <2>2 DEF Wrote, PyField, Sized
<1>p3. Wrote(GetLogRespOld_Cases, m, 3) = w3 /\ w3 \in Seq(Wired)
  <2>1. GetLogRespOld_Cases[3].type = "string" /\ GetLogRespOld_Cases[3].name = "log_text"
    BY GetLogRespOldClass DEF Field
  <2>2. Sized(w3, StringSize(m.log_text))
    BY <1>f, SizedString
  <2>3. QED BY <2>1, <2>2 DEF Wrote, PyField, Sized
<1>p4. Wrote(GetLogRespOld_Cases, m, 4) = w4 /\ w4 \in Seq(Wired)
  <2>1. GetLogRespOld_Cases[4].type = "int32" /\ GetLogRespOld_Cases[4].name = "cur_len"
    BY GetLogRespOldClass DEF Field
  <2>2. Sized(w4, IntSize(m.cur_len))
    BY <1>f, SizedInt
  <2>3. QED BY <2>1, <2>2 DEF Wrote, PyField, Sized
<1>p5. Wrote(GetLogRespOld_Cases, m, 5) = w5 /\ w5 \in Seq(Wired)
  <2>1. GetLogRespOld_Cases[5].type = "int32" /\ GetLogRespOld_Cases[5].name = "fd"
    BY GetLogRespOldClass DEF Field
  <2>2. Sized(w5, IntSize(m.fd))
    BY <1>f, SizedInt
  <2>3. QED BY <2>1, <2>2 DEF Wrote, PyField, Sized
<1>p6. Wrote(GetLogRespOld_Cases, m, 6) = w6 /\ w6 \in Seq(Wired)
  <2>1. GetLogRespOld_Cases[6].type = "int32" /\ GetLogRespOld_Cases[6].name = "req_begin_time"
    BY GetLogRespOldClass DEF Field
  <2>2. Sized(w6, IntSize(m.req_begin_time))
    BY <1>f, SizedInt
  <2>3. QED BY <2>1, <2>2 DEF Wrote, PyField, Sized
<1> HIDE DEF w1, w2, w3, w4, w5, w6
<1>4. \A k \in 1 .. 6 : Wrote(GetLogRespOld_Cases, m, k) \in Seq(Wired)
  BY <1>p1, <1>p2, <1>p3, <1>p4, <1>p5, <1>p6
<1>6. PICK f : /\ f[0] = << >> /\ PySerialize(GetLogRespOld_Cases, m) = f[6] \o m.unknown
               /\ \A k \in 1 .. 6 : f[k] = (f[k - 1] \o Wrote(GetLogRespOld_Cases, m, k))
  <2>1. 6 \in Nat
    OBVIOUS
  <2>2. QED BY <1>2, <1>4, <2>1, FieldByField
<1>s1. f[1] = w1
  <2>1. 1 \in 1 .. 6 /\ 1 - 1 = 0
    OBVIOUS
  <2>2. f[1] = << >> \o w1
    BY <1>6, <1>p1, <2>1
  <2>3. QED BY <1>p1, <2>2
<1>s2. f[2] = w1 \o w2
  <2>1. 2 \in 1 .. 6 /\ 2 - 1 = 1
    OBVIOUS
  <2>2. QED BY <1>6, <1>p2, <1>s1, <2>1
<1>s3. f[3] = w1 \o w2 \o w3
  <2>1. 3 \in 1 .. 6 /\ 3 - 1 = 2
    OBVIOUS
  <2>2. QED BY <1>6, <1>p3, <1>s2, <2>1
<1>s4. f[4] = w1 \o w2 \o w3 \o w4
  <2>1. 4 \in 1 .. 6 /\ 4 - 1 = 3
    OBVIOUS
  <2>2. QED BY <1>6, <1>p4, <1>s3, <2>1
<1>s5. f[5] = w1 \o w2 \o w3 \o w4 \o w5
  <2>1. 5 \in 1 .. 6 /\ 5 - 1 = 4
    OBVIOUS
  <2>2. QED BY <1>6, <1>p5, <1>s4, <2>1
<1>s6. f[6] = w1 \o w2 \o w3 \o w4 \o w5 \o w6
  <2>1. 6 \in 1 .. 6 /\ 6 - 1 = 5
    OBVIOUS
  <2>2. QED BY <1>6, <1>p6, <1>s5, <2>1
<1>7. GetLogRespOld_Serialize(m) = w1 \o w2 \o w3 \o w4 \o w5 \o w6 \o m.unknown
  BY DEF GetLogRespOld_Serialize, w1, w2, w3, w4, w5, w6
<1>8. QED BY <1>1, <1>6, <1>s6, <1>7

\* Python writes LogText field by field, in the order of _InternalSerialize.
LEMMA LogTextWritten ==
  ASSUME NEW m \in LogTextMsg
  PROVE  PySerialize(PyLogText, m) = LogText_Serialize(m)
<1> DEFINE w1 == StringField(1, m.ip_port)
           w2 == StringField(2, m.gns_name)
           w3 == StringFields(3, m.text)
<1>f. m.ip_port \in Seq(Byte) /\ m.gns_name \in Seq(Byte) /\ m.text \in Seq(Seq(Byte))
  BY NumbersBack DEF LogTextMsg
<1>1. PyLogText = LogText_Cases
  BY DEF PyLogText, LogText_Cases
<1>2. DOMAIN LogText_Cases = 1 .. 3
  BY LogTextClass
<1>p1. Wrote(LogText_Cases, m, 1) = w1 /\ w1 \in Seq(Wired)
  <2>1. LogText_Cases[1].type = "string" /\ LogText_Cases[1].name = "ip_port"
    BY LogTextClass DEF Field
  <2>2. Sized(w1, StringSize(m.ip_port))
    BY <1>f, SizedString
  <2>3. QED BY <2>1, <2>2 DEF Wrote, PyField, Sized
<1>p2. Wrote(LogText_Cases, m, 2) = w2 /\ w2 \in Seq(Wired)
  <2>1. LogText_Cases[2].type = "string" /\ LogText_Cases[2].name = "gns_name"
    BY LogTextClass DEF Field
  <2>2. Sized(w2, StringSize(m.gns_name))
    BY <1>f, SizedString
  <2>3. QED BY <2>1, <2>2 DEF Wrote, PyField, Sized
<1>p3. Wrote(LogText_Cases, m, 3) = w3 /\ w3 \in Seq(Wired)
  <2>1. LogText_Cases[3].type = "strings" /\ LogText_Cases[3].name = "text"
    BY LogTextClass DEF Field
  <2>2. Sized(w3, StringsSize(m.text))
    BY <1>f, SizedStrings
  <2>3. QED BY <2>1, <2>2 DEF Wrote, PyField, Sized
<1> HIDE DEF w1, w2, w3
<1>4. \A k \in 1 .. 3 : Wrote(LogText_Cases, m, k) \in Seq(Wired)
  BY <1>p1, <1>p2, <1>p3
<1>6. PICK f : /\ f[0] = << >> /\ PySerialize(LogText_Cases, m) = f[3] \o m.unknown
               /\ \A k \in 1 .. 3 : f[k] = (f[k - 1] \o Wrote(LogText_Cases, m, k))
  <2>1. 3 \in Nat
    OBVIOUS
  <2>2. QED BY <1>2, <1>4, <2>1, FieldByField
<1>s1. f[1] = w1
  <2>1. 1 \in 1 .. 3 /\ 1 - 1 = 0
    OBVIOUS
  <2>2. f[1] = << >> \o w1
    BY <1>6, <1>p1, <2>1
  <2>3. QED BY <1>p1, <2>2
<1>s2. f[2] = w1 \o w2
  <2>1. 2 \in 1 .. 3 /\ 2 - 1 = 1
    OBVIOUS
  <2>2. QED BY <1>6, <1>p2, <1>s1, <2>1
<1>s3. f[3] = w1 \o w2 \o w3
  <2>1. 3 \in 1 .. 3 /\ 3 - 1 = 2
    OBVIOUS
  <2>2. QED BY <1>6, <1>p3, <1>s2, <2>1
<1>7. LogText_Serialize(m) = w1 \o w2 \o w3 \o m.unknown
  BY DEF LogText_Serialize, w1, w2, w3
<1>8. QED BY <1>1, <1>6, <1>s3, <1>7

\* Python writes HeartBeatMsg field by field, in the order of _InternalSerialize.
LEMMA HeartBeatMsgWritten ==
  ASSUME NEW m \in HeartBeatMsgMsg
  PROVE  PySerialize(PyHeartBeatMsg, m) = HeartBeatMsg_Serialize(m)
<1> DEFINE w1 == StringField(1, m.reserve)
<1>f. m.reserve \in Seq(Byte)
  BY NumbersBack DEF HeartBeatMsgMsg
<1>1. PyHeartBeatMsg = HeartBeatMsg_Cases
  BY DEF PyHeartBeatMsg, HeartBeatMsg_Cases
<1>2. DOMAIN HeartBeatMsg_Cases = 1 .. 1
  BY HeartBeatMsgClass
<1>p1. Wrote(HeartBeatMsg_Cases, m, 1) = w1 /\ w1 \in Seq(Wired)
  <2>1. HeartBeatMsg_Cases[1].type = "string" /\ HeartBeatMsg_Cases[1].name = "reserve"
    BY HeartBeatMsgClass DEF Field
  <2>2. Sized(w1, StringSize(m.reserve))
    BY <1>f, SizedString
  <2>3. QED BY <2>1, <2>2 DEF Wrote, PyField, Sized
<1> HIDE DEF w1
<1>4. \A k \in 1 .. 1 : Wrote(HeartBeatMsg_Cases, m, k) \in Seq(Wired)
  BY <1>p1
<1>6. PICK f : /\ f[0] = << >> /\ PySerialize(HeartBeatMsg_Cases, m) = f[1] \o m.unknown
               /\ \A k \in 1 .. 1 : f[k] = (f[k - 1] \o Wrote(HeartBeatMsg_Cases, m, k))
  <2>1. 1 \in Nat
    OBVIOUS
  <2>2. QED BY <1>2, <1>4, <2>1, FieldByField
<1>s1. f[1] = w1
  <2>1. 1 \in 1 .. 1 /\ 1 - 1 = 0
    OBVIOUS
  <2>2. f[1] = << >> \o w1
    BY <1>6, <1>p1, <2>1
  <2>3. QED BY <1>p1, <2>2
<1>7. HeartBeatMsg_Serialize(m) = w1 \o m.unknown
  BY DEF HeartBeatMsg_Serialize, w1
<1>8. QED BY <1>1, <1>6, <1>s1, <1>7

\* Python writes ClearSessionReq field by field, in the order of _InternalSerialize.
LEMMA ClearSessionReqWritten ==
  ASSUME NEW m \in ClearSessionReqMsg
  PROVE  PySerialize(PyClearSessionReq, m) = ClearSessionReq_Serialize(m)
<1> DEFINE w1 == StringField(1, m.session_id)
<1>f. m.session_id \in Seq(Byte)
  BY NumbersBack DEF ClearSessionReqMsg
<1>1. PyClearSessionReq = ClearSessionReq_Cases
  BY DEF PyClearSessionReq, ClearSessionReq_Cases
<1>2. DOMAIN ClearSessionReq_Cases = 1 .. 1
  BY ClearSessionReqClass
<1>p1. Wrote(ClearSessionReq_Cases, m, 1) = w1 /\ w1 \in Seq(Wired)
  <2>1. ClearSessionReq_Cases[1].type = "string" /\ ClearSessionReq_Cases[1].name = "session_id"
    BY ClearSessionReqClass DEF Field
  <2>2. Sized(w1, StringSize(m.session_id))
    BY <1>f, SizedString
  <2>3. QED BY <2>1, <2>2 DEF Wrote, PyField, Sized
<1> HIDE DEF w1
<1>4. \A k \in 1 .. 1 : Wrote(ClearSessionReq_Cases, m, k) \in Seq(Wired)
  BY <1>p1
<1>6. PICK f : /\ f[0] = << >> /\ PySerialize(ClearSessionReq_Cases, m) = f[1] \o m.unknown
               /\ \A k \in 1 .. 1 : f[k] = (f[k - 1] \o Wrote(ClearSessionReq_Cases, m, k))
  <2>1. 1 \in Nat
    OBVIOUS
  <2>2. QED BY <1>2, <1>4, <2>1, FieldByField
<1>s1. f[1] = w1
  <2>1. 1 \in 1 .. 1 /\ 1 - 1 = 0
    OBVIOUS
  <2>2. f[1] = << >> \o w1
    BY <1>6, <1>p1, <2>1
  <2>3. QED BY <1>p1, <2>2
<1>7. ClearSessionReq_Serialize(m) = w1 \o m.unknown
  BY DEF ClearSessionReq_Serialize, w1
<1>8. QED BY <1>1, <1>6, <1>s1, <1>7

\* The Python client writes every flat message as the C++ programs do.
THEOREM PythonWritesTheSame ==
  \A name \in MsgNames : \A m \in MsgOf(name) : PythonWrites(name, m)
<1>1. ASSUME NEW m \in MsgOf("LoginReq") PROVE PythonWrites("LoginReq", m)
  <2>1. m \in LoginReqMsg
    BY DEF MsgOf
  <2>2. PyFields("LoginReq") = PyLoginReq /\ Serialize("LoginReq", m) = LoginReq_Serialize(m)
    BY DEF PyFields, Serialize
  <2>3. QED BY <2>1, <2>2, LoginReqWritten DEF PythonWrites
<1>2. ASSUME NEW m \in MsgOf("LoginResp") PROVE PythonWrites("LoginResp", m)
  <2>1. m \in LoginRespMsg
    BY DEF MsgOf
  <2>2. PyFields("LoginResp") = PyLoginResp /\ Serialize("LoginResp", m) = LoginResp_Serialize(m)
    BY DEF PyFields, Serialize
  <2>3. QED BY <2>1, <2>2, LoginRespWritten DEF PythonWrites
<1>3. ASSUME NEW m \in MsgOf("GnsInfoReq") PROVE PythonWrites("GnsInfoReq", m)
  <2>1. m \in GnsInfoReqMsg
    BY DEF MsgOf
  <2>2. PyFields("GnsInfoReq") = PyGnsInfoReq /\ Serialize("GnsInfoReq", m) = GnsInfoReq_Serialize(m)
    BY DEF PyFields, Serialize
  <2>3. QED BY <2>1, <2>2, GnsInfoReqWritten DEF PythonWrites
<1>4. ASSUME NEW m \in MsgOf("CfgInfoReq") PROVE PythonWrites("CfgInfoReq", m)
  <2>1. m \in CfgInfoReqMsg
    BY DEF MsgOf
  <2>2. PyFields("CfgInfoReq") = PyCfgInfoReq /\ Serialize("CfgInfoReq", m) = CfgInfoReq_Serialize(m)
    BY DEF PyFields, Serialize
  <2>3. QED BY <2>1, <2>2, CfgInfoReqWritten DEF PythonWrites
<1>5. ASSUME NEW m \in MsgOf("CfgInfoResp") PROVE PythonWrites("CfgInfoResp", m)
  <2>1. m \in CfgInfoRespMsg
    BY DEF MsgOf
  <2>2. PyFields("CfgInfoResp") = PyCfgInfoResp /\ Serialize("CfgInfoResp", m)
        = CfgInfoResp_Serialize(m)
    BY DEF PyFields, Serialize
  <2>3. QED BY <2>1, <2>2, CfgInfoRespWritten DEF PythonWrites
<1>6. ASSUME NEW m \in MsgOf("LogInfo") PROVE PythonWrites("LogInfo", m)
  <2>1. m \in LogInfoMsg
    BY DEF MsgOf
  <2>2. PyFields("LogInfo") = PyLogInfo /\ Serialize("LogInfo", m) = LogInfo_Serialize(m)
    BY DEF PyFields, Serialize
  <2>3. QED BY <2>1, <2>2, LogInfoWritten DEF PythonWrites
<1>7. ASSUME NEW m \in MsgOf("GetLogReq") PROVE PythonWrites("GetLogReq", m)
  <2>1. m \in GetLogReqMsg
    BY DEF MsgOf
  <2>2. PyFields("GetLogReq") = PyGetLogReq /\ Serialize("GetLogReq", m) = GetLogReq_Serialize(m)
    BY DEF PyFields, Serialize
  <2>3. QED BY <2>1, <2>2, GetLogReqWritten DEF PythonWrites
<1>8. ASSUME NEW m \in MsgOf("GetLogRespOld") PROVE PythonWrites("GetLogRespOld", m)
  <2>1. m \in GetLogRespOldMsg
    BY DEF MsgOf
  <2>2. PyFields("GetLogRespOld") = PyGetLogRespOld /\ Serialize("GetLogRespOld", m)
        = GetLogRespOld_Serialize(m)
    BY DEF PyFields, Serialize
  <2>3. QED BY <2>1, <2>2, GetLogRespOldWritten DEF PythonWrites
<1>9. ASSUME NEW m \in MsgOf("LogText") PROVE PythonWrites("LogText", m)
  <2>1. m \in LogTextMsg
    BY DEF MsgOf
  <2>2. PyFields("LogText") = PyLogText /\ Serialize("LogText", m) = LogText_Serialize(m)
    BY DEF PyFields, Serialize
  <2>3. QED BY <2>1, <2>2, LogTextWritten DEF PythonWrites
<1>10. ASSUME NEW m \in MsgOf("GetLogResp") PROVE PythonWrites("GetLogResp", m)
  BY DEF PythonWrites
<1>11. ASSUME NEW m \in MsgOf("HeartBeatMsg") PROVE PythonWrites("HeartBeatMsg", m)
  <2>1. m \in HeartBeatMsgMsg
    BY DEF MsgOf
  <2>2. PyFields("HeartBeatMsg") = PyHeartBeatMsg /\ Serialize("HeartBeatMsg", m)
        = HeartBeatMsg_Serialize(m)
    BY DEF PyFields, Serialize
  <2>3. QED BY <2>1, <2>2, HeartBeatMsgWritten DEF PythonWrites
<1>12. ASSUME NEW m \in MsgOf("ClearSessionReq") PROVE PythonWrites("ClearSessionReq", m)
  <2>1. m \in ClearSessionReqMsg
    BY DEF MsgOf
  <2>2. PyFields("ClearSessionReq") = PyClearSessionReq /\ Serialize("ClearSessionReq", m)
        = ClearSessionReq_Serialize(m)
    BY DEF PyFields, Serialize
  <2>3. QED BY <2>1, <2>2, ClearSessionReqWritten DEF PythonWrites
<1>13. QED BY <1>1, <1>2, <1>3, <1>4, <1>5, <1>6, <1>7, <1>8, <1>9, <1>10, <1>11, <1>12 DEF MsgNames

\* The Python client reads every wire as the C++ programs do.
THEOREM PythonReadsTheSame ==
  \A name \in MsgNames : \A w : PythonReads(name, w)
BY EveryCodec DEF Codec, PythonReads, PyParse

----------------------------------------------------------------------------
(* The properties *)

\* The empty message is sound.
LEMMA EmptySound ==
  ASSUME NEW name \in MsgNames
  PROVE  SoundMsg(PyFields(name), Empty(name))
<1> DEFINE cases == PyFields(name)
           m == Empty(name)
<1>1. Blank(cases, m)
  BY FieldsOf
<1>2. Utf8(<< >>)
  BY DEF Utf8
<1>3. Strangers(cases, m.unknown)
  BY <1>1 DEF Blank, Strangers
<1> HIDE DEF cases, m
<1>4. ASSUME NEW i \in DOMAIN cases
      PROVE  Kept(cases[i], m[cases[i].name]) /\ Legible(cases[i], m[cases[i].name])
  <2>1. CASE cases[i].type \in {"string", "strings", "messages"}
    <3>1. m[cases[i].name] = << >>
      BY <1>1, <2>1 DEF Blank
    <3>2. QED BY <1>2, <2>1, <3>1 DEF Kept, Legible, TextsIn
  <2>2. CASE cases[i].type \notin {"string", "strings", "messages"}
    BY <2>2 DEF Kept, Legible, TextsIn
  <2>3. QED BY <2>1, <2>2
<1>5. SoundMsg(cases, m)
  BY <1>3, <1>4 DEF SoundMsg
<1>6. QED BY <1>5 DEF cases, m

\* Whatever wire a program reads, what it then holds is a message of the class,
\* and the next program that reads it from the wire holds the same.
THEOREM WiresArePassedOn ==
  \A name \in MsgNames : \A w \in Seq(Tokens(PyFields(name))) : PassesOn(name, w)
<1> SUFFICES ASSUME NEW name \in MsgNames, NEW w \in Seq(Tokens(PyFields(name)))
             PROVE  PassesOn(name, w)
  OBVIOUS
<1> DEFINE cases == PyFields(name)
           M == MsgOf(name)
           read == Parse(name, w)
<1>1. read = ParsedAll(cases, Start(name), w)
  BY Starts
<1>2. Start(name) \in Sound(cases, M)
  BY Starts, EmptySound DEF Sound
<1>3. read \in Sound(cases, M)
  BY <1>1, <1>2, Starts, FieldsOf, ParsedSound
<1>4. ASSUME read.ok
      PROVE  read.msg \in M /\ Parse(name, Serialize(name, read.msg)) = read
  <2>1. read \in Results(M) /\ SoundMsg(cases, read.msg)
    BY <1>3, <1>4 DEF Sound
  <2> HIDE DEF read
  <2>2. read.msg \in M /\ read = [ok |-> TRUE, msg |-> read.msg]
    BY <1>4, <2>1 DEF Results
  <2>3. Clean(name, read.msg) /\ Valid(name, read.msg)
    BY <2>1, CleanIs
  <2> DEFINE again == Parse(name, Serialize(name, read.msg))
  <2>4. again.ok = Valid(name, read.msg) /\ (again.ok => again.msg = read.msg)
    BY <2>2, <2>3, MessagesComeBack DEF ReadBack
  <2>5. again \in Results(M)
    <3>1. Serialize(name, read.msg) \in Seq(Tokens(cases))
      BY <2>2, <2>3, ReadTo, Starts DEF ReadsTo
    <3>2. QED BY <3>1, Starts, ParsedKeeps
  <2>6. again.ok
    BY <2>3, <2>4, <2>5 DEF Results
  <2>7. again = [ok |-> TRUE, msg |-> read.msg]
    <3> HIDE DEF again
    <3>1. QED BY <2>4, <2>5, <2>6 DEF Results
  <2>8. QED BY <2>2, <2>7
<1>5. QED BY <1>4 DEF PassesOn

\* The messages a program can hold: those without a field of their own among
\* the unknown ones.
Held(name) == {m \in MsgOf(name) : Clean(name, m)}

\* The values that are probed are such as a field can have.
LEMMA SomeValuesAre ==
  /\ SomeTexts \in SUBSET Seq(Byte)
  /\ \A type \in Types : SomeValues(type) \in SUBSET Values(type)
  /\ \A c : \A v \in SomeValues(c.type) : Kept(c, v)
<1>1. SomeTexts \in SUBSET Seq(Byte)
  BY DEF SomeTexts, Byte
<1>2. SomeLogTexts \in SUBSET LogTextMsg /\ \A x \in SomeLogTexts : x.unknown = << >>
  <2>1. ASSUME NEW ip_port \in Seq(Byte), NEW gns_name \in Seq(Byte),
               NEW texts \in Seq(Seq(Byte))
        PROVE  /\ LogText(ip_port, gns_name, texts) \in LogTextMsg
               /\ LogText(ip_port, gns_name, texts).unknown = << >>
    <3>1. LogText(ip_port, gns_name, texts)
            = [ip_port |-> ip_port, gns_name |-> gns_name, text |-> texts, unknown |-> << >>]
      <4> DEFINE e1 == [ip_port |-> ip_port, gns_name |-> << >>, text |-> << >>, unknown |-> << >>]
                 e2 == [ip_port |-> ip_port, gns_name |-> gns_name, text |-> << >>, unknown |-> << >>]
                 e3 == [ip_port |-> ip_port, gns_name |-> gns_name, text |-> texts, unknown |-> << >>]
      <4>1. [EmptyLogText EXCEPT !.ip_port = ip_port] = e1
        BY DEF EmptyLogText
      <4>2. [e1 EXCEPT !.gns_name = gns_name] = e2
        OBVIOUS
      <4>3. [e2 EXCEPT !.text = texts] = e3
        OBVIOUS
      <4>4. LogText(ip_port, gns_name, texts)
              = [[[EmptyLogText EXCEPT !.ip_port = ip_port] EXCEPT !.gns_name = gns_name]
                   EXCEPT !.text = texts]
        BY DEF LogText
      <4> HIDE DEF e1, e2, e3
      <4>5. QED BY <4>1, <4>2, <4>3, <4>4 DEF e3
    <3>2. << >> \in Seq(Token)
      OBVIOUS
    <3>3. QED BY <3>1, <3>2 DEF LogTextMsg
  <2> DEFINE T == {<< >>, <<<<"lead", "cont">>, << >>>>, <<<<"cont">>>>}
  <2>2. T \in SUBSET Seq(Seq(Byte)) /\ <<"plain">> \in Seq(Byte) /\ << >> \in Seq(Byte)
        /\ << >> \in Seq(Seq(Byte)) /\ <<"lead">> \in Seq(Byte)
    BY DEF Byte
  <2>3. SomeLogTexts = {LogText(<<"plain">>, << >>, texts) : texts \in T}
                         \cup {LogText(<< >>, <<"lead">>, << >>)}
    BY DEF SomeLogTexts
  <2> HIDE DEF T
  <2>4. \A x \in SomeLogTexts : x \in LogTextMsg /\ x.unknown = << >>
    <3>1. ASSUME NEW x \in SomeLogTexts PROVE x \in LogTextMsg /\ x.unknown = << >>
      <4>1. CASE x = LogText(<< >>, <<"lead">>, << >>)
        BY <2>1, <2>2, <4>1
      <4>2. CASE \E texts \in T : x = LogText(<<"plain">>, << >>, texts)
        <5>1. PICK texts \in T : x = LogText(<<"plain">>, << >>, texts)
          BY <4>2
        <5>2. texts \in Seq(Seq(Byte))
          BY <2>2
        <5>3. QED BY <2>1, <2>2, <5>1, <5>2
      <4>3. QED BY <2>3, <4>1, <4>2
    <3>2. QED BY <3>1
  <2>5. QED BY <2>4
<1>3. EmptyLogText \in LogTextMsg /\ EmptyLogText.unknown = << >>
  BY DEF EmptyLogText, LogTextMsg
<1>4. SomeValues("string") \in SUBSET Values("string")
  BY <1>1 DEF SomeValues, Values
<1>5. SomeValues("strings") \in SUBSET Values("strings")
  <2>1. <<<< >>>> \in Seq(Seq(Byte)) /\ \A t \in SomeTexts : <<<<"plain">>, t>> \in Seq(Seq(Byte))
    BY <1>1 DEF Byte
  <2>2. SomeValues("strings") = {<<<< >>>>} \cup {<<<<"plain">>, t>> : t \in SomeTexts}
    BY DEF SomeValues
  <2>3. QED BY <2>1, <2>2 DEF Values
<1>6. ASSUME NEW v \in SomeValues("messages")
      PROVE  v \in Seq(LogTextMsg) /\ \A k \in 1 .. Len(v) : v[k].unknown = << >>
  <2>1. SomeValues("messages") = {<<t>> : t \in SomeLogTexts} \cup {<<EmptyLogText, EmptyLogText>>}
    BY DEF SomeValues
  <2>2. CASE \E t \in SomeLogTexts : v = <<t>>
    BY <1>2, <2>2
  <2>3. CASE v = <<EmptyLogText, EmptyLogText>>
    <3> HIDE DEF EmptyLogText
    <3>1. QED BY <1>3, <2>3
  <2>4. QED BY <2>1, <2>2, <2>3
<1>7. SomeValues("int32") \in SUBSET Values("int32")
  <2>1. 1 \in Int32 /\ -1 \in Int32
    BY WireAssumption DEF Int32
  <2>2. QED BY <2>1 DEF SomeValues, Values
<1>8. SomeValues("int64") \in SUBSET Values("int64")
  <2>1. -1 \in Int64 /\ Half32 \in Int64
    <3>1. Half32 \in Nat /\ Half32 >= 2 /\ Half64 \in Nat /\ Half64 > Half32
      BY WireAssumption
    <3>2. QED BY <3>1 DEF Int64
  <2>2. QED BY <2>1 DEF SomeValues, Values
<1>9. \A v \in SomeValues("messages") : v \in Values("messages")
  BY <1>6 DEF Values
<1>10. \A type \in Types : SomeValues(type) \in SUBSET Values(type)
  BY <1>4, <1>5, <1>7, <1>8, <1>9 DEF Types
<1>11. ASSUME NEW c, NEW v \in SomeValues(c.type) PROVE Kept(c, v)
  <2>1. CASE c.type = "messages"
    <3>1. \A k \in 1 .. Len(v) : v[k].unknown = << >>
      BY <1>6, <2>1
    <3>2. QED BY <3>1 DEF Kept, Strangers
  <2>2. CASE c.type # "messages"
    BY <2>2 DEF Kept
  <2>3. QED BY <2>1, <2>2
<1>12. QED BY <1>1, <1>10, <1>11

\* A message with one field set is one a program can hold.
LEMMA WithOneHeld ==
  ASSUME NEW name \in MsgNames, NEW m \in Held(name)
  PROVE  WithOne(name, m) \in SUBSET Held(name)
<1> DEFINE cases == PyFields(name)
           M == MsgOf(name)
<1>1. Class(cases, M) /\ Distinct(cases) /\ m \in M /\ Clean(name, m)
  BY Starts, FieldsOf DEF Held
<1>2. [m EXCEPT !.unknown = <<Strange>>] \in Held(name)
  <2> DEFINE q == [m EXCEPT !.unknown = <<Strange>>]
  <2>1. Strange \in Token
    <3>1. 1 \in 0 .. 2 * Half64 - 1
      BY WireAssumption
    <3>2. QED BY <3>1 DEF Strange, Token
  <2>2. q \in M
    <3>1. <<Strange>> \in Seq(Token)
      BY <2>1
    <3>2. QED BY <1>1, <3>1 DEF Class
  <2>3. ~Accepts(cases, Strange)
    BY <1>1 DEF Accepts, Distinct, Strange
  <2>4. /\ q.unknown = <<Strange>>
        /\ \A i \in DOMAIN cases : q[cases[i].name] = m[cases[i].name]
    <3>1. "unknown" \in DOMAIN m /\ \A i \in DOMAIN cases : cases[i].name \in DOMAIN m
                                                           /\ cases[i].name # "unknown"
      BY <1>1 DEF Class, HasField, Distinct
    <3>2. QED BY <3>1
  <2>5. Strangers(cases, <<Strange>>)
    BY <2>3 DEF Strangers
  <2>6. \A i \in DOMAIN cases : Kept(cases[i], m[cases[i].name])
    BY <1>1, CleanIs
  <2> HIDE DEF q
  <2>7. Clean(name, q)
    BY <2>4, <2>5, <2>6, CleanIs
  <2>8. QED BY <2>2, <2>7 DEF Held, q
<1>3. ASSUME NEW i \in DOMAIN cases, NEW v \in SomeValues(cases[i].type)
      PROVE  [m EXCEPT ![cases[i].name] = v] \in Held(name)
  <2> DEFINE q == [m EXCEPT ![cases[i].name] = v]
  <2>1. v \in Values(cases[i].type) /\ Kept(cases[i], v)
    BY <1>1, SomeValuesAre DEF Class, HasField
  <2>2. q \in M
    BY <1>1, <2>1 DEF Class, HasField
  <2>3. /\ q.unknown = m.unknown /\ q[cases[i].name] = v
        /\ \A j \in DOMAIN cases : j # i => q[cases[j].name] = m[cases[j].name]
    BY <1>1, GivenField
  <2>4. Strangers(cases, m.unknown) /\ \A j \in DOMAIN cases : Kept(cases[j], m[cases[j].name])
    BY <1>1, CleanIs
  <2> HIDE DEF q, cases
  <2>5. \A j \in DOMAIN cases : Kept(cases[j], q[cases[j].name])
    <3>1. ASSUME NEW j \in DOMAIN cases PROVE Kept(cases[j], q[cases[j].name])
      <4>1. CASE j = i
        BY <2>1, <2>3, <4>1
      <4>2. CASE j # i
        BY <2>3, <2>4, <4>2
      <4>3. QED BY <4>1, <4>2
    <3>2. QED BY <3>1
  <2>6. Clean(name, q)
    BY <2>3, <2>4, <2>5, CleanIs DEF cases
  <2>7. QED BY <2>2, <2>6 DEF Held, q
<1>4. WithOne(name, m) =
        {[m EXCEPT !.unknown = <<Strange>>]} \cup
        UNION {{[m EXCEPT ![cases[i].name] = v] : v \in SomeValues(cases[i].type)} :
               i \in DOMAIN cases}
  BY DEF WithOne
<1> HIDE DEF cases
<1>5. QED BY <1>2, <1>3, <1>4

\* So are all that are probed.
LEMMA ManyHeld ==
  ASSUME NEW name \in MsgNames
  PROVE  Few(name) \in SUBSET Held(name) /\ Many(name) \in SUBSET Held(name)
<1>1. Empty(name) \in Held(name)
  <2>1. Empty(name) \in MsgOf(name)
    BY EveryCodec DEF Codec
  <2>2. QED BY <2>1, EmptySound, CleanIs DEF Held
<1>2. Few(name) \in SUBSET Held(name)
  BY <1>1, WithOneHeld DEF Few
<1>3. \A m \in Few(name) : WithOne(name, m) \in SUBSET Held(name)
  BY <1>2, WithOneHeld
<1>4. QED BY <1>2, <1>3 DEF Many

\* What is picked is a message a program can hold, or a wire it can be sent.
Picked ==
  /\ probe.what = "message" => probe.name \in MsgNames /\ probe.m \in Held(probe.name)
  /\ probe.what = "merge" =>
       /\ probe.name \in MsgNames
       /\ probe.to \in Held(probe.name) /\ probe.from \in Held(probe.name)
  /\ probe.what = "wire" => probe.name \in MsgNames /\ probe.wire \in Seq(Token)

\* Only such messages and wires are probed.
THEOREM OnlySuchPicked == ProbeSpec => []Picked
<1>1. ProbeInit => Picked
  BY DEF ProbeInit, NoProbe, Picked
<1>2. Picked /\ [ProbeNext]_probe => Picked'
  <2> SUFFICES ASSUME Picked, [ProbeNext]_probe PROVE Picked'
    OBVIOUS
  <2>1. CASE PickMessage
    <3>1. PICK name \in MsgNames : \E m \in Many(name) :
            probe' = [what |-> "message", name |-> name, m |-> m]
      BY <2>1 DEF PickMessage
    <3>2. QED BY <3>1, ManyHeld DEF Picked
  <2>2. CASE PickMerge
    <3>1. PICK name \in MsgNames : \E a \in Few(name), b \in Few(name) :
            probe' = [what |-> "merge", name |-> name, to |-> a, from |-> b]
      BY <2>2 DEF PickMerge
    <3>2. QED BY <3>1, ManyHeld DEF Picked
  <2>3. CASE PickWire
    <3>1. SomeTokens \in SUBSET Token
      <4>1. \A num \in ProbeNumbers : num \in Nat
        BY ProbeAssumption
      <4>2. 1 \in 0 .. 2 * Half64 - 1 /\ Half32 \in 0 .. 2 * Half64 - 1
            /\ 2 * Half64 - 1 \in 0 .. 2 * Half64 - 1
        <5>1. Half32 \in Nat /\ Half32 >= 2 /\ Half64 \in Nat /\ Half64 > Half32
          BY WireAssumption
        <5>2. QED BY <5>1
      <4>3. [num : ProbeNumbers, kind : {"varint"}, val : {1, Half32, 2 * Half64 - 1}]
              \in SUBSET Token
        BY <4>1, <4>2 DEF Token
      <4>4. \A num \in ProbeNumbers : \A text \in SomeTexts : TextToken(num, text) \in Token
        BY <4>1, SomeValuesAre, TextCost
      <4>5. QED BY <4>3, <4>4 DEF SomeTokens
    <3>2. PICK name \in MsgNames : \E s, t \in {u \in SomeTokens : Text(name, u)} :
            probe' = [what |-> "wire", name |-> name, wire |-> <<s, t>>]
      BY <2>3 DEF PickWire
    <3>3. PICK s, t \in SomeTokens : probe' = [what |-> "wire", name |-> name, wire |-> <<s, t>>]
      BY <3>2
    <3>4. <<s, t>> \in Seq(Token)
      BY <3>1
    <3>5. QED BY <3>3, <3>4 DEF Picked
  <2>4. CASE Unpick
    BY <2>4 DEF Unpick, NoProbe, Picked
  <2>5. CASE UNCHANGED probe
    BY <2>5 DEF Picked
  <2>6. QED BY <2>1, <2>2, <2>3, <2>4, <2>5 DEF ProbeNext
<1>3. QED BY <1>1, <1>2, PTL DEF ProbeSpec

\* The five routines of a class fit each other.
THEOREM RoutinesFit == ProbeSpec => []RoundTrips
<1>1. Picked => RoundTrips
  BY MessagesComeBack, SizesAreLengths, MergedAsRead DEF Picked, RoundTrips, Held
<1>2. QED BY <1>1, OnlySuchPicked, PTL

\* Passing a message on keeps it.
THEOREM NothingLost == ProbeSpec => []PassedOn
<1>1. Picked => PassedOn
  <2>1. \A name \in MsgNames : Seq(Token) \in SUBSET Seq(Tokens(PyFields(name)))
    <3>1. \A name \in MsgNames : \A t \in Token : t \in Tokens(PyFields(name))
      BY TokenIs DEF Tokens
    <3>2. QED BY <3>1
  <2>2. QED BY <2>1, WiresArePassedOn DEF Picked, PassedOn
<1>2. QED BY <1>1, OnlySuchPicked, PTL

\* The Python client speaks the same language.
THEOREM SameLanguage == ProbeSpec => []PythonAgrees
<1>1. Picked => PythonAgrees
  BY PythonWritesTheSame, PythonReadsTheSame DEF Picked, PythonAgrees, Held
<1>2. QED BY <1>1, OnlySuchPicked, PTL

----------------------------------------------------------------------------
(* The conversation *)

AllLegible == \A text \in asked.texts : Utf8(text)

\* msg names the connection and the time of the request under way.
Carries(msg) == msg.fd = asked.fd /\ msg.req_begin_time = Int32Of(asked.time)

\* The logs kept are texts the reader of an answer accepts.
LogsLegible == logs \in Seq(Seq(Byte)) /\ \A k \in DOMAIN logs : Utf8(logs[k])

\* What the gateway keeps of the request under way.
RequestTyped ==
  /\ asked.kind # "none" => asked.fd \in Int32 /\ asked.time \in Nat
  /\ asked.kind = "config" =>
       asked.p2 \in Int64 /\ asked.p3 \in asked.texts /\ asked.p3 \in Seq(Byte)

\* A message on its way to the client has what was typed.
PushedAsTyped ==
  push # << >> =>
    LET req == CfgInfoReq_Parse(Head(push)) IN
    /\ Tail(push) = << >> /\ asked.kind = "config"
    /\ req.ok /\ req.msg.session_id = Sid
    /\ req.msg.p2 = asked.p2 /\ req.msg.p3 = asked.p3

\* A request on the wire: the server can read it, unless a text is not UTF-8.
Asked(req) == (req.ok <=> AllLegible) /\ (req.ok => Carries(req.msg))

Asks ==
  /\ asked.kind = "login" => Asked(LoginReq_Parse(wire))
  /\ asked.kind = "config" =>
       LET req == CfgInfoReq_Parse(wire) IN
       /\ Asked(req)
       /\ req.ok => /\ req.msg.p1 \in Int32
                    /\ req.msg.p2 = asked.p2 /\ req.msg.p3 = asked.p3
  /\ asked.kind = "fetch" => Asked(GetLogReq_Parse(wire))

\* An answer on the wire: the gateway can read it.
Answered(resp) == resp.ok /\ Carries(resp.msg)

Answers ==
  /\ asked.kind = "login" => Answered(LoginResp_Parse(wire))
  /\ asked.kind = "config" => Answered(CfgInfoResp_Parse(wire))
  /\ asked.kind = "fetch" => Answered(GetLogResp_Parse(wire))
  /\ asked.kind # "none" /\ AllLegible

\* The answer is for the connection it names, or its time was cut.
Ended == AllLegible /\ (stage = "shown" <=> asked.time < Half32)

ConversationInv ==
  /\ LogsLegible /\ RequestTyped /\ PushedAsTyped
  /\ filter.session_id \in Seq(Byte)
  /\ stage = "asked" => Asks
  /\ stage = "answered" => Answers
  /\ stage \in {"shown", "mismatch"} => Ended
  /\ stage = "dropped" => ~AllLegible
  /\ stage = "uploaded" => wire \in Seq(Token)
  /\ stage # "refused"

\* What is legible arrives as it was sent, in every class.
LEMMA ItComes ==
  ASSUME NEW name \in MsgNames, NEW m \in MsgOf(name), Clean(name, m)
  PROVE  /\ Parse(name, Serialize(name, m)).ok <=> \A text \in TextsOf(name, m) : Utf8(text)
         /\ Parse(name, Serialize(name, m)).ok => Parse(name, Serialize(name, m)).msg = m
<1>1. Valid(name, m) <=> \A text \in TextsOf(name, m) : Utf8(text)
  BY EveryCodec DEF Codec
<1>2. ReadBack(name, m)
  BY MessagesComeBack
<1>3. QED BY <1>1, <1>2 DEF ReadBack

\* What an int32 field keeps of a number.
LEMMA Int32Keeps ==
  /\ \A n \in Int32 : Int32Of(n) = n
  /\ \A n \in Nat : Int32Of(n) = n <=> n < Half32
<1>1. Half32 \in Nat /\ Half32 >= 1
  BY WireAssumption
<1>2. ASSUME NEW n \in Int32 PROVE Int32Of(n) = n
  <2>1. n \in Int /\ n + Half32 \in 0 .. (2 * Half32) - 1 /\ 2 * Half32 \in Nat
    BY <1>1 DEF Int32
  <2>2. (n + Half32) % (2 * Half32) = n + Half32
    BY <1>1, <2>1
  <2>3. Int32Of(n) = (n + Half32) - Half32
    BY <2>2 DEF Int32Of, Signed
  <2>4. QED BY <1>1, <2>1, <2>3
<1>3. ASSUME NEW n \in Nat PROVE Int32Of(n) = n <=> n < Half32
  <2>1. n < Half32 => n \in Int32
    BY <1>1 DEF Int32
  <2>2. Int32Of(n) \in Int32
    BY Casts
  <2>3. Int32Of(n) < Half32
    BY <1>1, <2>2 DEF Int32
  <2>4. QED BY <1>2, <2>1, <2>3
<1>4. QED BY <1>2, <1>3

\* Two texts that are UTF-8, one after the other, are.
LEMMA Utf8Joined ==
  ASSUME NEW s \in Seq(Byte), NEW t \in Seq(Byte), Utf8(s), Utf8(t)
  PROVE  s \o t \in Seq(Byte) /\ Utf8(s \o t)
<1> DEFINE w == s \o t
           n == Len(s)
<1>1. /\ w \in Seq(Byte) /\ n \in Nat /\ Len(t) \in Nat /\ Len(w) = n + Len(t)
      /\ DOMAIN w = 1 .. Len(w) /\ DOMAIN s = 1 .. n /\ DOMAIN t = 1 .. Len(t)
      /\ (\A k \in 1 .. n : w[k] = s[k])
      /\ (\A k \in 1 .. Len(t) : w[n + k] = t[k])
  OBVIOUS
<1> HIDE DEF w, n
<1>2. ASSUME NEW k \in 1 .. Len(w)
      PROVE  /\ w[k] = "lead" => k < Len(w) /\ w[k + 1] = "cont"
             /\ w[k] = "cont" => k > 1 /\ w[k - 1] = "lead"
  <2>1. CASE k \in 1 .. n
    <3>1. /\ s[k] = "lead" => k < n /\ s[k + 1] = "cont"
          /\ s[k] = "cont" => k > 1 /\ s[k - 1] = "lead"
      BY <1>1, <2>1 DEF Utf8, n
    <3>2. w[k] = s[k]
      BY <1>1, <2>1
    <3>3. k < n => k + 1 \in 1 .. n /\ k < Len(w)
      BY <1>1, <2>1
    <3>4. k > 1 => k - 1 \in 1 .. n
      BY <1>1, <2>1
    <3>5. QED BY <1>1, <3>1, <3>2, <3>3, <3>4
  <2>2. CASE k \notin 1 .. n
    <3> DEFINE j == k - n
    <3>1. j \in 1 .. Len(t) /\ k = n + j
      BY <1>1, <2>2
    <3> HIDE DEF j
    <3>2. /\ t[j] = "lead" => j < Len(t) /\ t[j + 1] = "cont"
          /\ t[j] = "cont" => j > 1 /\ t[j - 1] = "lead"
      BY <1>1, <3>1 DEF Utf8
    <3>3. w[k] = t[j]
      BY <1>1, <3>1
    <3>4. j < Len(t) => j + 1 \in 1 .. Len(t) /\ n + (j + 1) = k + 1 /\ k < Len(w)
      BY <1>1, <3>1
    <3>5. j > 1 => j - 1 \in 1 .. Len(t) /\ n + (j - 1) = k - 1 /\ k > 1
      BY <1>1, <3>1
    <3>6. j < Len(t) => w[k + 1] = t[j + 1]
      BY <1>1, <3>4
    <3>7. j > 1 => w[k - 1] = t[j - 1]
      BY <1>1, <3>5
    <3>8. QED BY <3>2, <3>3, <3>4, <3>5, <3>6, <3>7
  <2>3. QED BY <2>1, <2>2
<1>3. Utf8(w)
  BY <1>1, <1>2 DEF Utf8
<1>4. QED BY <1>1, <1>3 DEF w

\* The texts that the programs themselves write are legible.
LEMMA ConstantsRead ==
  /\ Sid \in Seq(Byte) /\ Gns \in Seq(Byte) /\ IpPort \in Seq(Byte) /\ Pass \in Seq(Byte)
  /\ Ok \in Seq(Byte) /\ NotOk \in Seq(Byte) /\ << >> \in Seq(Byte)
  /\ Utf8(Sid) /\ Utf8(Gns) /\ Utf8(IpPort) /\ Utf8(Ok) /\ Utf8(NotOk) /\ Utf8(<< >>)
  /\ Utf8(<<"plain">>) /\ <<"plain">> \in Seq(Byte)
<1>1. << >> \in Seq(Byte) /\ <<"plain">> \in Seq(Byte) /\ <<"plain", "plain">> \in Seq(Byte)
      /\ <<"plain", "plain", "plain">> \in Seq(Byte)
  BY DEF Byte
<1>2. Utf8(<< >>) /\ Utf8(<<"plain">>) /\ Utf8(<<"plain", "plain">>)
  BY DEF Utf8
<1>3. Utf8(<<"plain", "plain", "plain">>)
  BY DEF Utf8
<1>4. QED BY <1>1, <1>2, <1>3 DEF Sid, Gns, IpPort, Pass, Ok, NotOk

\* LoginReq travels: what is legible arrives as it was sent.
LEMMA LoginReqComes ==
  ASSUME NEW m \in LoginReqMsg, m.unknown = << >>
  PROVE  /\ LoginReq_Parse(LoginReq_Serialize(m)).ok <=> \A text \in LoginReq_Texts(m) : Utf8(text)
         /\ LoginReq_Parse(LoginReq_Serialize(m)).ok => LoginReq_Parse(LoginReq_Serialize(m)).msg = m
<1>1. Clean("LoginReq", m)
  BY DEF Clean, Strangers
<1>2. "LoginReq" \in MsgNames /\ m \in MsgOf("LoginReq") /\ TextsOf("LoginReq", m) = LoginReq_Texts(m)
  BY DEF MsgNames, MsgOf, TextsOf
<1>3. Parse("LoginReq", Serialize("LoginReq", m)) = LoginReq_Parse(LoginReq_Serialize(m))
  BY DEF Parse, Serialize
<1>4. QED BY <1>1, <1>2, <1>3, ItComes

\* LoginResp travels: what is legible arrives as it was sent.
LEMMA LoginRespComes ==
  ASSUME NEW m \in LoginRespMsg, m.unknown = << >>
  PROVE  /\ LoginResp_Parse(LoginResp_Serialize(m)).ok <=> \A text \in LoginResp_Texts(m) : Utf8(text)
         /\ LoginResp_Parse(LoginResp_Serialize(m)).ok => LoginResp_Parse(LoginResp_Serialize(m)).msg
             = m
<1>1. Clean("LoginResp", m)
  BY DEF Clean, Strangers
<1>2. "LoginResp" \in MsgNames /\ m \in MsgOf("LoginResp") /\ TextsOf("LoginResp", m)
      = LoginResp_Texts(m)
  BY DEF MsgNames, MsgOf, TextsOf
<1>3. Parse("LoginResp", Serialize("LoginResp", m)) = LoginResp_Parse(LoginResp_Serialize(m))
  BY DEF Parse, Serialize
<1>4. QED BY <1>1, <1>2, <1>3, ItComes

\* CfgInfoReq travels: what is legible arrives as it was sent.
LEMMA CfgInfoReqComes ==
  ASSUME NEW m \in CfgInfoReqMsg, m.unknown = << >>
  PROVE  /\ CfgInfoReq_Parse(CfgInfoReq_Serialize(m)).ok <=> \A text \in CfgInfoReq_Texts(m) :
            Utf8(text)
         /\ CfgInfoReq_Parse(CfgInfoReq_Serialize(m)).ok
             => CfgInfoReq_Parse(CfgInfoReq_Serialize(m)).msg = m
<1>1. Clean("CfgInfoReq", m)
  BY DEF Clean, Strangers
<1>2. "CfgInfoReq" \in MsgNames /\ m \in MsgOf("CfgInfoReq") /\ TextsOf("CfgInfoReq", m)
      = CfgInfoReq_Texts(m)
  BY DEF MsgNames, MsgOf, TextsOf
<1>3. Parse("CfgInfoReq", Serialize("CfgInfoReq", m)) = CfgInfoReq_Parse(CfgInfoReq_Serialize(m))
  BY DEF Parse, Serialize
<1>4. QED BY <1>1, <1>2, <1>3, ItComes

\* CfgInfoResp travels: what is legible arrives as it was sent.
LEMMA CfgInfoRespComes ==
  ASSUME NEW m \in CfgInfoRespMsg, m.unknown = << >>
  PROVE  /\ CfgInfoResp_Parse(CfgInfoResp_Serialize(m)).ok <=> \A text \in CfgInfoResp_Texts(m) :
            Utf8(text)
         /\ CfgInfoResp_Parse(CfgInfoResp_Serialize(m)).ok
             => CfgInfoResp_Parse(CfgInfoResp_Serialize(m)).msg = m
<1>1. Clean("CfgInfoResp", m)
  BY DEF Clean, Strangers
<1>2. "CfgInfoResp" \in MsgNames /\ m \in MsgOf("CfgInfoResp") /\ TextsOf("CfgInfoResp", m)
      = CfgInfoResp_Texts(m)
  BY DEF MsgNames, MsgOf, TextsOf
<1>3. Parse("CfgInfoResp", Serialize("CfgInfoResp", m)) = CfgInfoResp_Parse(CfgInfoResp_Serialize(m))
  BY DEF Parse, Serialize
<1>4. QED BY <1>1, <1>2, <1>3, ItComes

\* LogInfo travels: what is legible arrives as it was sent.
LEMMA LogInfoComes ==
  ASSUME NEW m \in LogInfoMsg, m.unknown = << >>
  PROVE  /\ LogInfo_Parse(LogInfo_Serialize(m)).ok <=> \A text \in LogInfo_Texts(m) : Utf8(text)
         /\ LogInfo_Parse(LogInfo_Serialize(m)).ok => LogInfo_Parse(LogInfo_Serialize(m)).msg = m
<1>1. Clean("LogInfo", m)
  BY DEF Clean, Strangers
<1>2. "LogInfo" \in MsgNames /\ m \in MsgOf("LogInfo") /\ TextsOf("LogInfo", m) = LogInfo_Texts(m)
  BY DEF MsgNames, MsgOf, TextsOf
<1>3. Parse("LogInfo", Serialize("LogInfo", m)) = LogInfo_Parse(LogInfo_Serialize(m))
  BY DEF Parse, Serialize
<1>4. QED BY <1>1, <1>2, <1>3, ItComes

\* GetLogReq travels: what is legible arrives as it was sent.
LEMMA GetLogReqComes ==
  ASSUME NEW m \in GetLogReqMsg, m.unknown = << >>
  PROVE  /\ GetLogReq_Parse(GetLogReq_Serialize(m)).ok <=> \A text \in GetLogReq_Texts(m) : Utf8(text)
         /\ GetLogReq_Parse(GetLogReq_Serialize(m)).ok => GetLogReq_Parse(GetLogReq_Serialize(m)).msg
             = m
<1>1. Clean("GetLogReq", m)
  BY DEF Clean, Strangers
<1>2. "GetLogReq" \in MsgNames /\ m \in MsgOf("GetLogReq") /\ TextsOf("GetLogReq", m)
      = GetLogReq_Texts(m)
  BY DEF MsgNames, MsgOf, TextsOf
<1>3. Parse("GetLogReq", Serialize("GetLogReq", m)) = GetLogReq_Parse(GetLogReq_Serialize(m))
  BY DEF Parse, Serialize
<1>4. QED BY <1>1, <1>2, <1>3, ItComes

\* GetLogResp travels: what is legible arrives as it was sent.
LEMMA GetLogRespComes ==
  ASSUME NEW m \in GetLogRespMsg, m.unknown = << >>,
         \A k \in 1 .. Len(m.log_text) : m.log_text[k].unknown = << >>
  PROVE  /\ GetLogResp_Parse(GetLogResp_Serialize(m)).ok <=> \A text \in GetLogResp_Texts(m) :
            Utf8(text)
         /\ GetLogResp_Parse(GetLogResp_Serialize(m)).ok
             => GetLogResp_Parse(GetLogResp_Serialize(m)).msg = m
<1>1. Clean("GetLogResp", m)
  BY DEF Clean, Strangers
<1>2. "GetLogResp" \in MsgNames /\ m \in MsgOf("GetLogResp") /\ TextsOf("GetLogResp", m)
      = GetLogResp_Texts(m)
  BY DEF MsgNames, MsgOf, TextsOf
<1>3. Parse("GetLogResp", Serialize("GetLogResp", m)) = GetLogResp_Parse(GetLogResp_Serialize(m))
  BY DEF Parse, Serialize
<1>4. QED BY <1>1, <1>2, <1>3, ItComes

\* The messages the handlers compose.

\* The fields of LoginReq as the program sets them.
LEMMA LoginReqMade ==
  ASSUME NEW password, NEW fd, NEW req_begin_time
  PROVE  LoginReq(password, fd, req_begin_time)
           = [user_name |-> << >>, password |-> password, fd |-> Int32Of(fd),
               req_begin_time |-> Int32Of(req_begin_time), unknown |-> << >>]
<1> DEFINE e1 == [user_name |-> << >>, password |-> password, fd |-> 0, req_begin_time |-> 0,
      unknown |-> << >>]
           e2 == [user_name |-> << >>, password |-> password, fd |-> Int32Of(fd), req_begin_time |-> 0,
               unknown |-> << >>]
           e3 == [user_name |-> << >>, password |-> password, fd |-> Int32Of(fd),
               req_begin_time |-> Int32Of(req_begin_time), unknown |-> << >>]
<1>1. [EmptyLoginReq EXCEPT !.password = password] = e1
  BY DEF EmptyLoginReq
<1>2. [e1 EXCEPT !.fd = Int32Of(fd)] = e2
  OBVIOUS
<1>3. [e2 EXCEPT !.req_begin_time = Int32Of(req_begin_time)] = e3
  OBVIOUS
<1>4. LoginReq(password, fd, req_begin_time)
        = [[[EmptyLoginReq
                EXCEPT !.password = password]
                EXCEPT !.fd = Int32Of(fd)]
                EXCEPT !.req_begin_time = Int32Of(req_begin_time)]
  BY DEF LoginReq
<1> HIDE DEF e1, e2, e3
<1>5. QED BY <1>1, <1>2, <1>3, <1>4 DEF e3

\* The fields of LoginResp as the program sets them.
LEMMA LoginRespMade ==
  ASSUME NEW session_id, NEW fd, NEW req_begin_time, NEW ret, NEW ret_msg
  PROVE  LoginResp(session_id, fd, req_begin_time, ret, ret_msg)
           = [session_id |-> session_id, fd |-> Int32Of(fd), req_begin_time |-> Int32Of(req_begin_time),
               ret |-> Int32Of(ret), ret_msg |-> ret_msg, unknown |-> << >>]
<1> DEFINE e1 == [session_id |-> session_id, fd |-> 0, req_begin_time |-> 0, ret |-> 0,
      ret_msg |-> << >>, unknown |-> << >>]
           e2 == [session_id |-> session_id, fd |-> Int32Of(fd), req_begin_time |-> 0, ret |-> 0,
               ret_msg |-> << >>, unknown |-> << >>]
           e3 == [session_id |-> session_id, fd |-> Int32Of(fd),
               req_begin_time |-> Int32Of(req_begin_time), ret |-> 0, ret_msg |-> << >>,
               unknown |-> << >>]
           e4 == [session_id |-> session_id, fd |-> Int32Of(fd),
               req_begin_time |-> Int32Of(req_begin_time), ret |-> Int32Of(ret), ret_msg |-> << >>,
               unknown |-> << >>]
           e5 == [session_id |-> session_id, fd |-> Int32Of(fd),
               req_begin_time |-> Int32Of(req_begin_time), ret |-> Int32Of(ret), ret_msg |-> ret_msg,
               unknown |-> << >>]
<1>1. [EmptyLoginResp EXCEPT !.session_id = session_id] = e1
  BY DEF EmptyLoginResp
<1>2. [e1 EXCEPT !.fd = Int32Of(fd)] = e2
  OBVIOUS
<1>3. [e2 EXCEPT !.req_begin_time = Int32Of(req_begin_time)] = e3
  OBVIOUS
<1>4. [e3 EXCEPT !.ret = Int32Of(ret)] = e4
  OBVIOUS
<1>5. [e4 EXCEPT !.ret_msg = ret_msg] = e5
  OBVIOUS
<1>6. LoginResp(session_id, fd, req_begin_time, ret, ret_msg)
        = [[[[[EmptyLoginResp
                EXCEPT !.session_id = session_id]
                EXCEPT !.fd = Int32Of(fd)]
                EXCEPT !.req_begin_time = Int32Of(req_begin_time)]
                EXCEPT !.ret = Int32Of(ret)]
                EXCEPT !.ret_msg = ret_msg]
  BY DEF LoginResp
<1> HIDE DEF e1, e2, e3, e4, e5
<1>7. QED BY <1>1, <1>2, <1>3, <1>4, <1>5, <1>6 DEF e5

\* The fields of CfgInfoReq as the program sets them.
LEMMA CfgInfoReqMade ==
  ASSUME NEW session_id, NEW p1, NEW p2, NEW p3
  PROVE  CfgInfoReq(session_id, p1, p2, p3)
           = [session_id |-> session_id, p1 |-> Int32Of(p1), p2 |-> p2, p3 |-> p3, gns_name |-> << >>,
               ip_port |-> << >>, fd |-> 0, req_begin_time |-> 0, unknown |-> << >>]
<1> DEFINE e1 == [session_id |-> session_id, p1 |-> 0, p2 |-> 0, p3 |-> << >>, gns_name |-> << >>,
      ip_port |-> << >>, fd |-> 0, req_begin_time |-> 0, unknown |-> << >>]
           e2 == [session_id |-> session_id, p1 |-> Int32Of(p1), p2 |-> 0, p3 |-> << >>,
               gns_name |-> << >>, ip_port |-> << >>, fd |-> 0, req_begin_time |-> 0, unknown |-> << >>]
           e3 == [session_id |-> session_id, p1 |-> Int32Of(p1), p2 |-> p2, p3 |-> << >>,
               gns_name |-> << >>, ip_port |-> << >>, fd |-> 0, req_begin_time |-> 0, unknown |-> << >>]
           e4 == [session_id |-> session_id, p1 |-> Int32Of(p1), p2 |-> p2, p3 |-> p3,
               gns_name |-> << >>, ip_port |-> << >>, fd |-> 0, req_begin_time |-> 0, unknown |-> << >>]
<1>1. [EmptyCfgInfoReq EXCEPT !.session_id = session_id] = e1
  BY DEF EmptyCfgInfoReq
<1>2. [e1 EXCEPT !.p1 = Int32Of(p1)] = e2
  OBVIOUS
<1>3. [e2 EXCEPT !.p2 = p2] = e3
  OBVIOUS
<1>4. [e3 EXCEPT !.p3 = p3] = e4
  OBVIOUS
<1>5. CfgInfoReq(session_id, p1, p2, p3)
        = [[[[EmptyCfgInfoReq
                EXCEPT !.session_id = session_id]
                EXCEPT !.p1 = Int32Of(p1)]
                EXCEPT !.p2 = p2]
                EXCEPT !.p3 = p3]
  BY DEF CfgInfoReq
<1> HIDE DEF e1, e2, e3, e4
<1>6. QED BY <1>1, <1>2, <1>3, <1>4, <1>5 DEF e4

\* The fields of CfgInfoResp as the program sets them.
LEMMA CfgInfoRespMade ==
  ASSUME NEW ret, NEW ret_msg, NEW fd, NEW req_begin_time
  PROVE  CfgInfoResp(ret, ret_msg, fd, req_begin_time)
           = [ret |-> Int32Of(ret), ret_msg |-> ret_msg, fd |-> Int32Of(fd),
               req_begin_time |-> Int32Of(req_begin_time), unknown |-> << >>]
<1> DEFINE e1 == [ret |-> Int32Of(ret), ret_msg |-> << >>, fd |-> 0, req_begin_time |-> 0,
      unknown |-> << >>]
           e2 == [ret |-> Int32Of(ret), ret_msg |-> ret_msg, fd |-> 0, req_begin_time |-> 0,
               unknown |-> << >>]
           e3 == [ret |-> Int32Of(ret), ret_msg |-> ret_msg, fd |-> Int32Of(fd), req_begin_time |-> 0,
               unknown |-> << >>]
           e4 == [ret |-> Int32Of(ret), ret_msg |-> ret_msg, fd |-> Int32Of(fd),
               req_begin_time |-> Int32Of(req_begin_time), unknown |-> << >>]
<1>1. [EmptyCfgInfoResp EXCEPT !.ret = Int32Of(ret)] = e1
  BY DEF EmptyCfgInfoResp
<1>2. [e1 EXCEPT !.ret_msg = ret_msg] = e2
  OBVIOUS
<1>3. [e2 EXCEPT !.fd = Int32Of(fd)] = e3
  OBVIOUS
<1>4. [e3 EXCEPT !.req_begin_time = Int32Of(req_begin_time)] = e4
  OBVIOUS
<1>5. CfgInfoResp(ret, ret_msg, fd, req_begin_time)
        = [[[[EmptyCfgInfoResp
                EXCEPT !.ret = Int32Of(ret)]
                EXCEPT !.ret_msg = ret_msg]
                EXCEPT !.fd = Int32Of(fd)]
                EXCEPT !.req_begin_time = Int32Of(req_begin_time)]
  BY DEF CfgInfoResp
<1> HIDE DEF e1, e2, e3, e4
<1>6. QED BY <1>1, <1>2, <1>3, <1>4, <1>5 DEF e4

\* The fields of LogInfo as the program sets them.
LEMMA LogInfoMade ==
  ASSUME NEW gns_name, NEW ip_port, NEW session_id, NEW log_text
  PROVE  LogInfo(gns_name, ip_port, session_id, log_text)
           = [gns_name |-> gns_name, ip_port |-> ip_port, session_id |-> session_id,
               log_text |-> log_text, unknown |-> << >>]
<1> DEFINE e1 == [gns_name |-> gns_name, ip_port |-> << >>, session_id |-> << >>, log_text |-> << >>,
      unknown |-> << >>]
           e2 == [gns_name |-> gns_name, ip_port |-> ip_port, session_id |-> << >>, log_text |-> << >>,
               unknown |-> << >>]
           e3 == [gns_name |-> gns_name, ip_port |-> ip_port, session_id |-> session_id,
               log_text |-> << >>, unknown |-> << >>]
           e4 == [gns_name |-> gns_name, ip_port |-> ip_port, session_id |-> session_id,
               log_text |-> log_text, unknown |-> << >>]
<1>1. [EmptyLogInfo EXCEPT !.gns_name = gns_name] = e1
  BY DEF EmptyLogInfo
<1>2. [e1 EXCEPT !.ip_port = ip_port] = e2
  OBVIOUS
<1>3. [e2 EXCEPT !.session_id = session_id] = e3
  OBVIOUS
<1>4. [e3 EXCEPT !.log_text = log_text] = e4
  OBVIOUS
<1>5. LogInfo(gns_name, ip_port, session_id, log_text)
        = [[[[EmptyLogInfo
                EXCEPT !.gns_name = gns_name]
                EXCEPT !.ip_port = ip_port]
                EXCEPT !.session_id = session_id]
                EXCEPT !.log_text = log_text]
  BY DEF LogInfo
<1> HIDE DEF e1, e2, e3, e4
<1>6. QED BY <1>1, <1>2, <1>3, <1>4, <1>5 DEF e4

\* The fields of GetLogReq as the program sets them.
LEMMA GetLogReqMade ==
  ASSUME NEW session_id, NEW gns_name, NEW seq, NEW fd, NEW req_begin_time
  PROVE  GetLogReq(session_id, gns_name, seq, fd, req_begin_time)
           = [session_id |-> session_id, gns_name |-> gns_name, ip_port |-> << >>, seq |-> Int32Of(seq),
               fd |-> Int32Of(fd), req_begin_time |-> Int32Of(req_begin_time), unknown |-> << >>]
<1> DEFINE e1 == [session_id |-> session_id, gns_name |-> << >>, ip_port |-> << >>, seq |-> 0, fd |-> 0,
      req_begin_time |-> 0, unknown |-> << >>]
           e2 == [session_id |-> session_id, gns_name |-> gns_name, ip_port |-> << >>, seq |-> 0,
               fd |-> 0, req_begin_time |-> 0, unknown |-> << >>]
           e3 == [session_id |-> session_id, gns_name |-> gns_name, ip_port |-> << >>,
               seq |-> Int32Of(seq), fd |-> 0, req_begin_time |-> 0, unknown |-> << >>]
           e4 == [session_id |-> session_id, gns_name |-> gns_name, ip_port |-> << >>,
               seq |-> Int32Of(seq), fd |-> Int32Of(fd), req_begin_time |-> 0, unknown |-> << >>]
           e5 == [session_id |-> session_id, gns_name |-> gns_name, ip_port |-> << >>,
               seq |-> Int32Of(seq), fd |-> Int32Of(fd), req_begin_time |-> Int32Of(req_begin_time),
               unknown |-> << >>]
<1>1. [EmptyGetLogReq EXCEPT !.session_id = session_id] = e1
  BY DEF EmptyGetLogReq
<1>2. [e1 EXCEPT !.gns_name = gns_name] = e2
  OBVIOUS
<1>3. [e2 EXCEPT !.seq = Int32Of(seq)] = e3
  OBVIOUS
<1>4. [e3 EXCEPT !.fd = Int32Of(fd)] = e4
  OBVIOUS
<1>5. [e4 EXCEPT !.req_begin_time = Int32Of(req_begin_time)] = e5
  OBVIOUS
<1>6. GetLogReq(session_id, gns_name, seq, fd, req_begin_time)
        = [[[[[EmptyGetLogReq
                EXCEPT !.session_id = session_id]
                EXCEPT !.gns_name = gns_name]
                EXCEPT !.seq = Int32Of(seq)]
                EXCEPT !.fd = Int32Of(fd)]
                EXCEPT !.req_begin_time = Int32Of(req_begin_time)]
  BY DEF GetLogReq
<1> HIDE DEF e1, e2, e3, e4, e5
<1>7. QED BY <1>1, <1>2, <1>3, <1>4, <1>5, <1>6 DEF e5

\* The fields of GetLogResp as the program sets them.
LEMMA GetLogRespMade ==
  ASSUME NEW ret, NEW ret_msg, NEW fd, NEW req_begin_time, NEW log_text
  PROVE  GetLogResp(ret, ret_msg, fd, req_begin_time, log_text)
           = [ret |-> Int32Of(ret), ret_msg |-> ret_msg, fd |-> Int32Of(fd),
               req_begin_time |-> Int32Of(req_begin_time), log_text |-> log_text, unknown |-> << >>]
<1> DEFINE e1 == [ret |-> Int32Of(ret), ret_msg |-> << >>, fd |-> 0, req_begin_time |-> 0,
      log_text |-> << >>, unknown |-> << >>]
           e2 == [ret |-> Int32Of(ret), ret_msg |-> ret_msg, fd |-> 0, req_begin_time |-> 0,
               log_text |-> << >>, unknown |-> << >>]
           e3 == [ret |-> Int32Of(ret), ret_msg |-> ret_msg, fd |-> Int32Of(fd), req_begin_time |-> 0,
               log_text |-> << >>, unknown |-> << >>]
           e4 == [ret |-> Int32Of(ret), ret_msg |-> ret_msg, fd |-> Int32Of(fd),
               req_begin_time |-> Int32Of(req_begin_time), log_text |-> << >>, unknown |-> << >>]
           e5 == [ret |-> Int32Of(ret), ret_msg |-> ret_msg, fd |-> Int32Of(fd),
               req_begin_time |-> Int32Of(req_begin_time), log_text |-> log_text, unknown |-> << >>]
<1>1. [EmptyGetLogResp EXCEPT !.ret = Int32Of(ret)] = e1
  BY DEF EmptyGetLogResp
<1>2. [e1 EXCEPT !.ret_msg = ret_msg] = e2
  OBVIOUS
<1>3. [e2 EXCEPT !.fd = Int32Of(fd)] = e3
  OBVIOUS
<1>4. [e3 EXCEPT !.req_begin_time = Int32Of(req_begin_time)] = e4
  OBVIOUS
<1>5. [e4 EXCEPT !.log_text = log_text] = e5
  OBVIOUS
<1>6. GetLogResp(ret, ret_msg, fd, req_begin_time, log_text)
        = [[[[[EmptyGetLogResp
                EXCEPT !.ret = Int32Of(ret)]
                EXCEPT !.ret_msg = ret_msg]
                EXCEPT !.fd = Int32Of(fd)]
                EXCEPT !.req_begin_time = Int32Of(req_begin_time)]
                EXCEPT !.log_text = log_text]
  BY DEF GetLogResp
<1> HIDE DEF e1, e2, e3, e4, e5
<1>7. QED BY <1>1, <1>2, <1>3, <1>4, <1>5, <1>6 DEF e5

\* The fields of LogText as the program sets them.
LEMMA LogTextMade ==
  ASSUME NEW ip_port, NEW gns_name, NEW text
  PROVE  LogText(ip_port, gns_name, text)
           = [ip_port |-> ip_port, gns_name |-> gns_name, text |-> text, unknown |-> << >>]
<1> DEFINE e1 == [ip_port |-> ip_port, gns_name |-> << >>, text |-> << >>, unknown |-> << >>]
           e2 == [ip_port |-> ip_port, gns_name |-> gns_name, text |-> << >>, unknown |-> << >>]
           e3 == [ip_port |-> ip_port, gns_name |-> gns_name, text |-> text, unknown |-> << >>]
<1>1. [EmptyLogText EXCEPT !.ip_port = ip_port] = e1
  BY DEF EmptyLogText
<1>2. [e1 EXCEPT !.gns_name = gns_name] = e2
  OBVIOUS
<1>3. [e2 EXCEPT !.text = text] = e3
  OBVIOUS
<1>4. LogText(ip_port, gns_name, text)
        = [[[EmptyLogText
                EXCEPT !.ip_port = ip_port]
                EXCEPT !.gns_name = gns_name]
                EXCEPT !.text = text]
  BY DEF LogText
<1> HIDE DEF e1, e2, e3
<1>5. QED BY <1>1, <1>2, <1>3, <1>4 DEF e3

\* What the reader of a composed message has of it.

\* The request of the gateway for a filter.
Addressed(m, fd, time) ==
  [m EXCEPT !.gns_name = Gns, !.fd = Int32Of(fd), !.req_begin_time = Int32Of(time)]

\* The fields of a request with its address, as the gateway sets them.
LEMMA AddressedMade ==
  ASSUME NEW sid, NEW p1, NEW p2, NEW p3, NEW fd, NEW time
  PROVE  Addressed([session_id |-> sid, p1 |-> p1, p2 |-> p2, p3 |-> p3, gns_name |-> << >>,
         ip_port |-> << >>, fd |-> 0, req_begin_time |-> 0, unknown |-> << >>], fd, time)
           = [session_id |-> sid, p1 |-> p1, p2 |-> p2, p3 |-> p3, gns_name |-> Gns, ip_port |-> << >>,
               fd |-> Int32Of(fd), req_begin_time |-> Int32Of(time), unknown |-> << >>]
<1> DEFINE e1 == [session_id |-> sid, p1 |-> p1, p2 |-> p2, p3 |-> p3, gns_name |-> Gns,
      ip_port |-> << >>, fd |-> 0, req_begin_time |-> 0, unknown |-> << >>]
           e2 == [session_id |-> sid, p1 |-> p1, p2 |-> p2, p3 |-> p3, gns_name |-> Gns,
               ip_port |-> << >>, fd |-> Int32Of(fd), req_begin_time |-> 0, unknown |-> << >>]
           e3 == [session_id |-> sid, p1 |-> p1, p2 |-> p2, p3 |-> p3, gns_name |-> Gns,
               ip_port |-> << >>, fd |-> Int32Of(fd), req_begin_time |-> Int32Of(time),
               unknown |-> << >>]
<1>1. [[session_id |-> sid, p1 |-> p1, p2 |-> p2, p3 |-> p3, gns_name |-> << >>, ip_port |-> << >>,
      fd |-> 0, req_begin_time |-> 0, unknown |-> << >>] EXCEPT !.gns_name = Gns] = e1
  OBVIOUS
<1>2. [e1 EXCEPT !.fd = Int32Of(fd)] = e2
  OBVIOUS
<1>3. [e2 EXCEPT !.req_begin_time = Int32Of(time)] = e3
  OBVIOUS
<1>4. Addressed([session_id |-> sid, p1 |-> p1, p2 |-> p2, p3 |-> p3, gns_name |-> << >>,
      ip_port |-> << >>, fd |-> 0, req_begin_time |-> 0, unknown |-> << >>], fd, time)
        = [[[[session_id |-> sid, p1 |-> p1, p2 |-> p2, p3 |-> p3, gns_name |-> << >>,
            ip_port |-> << >>, fd |-> 0, req_begin_time |-> 0, unknown |-> << >>]
                EXCEPT !.gns_name = Gns]
                EXCEPT !.fd = Int32Of(fd)]
                EXCEPT !.req_begin_time = Int32Of(time)]
  BY DEF Addressed
<1> HIDE DEF e1, e2, e3
<1>5. QED BY <1>1, <1>2, <1>3, <1>4 DEF e3

LoginReqReads(text, fd, time) ==
  LET r == LoginReq_Parse(LoginReq_Serialize(LoginReq(text, fd, time))) IN
  /\ r.ok <=> Utf8(text)
  /\ r.ok => r.msg.fd = Int32Of(fd) /\ r.msg.req_begin_time = Int32Of(time)

\* What is read of LoginReq as the program sends it.
LEMMA LoginReqSent ==
  ASSUME NEW text \in Seq(Byte), NEW fd \in Int, NEW time \in Int
  PROVE  LoginReqReads(text, fd, time)
<1> DEFINE m == LoginReq(text, fd, time)
<1>1. m = [user_name |-> << >>, password |-> text, fd |-> Int32Of(fd), req_begin_time |-> Int32Of(time),
      unknown |-> << >>]
  BY LoginReqMade
<1>2. Int32Of(fd) \in Int32 /\ Int32Of(time) \in Int32 /\ 0 \in Int32 /\ 0 \in Int64
  BY Casts, NumbersBack
<1>3. << >> \in Seq(Token) /\ << >> \in Seq(Byte) /\ Gns \in Seq(Byte) /\ Utf8(<< >>) /\ Utf8(Gns)
  BY ConstantsRead
<1> HIDE DEF m
<1>4. /\ m \in LoginReqMsg /\ m.unknown = << >>
      /\ m.fd = Int32Of(fd) /\ m.req_begin_time = Int32Of(time)
  BY <1>1, <1>2, <1>3 DEF LoginReqMsg
<1>5. LoginReq_Texts(m) \in SUBSET ({text} \cup {<< >>, Gns}) /\ text \in LoginReq_Texts(m)
  BY <1>1 DEF LoginReq_Texts
<1>6. (\A text_ \in LoginReq_Texts(m) : Utf8(text_)) <=> Utf8(text)
  BY <1>3, <1>5
<1>7. QED BY <1>4, <1>6, LoginReqComes DEF m, LoginReqReads

LoginRespReads(sid, fd, time, ret, text) ==
  LET r == LoginResp_Parse(LoginResp_Serialize(LoginResp(sid, fd, time, ret, text))) IN
  /\ r.ok <=> Utf8(sid) /\ Utf8(text)
  /\ r.ok => r.msg.fd = Int32Of(fd) /\ r.msg.req_begin_time = Int32Of(time)

\* What is read of LoginResp as the program sends it.
LEMMA LoginRespSent ==
  ASSUME NEW sid \in Seq(Byte), NEW fd \in Int, NEW time \in Int, NEW ret \in Int,
         NEW text \in Seq(Byte)
  PROVE  LoginRespReads(sid, fd, time, ret, text)
<1> DEFINE m == LoginResp(sid, fd, time, ret, text)
<1>1. m = [session_id |-> sid, fd |-> Int32Of(fd), req_begin_time |-> Int32Of(time),
      ret |-> Int32Of(ret), ret_msg |-> text, unknown |-> << >>]
  BY LoginRespMade
<1>2. Int32Of(fd) \in Int32 /\ Int32Of(time) \in Int32 /\ Int32Of(ret) \in Int32 /\ 0 \in Int32
      /\ 0 \in Int64
  BY Casts, NumbersBack
<1>3. << >> \in Seq(Token) /\ << >> \in Seq(Byte) /\ Gns \in Seq(Byte) /\ Utf8(<< >>) /\ Utf8(Gns)
  BY ConstantsRead
<1> HIDE DEF m
<1>4. /\ m \in LoginRespMsg /\ m.unknown = << >>
      /\ m.fd = Int32Of(fd) /\ m.req_begin_time = Int32Of(time)
  BY <1>1, <1>2, <1>3 DEF LoginRespMsg
<1>5. LoginResp_Texts(m) \in SUBSET ({sid, text} \cup {<< >>, Gns}) /\ sid \in LoginResp_Texts(m)
      /\ text \in LoginResp_Texts(m)
  BY <1>1 DEF LoginResp_Texts
<1>6. (\A text_ \in LoginResp_Texts(m) : Utf8(text_)) <=> Utf8(sid) /\ Utf8(text)
  BY <1>3, <1>5
<1>7. QED BY <1>4, <1>6, LoginRespComes DEF m, LoginRespReads

CfgInfoReqReads(sid, p1, p2, p3) ==
  LET r == CfgInfoReq_Parse(CfgInfoReq_Serialize(CfgInfoReq(sid, p1, p2, p3))) IN
  /\ r.ok <=> Utf8(sid) /\ Utf8(p3)
  /\ r.ok => r.msg.session_id = sid /\ r.msg.p1 = Int32Of(p1) /\ r.msg.p2 = p2 /\ r.msg.p3 = p3

\* What is read of CfgInfoReq as the program sends it.
LEMMA CfgInfoReqSent ==
  ASSUME NEW sid \in Seq(Byte), NEW p1 \in Int, NEW p2 \in Int64, NEW p3 \in Seq(Byte)
  PROVE  CfgInfoReqReads(sid, p1, p2, p3)
<1> DEFINE m == CfgInfoReq(sid, p1, p2, p3)
<1>1. m = [session_id |-> sid, p1 |-> Int32Of(p1), p2 |-> p2, p3 |-> p3, gns_name |-> << >>,
      ip_port |-> << >>, fd |-> 0, req_begin_time |-> 0, unknown |-> << >>]
  BY CfgInfoReqMade
<1>2. Int32Of(p1) \in Int32 /\ 0 \in Int32 /\ 0 \in Int64
  BY Casts, NumbersBack
<1>3. << >> \in Seq(Token) /\ << >> \in Seq(Byte) /\ Gns \in Seq(Byte) /\ Utf8(<< >>) /\ Utf8(Gns)
  BY ConstantsRead
<1> HIDE DEF m
<1>4. /\ m \in CfgInfoReqMsg /\ m.unknown = << >>
      /\ m.session_id = sid /\ m.p1 = Int32Of(p1) /\ m.p2 = p2 /\ m.p3 = p3
  BY <1>1, <1>2, <1>3 DEF CfgInfoReqMsg
<1>5. CfgInfoReq_Texts(m) \in SUBSET ({sid, p3} \cup {<< >>, Gns}) /\ sid \in CfgInfoReq_Texts(m)
      /\ p3 \in CfgInfoReq_Texts(m)
  BY <1>1 DEF CfgInfoReq_Texts
<1>6. (\A text_ \in CfgInfoReq_Texts(m) : Utf8(text_)) <=> Utf8(sid) /\ Utf8(p3)
  BY <1>3, <1>5
<1>7. QED BY <1>4, <1>6, CfgInfoReqComes DEF m, CfgInfoReqReads

CfgInfoRespReads(ret, text, fd, time) ==
  LET r == CfgInfoResp_Parse(CfgInfoResp_Serialize(CfgInfoResp(ret, text, fd, time))) IN
  /\ r.ok <=> Utf8(text)
  /\ r.ok => r.msg.fd = Int32Of(fd) /\ r.msg.req_begin_time = Int32Of(time)

\* What is read of CfgInfoResp as the program sends it.
LEMMA CfgInfoRespSent ==
  ASSUME NEW ret \in Int, NEW text \in Seq(Byte), NEW fd \in Int, NEW time \in Int
  PROVE  CfgInfoRespReads(ret, text, fd, time)
<1> DEFINE m == CfgInfoResp(ret, text, fd, time)
<1>1. m = [ret |-> Int32Of(ret), ret_msg |-> text, fd |-> Int32Of(fd), req_begin_time |-> Int32Of(time),
      unknown |-> << >>]
  BY CfgInfoRespMade
<1>2. Int32Of(ret) \in Int32 /\ Int32Of(fd) \in Int32 /\ Int32Of(time) \in Int32 /\ 0 \in Int32
      /\ 0 \in Int64
  BY Casts, NumbersBack
<1>3. << >> \in Seq(Token) /\ << >> \in Seq(Byte) /\ Gns \in Seq(Byte) /\ Utf8(<< >>) /\ Utf8(Gns)
  BY ConstantsRead
<1> HIDE DEF m
<1>4. /\ m \in CfgInfoRespMsg /\ m.unknown = << >>
      /\ m.fd = Int32Of(fd) /\ m.req_begin_time = Int32Of(time)
  BY <1>1, <1>2, <1>3 DEF CfgInfoRespMsg
<1>5. CfgInfoResp_Texts(m) \in SUBSET ({text} \cup {<< >>, Gns}) /\ text \in CfgInfoResp_Texts(m)
  BY <1>1 DEF CfgInfoResp_Texts
<1>6. (\A text_ \in CfgInfoResp_Texts(m) : Utf8(text_)) <=> Utf8(text)
  BY <1>3, <1>5
<1>7. QED BY <1>4, <1>6, CfgInfoRespComes DEF m, CfgInfoRespReads

GetLogReqReads(sid, gns, seq, fd, time) ==
  LET r == GetLogReq_Parse(GetLogReq_Serialize(GetLogReq(sid, gns, seq, fd, time))) IN
  /\ r.ok <=> Utf8(sid) /\ Utf8(gns)
  /\ r.ok => r.msg.fd = Int32Of(fd) /\ r.msg.req_begin_time = Int32Of(time)

\* What is read of GetLogReq as the program sends it.
LEMMA GetLogReqSent ==
  ASSUME NEW sid \in Seq(Byte), NEW gns \in Seq(Byte), NEW seq \in Int, NEW fd \in Int, NEW time \in Int
  PROVE  GetLogReqReads(sid, gns, seq, fd, time)
<1> DEFINE m == GetLogReq(sid, gns, seq, fd, time)
<1>1. m = [session_id |-> sid, gns_name |-> gns, ip_port |-> << >>, seq |-> Int32Of(seq),
      fd |-> Int32Of(fd), req_begin_time |-> Int32Of(time), unknown |-> << >>]
  BY GetLogReqMade
<1>2. Int32Of(seq) \in Int32 /\ Int32Of(fd) \in Int32 /\ Int32Of(time) \in Int32 /\ 0 \in Int32
      /\ 0 \in Int64
  BY Casts, NumbersBack
<1>3. << >> \in Seq(Token) /\ << >> \in Seq(Byte) /\ Gns \in Seq(Byte) /\ Utf8(<< >>) /\ Utf8(Gns)
  BY ConstantsRead
<1> HIDE DEF m
<1>4. /\ m \in GetLogReqMsg /\ m.unknown = << >>
      /\ m.fd = Int32Of(fd) /\ m.req_begin_time = Int32Of(time)
  BY <1>1, <1>2, <1>3 DEF GetLogReqMsg
<1>5. GetLogReq_Texts(m) \in SUBSET ({sid, gns} \cup {<< >>, Gns}) /\ sid \in GetLogReq_Texts(m)
      /\ gns \in GetLogReq_Texts(m)
  BY <1>1 DEF GetLogReq_Texts
<1>6. (\A text_ \in GetLogReq_Texts(m) : Utf8(text_)) <=> Utf8(sid) /\ Utf8(gns)
  BY <1>3, <1>5
<1>7. QED BY <1>4, <1>6, GetLogReqComes DEF m, GetLogReqReads

SetConfigReads(sid, p1, p2, p3, fd, time) ==
  LET r == CfgInfoReq_Parse(CfgInfoReq_Serialize(Addressed(CfgInfoReq(sid, p1, p2, p3), fd, time))) IN
  /\ r.ok <=> Utf8(sid) /\ Utf8(p3)
  /\ r.ok => r.msg.fd = Int32Of(fd) /\ r.msg.req_begin_time = Int32Of(time) /\ r.msg.p1 = Int32Of(p1)
      /\ r.msg.p2 = p2 /\ r.msg.p3 = p3

\* What the server reads of a SET_CONF_REQ.
LEMMA SetConfigSent ==
  ASSUME NEW sid \in Seq(Byte), NEW p1 \in Int, NEW p2 \in Int64, NEW p3 \in Seq(Byte), NEW fd \in Int,
         NEW time \in Int
  PROVE  SetConfigReads(sid, p1, p2, p3, fd, time)
<1> DEFINE m == Addressed(CfgInfoReq(sid, p1, p2, p3), fd, time)
<1>1. m = [session_id |-> sid, p1 |-> Int32Of(p1), p2 |-> p2, p3 |-> p3, gns_name |-> Gns,
      ip_port |-> << >>, fd |-> Int32Of(fd), req_begin_time |-> Int32Of(time), unknown |-> << >>]
  <2>1. CfgInfoReq(sid, p1, p2, p3) = [session_id |-> sid, p1 |-> Int32Of(p1), p2 |-> p2, p3 |-> p3,
        gns_name |-> << >>, ip_port |-> << >>, fd |-> 0, req_begin_time |-> 0, unknown |-> << >>]
    BY CfgInfoReqMade
  <2>2. QED BY <2>1, AddressedMade
<1>2. Int32Of(p1) \in Int32 /\ Int32Of(fd) \in Int32 /\ Int32Of(time) \in Int32 /\ 0 \in Int32
      /\ 0 \in Int64
  BY Casts, NumbersBack
<1>3. << >> \in Seq(Token) /\ << >> \in Seq(Byte) /\ Gns \in Seq(Byte) /\ Utf8(<< >>) /\ Utf8(Gns)
  BY ConstantsRead
<1> HIDE DEF m
<1>4. /\ m \in CfgInfoReqMsg /\ m.unknown = << >>
      /\ m.fd = Int32Of(fd) /\ m.req_begin_time = Int32Of(time) /\ m.p1 = Int32Of(p1) /\ m.p2 = p2
          /\ m.p3 = p3
  BY <1>1, <1>2, <1>3 DEF CfgInfoReqMsg
<1>5. CfgInfoReq_Texts(m) \in SUBSET ({sid, p3} \cup {<< >>, Gns}) /\ sid \in CfgInfoReq_Texts(m)
      /\ p3 \in CfgInfoReq_Texts(m)
  BY <1>1 DEF CfgInfoReq_Texts
<1>6. (\A text_ \in CfgInfoReq_Texts(m) : Utf8(text_)) <=> Utf8(sid) /\ Utf8(p3)
  BY <1>3, <1>5
<1>7. QED BY <1>4, <1>6, CfgInfoReqComes DEF m, SetConfigReads

\* The answer with the logs of a session is read back, since their texts are
\* UTF-8.
GetLogRespReads(ret, text, fd, time, log_text) ==
  LET r == GetLogResp_Parse(GetLogResp_Serialize(GetLogResp(ret, text, fd, time, log_text))) IN
  r.ok /\ r.msg.fd = Int32Of(fd) /\ r.msg.req_begin_time = Int32Of(time)

\* What is read of GetLogResp as the program sends it.
LEMMA GetLogRespSent ==
  ASSUME NEW ret \in Int, NEW text \in Seq(Byte), Utf8(text), NEW fd \in Int, NEW time \in Int,
         NEW texts \in Seq(Seq(Byte)), \A k \in DOMAIN texts : Utf8(texts[k]),
         NEW log_text \in {<< >>, <<LogText(<< >>, Gns, texts)>>}
  PROVE  GetLogRespReads(ret, text, fd, time, log_text)
<1> DEFINE x == LogText(<< >>, Gns, texts)
           m == GetLogResp(ret, text, fd, time, log_text)
<1>1. x \in LogTextMsg /\ x.unknown = << >>
  <2>1. x = [ip_port |-> << >>, gns_name |-> Gns, text |-> texts, unknown |-> << >>]
    BY LogTextMade
  <2>2. << >> \in Seq(Token) /\ << >> \in Seq(Byte) /\ Gns \in Seq(Byte)
    BY ConstantsRead
  <2> HIDE DEF x
  <2>3. QED BY <2>1, <2>2 DEF LogTextMsg
<1>2. \A t \in LogText_Texts(x) : Utf8(t)
  <2>1. x.ip_port = << >> /\ x.gns_name = Gns /\ x.text = texts
    BY LogTextMade
  <2>2. DOMAIN texts = 1 .. Len(texts)
    OBVIOUS
  <2> HIDE DEF x
  <2>3. QED BY <2>1, <2>2, ConstantsRead DEF LogText_Texts
<1> HIDE DEF x
<1>3. log_text \in Seq(LogTextMsg) /\ \A k \in 1 .. Len(log_text) : log_text[k] = x
  <2>1. CASE log_text = << >>
    BY <2>1
  <2>2. CASE log_text = <<x>>
    BY <1>1, <2>2
  <2>3. QED BY <2>1, <2>2 DEF x
<1>4. /\ m \in GetLogRespMsg /\ m.unknown = << >> /\ m.log_text = log_text /\ m.ret_msg = text
      /\ m.fd = Int32Of(fd) /\ m.req_begin_time = Int32Of(time)
  <2>1. m = [ret |-> Int32Of(ret), ret_msg |-> text, fd |-> Int32Of(fd),
             req_begin_time |-> Int32Of(time), log_text |-> log_text, unknown |-> << >>]
    BY GetLogRespMade
  <2>2. Int32Of(ret) \in Int32 /\ Int32Of(fd) \in Int32 /\ Int32Of(time) \in Int32
    BY Casts
  <2>3. << >> \in Seq(Token)
    OBVIOUS
  <2> HIDE DEF m
  <2>4. QED BY <1>3, <2>1, <2>2, <2>3 DEF GetLogRespMsg
<1> HIDE DEF m
<1>5. \A k \in 1 .. Len(m.log_text) : m.log_text[k] = x
  BY <1>3, <1>4
<1>6. \A t \in GetLogResp_Texts(m) : Utf8(t)
  BY <1>2, <1>4, <1>5 DEF GetLogResp_Texts
<1>7. \A k \in 1 .. Len(m.log_text) : m.log_text[k].unknown = << >>
  BY <1>1, <1>5
<1>8. QED BY <1>4, <1>6, <1>7, GetLogRespComes DEF m, GetLogRespReads

\* A client's log, cut where it may be, is a wire of the server's class.
LEMMA LogInfoSent ==
  ASSUME NEW sid \in Seq(Byte), NEW text \in Seq(Byte)
  PROVE  LogInfo_Serialize(LogInfo(Gns, IpPort, sid, Content(text))) \in Seq(Token)
<1> DEFINE n == Min({Len(text), ContentMax})
<1>1. n \in Nat /\ n <= Len(text)
  <2> DEFINE S == {Len(text), ContentMax}
  <2>1. Len(text) \in Nat /\ ContentMax \in Nat
    BY ConversationAssumption
  <2>2. \E x \in S : \A y \in S : x <= y
    BY <2>1
  <2>3. Min(S) \in S /\ \A y \in S : Min(S) <= y
    <3> HIDE DEF S
    <3>1. QED BY <2>2 DEF Min
  <2>4. QED BY <2>1, <2>3
<1> HIDE DEF n
<1>2. SubSeq(text, 1, n) \in Seq(Byte)
  BY <1>1
<1>3. Content(text) \in Seq(Byte)
  <2>1. Content(text) = <<"plain">> \o SubSeq(text, 1, n)
    BY DEF Content, n
  <2>2. QED BY <1>2, <2>1, ConstantsRead
<1> DEFINE m == LogInfo(Gns, IpPort, sid, Content(text))
<1>4. m.gns_name \in Seq(Byte) /\ m.ip_port \in Seq(Byte) /\ m.session_id \in Seq(Byte)
      /\ m.log_text \in Seq(Byte) /\ m.unknown = << >>
  BY <1>3, LogInfoMade, ConstantsRead
<1> HIDE DEF m
<1>5. \A num \in Nat : \A t \in Seq(Byte) : StringField(num, t) \in Seq(Token)
  BY TextCost DEF StringField
<1>6. LogInfo_Serialize(m) = StringField(1, m.gns_name) \o StringField(2, m.ip_port) \o
        StringField(3, m.session_id) \o StringField(4, m.log_text) \o << >>
  BY <1>4 DEF LogInfo_Serialize
<1>7. /\ StringField(1, m.gns_name) \in Seq(Token) /\ StringField(2, m.ip_port) \in Seq(Token)
      /\ StringField(3, m.session_id) \in Seq(Token) /\ StringField(4, m.log_text) \in Seq(Token)
  BY <1>4, <1>5
<1>8. LogInfo_Serialize(m) \in Seq(Token)
  BY <1>6, <1>7
<1>9. QED BY <1>8 DEF m

\* A log the server keeps is UTF-8.
LEMMA LineLegible ==
  ASSUME NEW w \in Seq(Token), LogInfo_Parse(w).ok
  PROVE  Line(LogInfo_Parse(w).msg) \in Seq(Byte) /\ Utf8(Line(LogInfo_Parse(w).msg))
<1> DEFINE name == "LogInfo"
           r == LogInfo_Parse(w)
           cases == PyFields(name)
<1>1. name \in MsgNames /\ Parse(name, w) = r /\ MsgOf(name) = LogInfoMsg
  BY DEF MsgNames, Parse, MsgOf
<1>2. w \in Seq(Tokens(cases))
  <2>1. \A t \in Token : t \in Tokens(cases)
    BY TokenIs DEF Tokens
  <2>2. QED BY <2>1
<1>3. cases = LogInfo_Cases
  BY DEF PyFields, PyLogInfo, LogInfo_Cases
<1>4. r \in Sound(cases, LogInfoMsg)
  <2>1. Start(name) \in Sound(cases, MsgOf(name))
    BY <1>1, Starts, EmptySound DEF Sound
  <2>2. r = ParsedAll(cases, Start(name), w)
    BY <1>1, Starts
  <2>3. QED BY <1>1, <1>2, <2>1, <2>2, Starts, FieldsOf, ParsedSound
<1> DEFINE m == r.msg
<1>5. m \in LogInfoMsg /\ SoundMsg(LogInfo_Cases, m)
  <2> HIDE DEF r
  <2>1. QED BY <1>3, <1>4 DEF Sound, Results, r
<1> HIDE DEF r, m, cases
<1>6. m.gns_name \in Seq(Byte) /\ m.ip_port \in Seq(Byte) /\ m.log_text \in Seq(Byte)
  BY <1>5 DEF LogInfoMsg
<1>7. Utf8(m.gns_name) /\ Utf8(m.ip_port) /\ Utf8(m.log_text)
  <2>1. /\ LogInfo_Cases[1].type = "string" /\ LogInfo_Cases[1].name = "gns_name"
        /\ LogInfo_Cases[2].type = "string" /\ LogInfo_Cases[2].name = "ip_port"
        /\ LogInfo_Cases[4].type = "string" /\ LogInfo_Cases[4].name = "log_text"
        /\ 1 \in DOMAIN LogInfo_Cases /\ 2 \in DOMAIN LogInfo_Cases /\ 4 \in DOMAIN LogInfo_Cases
    BY LogInfoClass DEF Field
  <2>2. /\ Legible(LogInfo_Cases[1], m.gns_name) /\ Legible(LogInfo_Cases[2], m.ip_port)
        /\ Legible(LogInfo_Cases[4], m.log_text)
    BY <1>5, <2>1 DEF SoundMsg
  <2>3. QED BY <2>1, <2>2 DEF Legible, TextsIn
<1> DEFINE l1 == m.gns_name \o <<"plain">>
           l2 == l1 \o m.ip_port
           l3 == l2 \o m.log_text
<1>8. l1 \in Seq(Byte) /\ Utf8(l1)
  BY <1>6, <1>7, ConstantsRead, Utf8Joined
<1> HIDE DEF l1
<1>9. l2 \in Seq(Byte) /\ Utf8(l2)
  BY <1>6, <1>7, <1>8, Utf8Joined
<1> HIDE DEF l2
<1>10. l3 \in Seq(Byte) /\ Utf8(l3)
  BY <1>6, <1>7, <1>9, Utf8Joined
<1>11. Line(m) = l3
  BY DEF Line, l1, l2
<1>12. QED BY <1>10, <1>11 DEF m, r

\* The invariant holds at first.
LEMMA ConversationStart == ConversationInit => ConversationInv
<1> SUFFICES ASSUME ConversationInit PROVE ConversationInv
  OBVIOUS
<1>1. LogsLegible
  BY DEF ConversationInit, LogsLegible
<1>2. filter.session_id \in Seq(Byte)
  BY ConstantsRead DEF ConversationInit, NoFilter
<1>3. asked.kind = "none" /\ push = << >> /\ stage = "idle"
  BY DEF ConversationInit
<1>4. PushedAsTyped /\ RequestTyped
  BY <1>3 DEF PushedAsTyped, RequestTyped
<1>5. QED BY <1>1, <1>2, <1>3, <1>4 DEF ConversationInv

\* A request that can be read as it was typed keeps the invariant.
LEMMA AskingKeeps ==
  ASSUME ConversationInv, NEW request, NEW w, Asking(request, w),
         RequestTyped', Asks'
  PROVE  ConversationInv'
<1>1. stage' = "asked" /\ push' = << >> /\ logs' = logs /\ filter' = filter
  BY DEF Asking
<1>2. LogsLegible' /\ PushedAsTyped'
  BY <1>1 DEF ConversationInv, LogsLegible, PushedAsTyped
<1>3. QED BY <1>1, <1>2 DEF ConversationInv

\* The gateway sends LOGIN_REQ.
LEMMA LoginReq_SentKeeps ==
  ASSUME ConversationInv, NEW password \in Seq(Byte), NEW fd \in Int32, NEW time \in Nat,
         LoginReq_Sent(password, fd, time)
  PROVE  ConversationInv'
<1> DEFINE request == [kind |-> "login", texts |-> {password}, fd |-> fd, time |-> time]
           w == LoginReq_Serialize(LoginReq(password, fd, time))
<1>1. Asking(request, w) /\ asked' = request /\ wire' = w
  BY DEF LoginReq_Sent, Asking
<1>2. LET r == LoginReq_Parse(w) IN
      /\ r.ok <=> Utf8(password)
      /\ r.ok => r.msg.fd = fd /\ r.msg.req_begin_time = Int32Of(time)
  <2>1. LoginReqReads(password, fd, time)
    BY LoginReqSent, NumbersBack
  <2>2. QED BY <2>1, Int32Keeps DEF LoginReqReads
<1>3. asked'.kind = "login" /\ asked'.texts = {password} /\ asked'.fd = fd /\ asked'.time = time
  BY <1>1
<1>4. RequestTyped'
  BY <1>3 DEF RequestTyped
<1> HIDE DEF request, w
<1>5. Asks'
  BY <1>1, <1>2, <1>3 DEF Asks, Asked, AllLegible, Carries
<1>6. QED BY <1>1, <1>4, <1>5, AskingKeeps

\* The gateway sends GET_LOG_REQ.
LEMMA GetLog_SentKeeps ==
  ASSUME ConversationInv, NEW session \in Seq(Byte), NEW seq \in Int, NEW fd \in Int32,
         NEW time \in Nat,
         GetLog_Sent(session, seq, fd, time)
  PROVE  ConversationInv'
<1> DEFINE request == [kind |-> "fetch", texts |-> {session}, fd |-> fd, time |-> time]
           w == GetLogReq_Serialize(GetLogReq(session, Gns, seq, fd, time))
<1>1. Asking(request, w) /\ asked' = request /\ wire' = w
  BY DEF GetLog_Sent, Asking
<1>2. LET r == GetLogReq_Parse(w) IN
      /\ r.ok <=> Utf8(session)
      /\ r.ok => r.msg.fd = fd /\ r.msg.req_begin_time = Int32Of(time)
  <2>1. GetLogReqReads(session, Gns, seq, fd, time)
    BY GetLogReqSent, NumbersBack, ConstantsRead
  <2>2. QED BY <2>1, Int32Keeps, ConstantsRead DEF GetLogReqReads
<1>3. asked'.kind = "fetch" /\ asked'.texts = {session} /\ asked'.fd = fd /\ asked'.time = time
  BY <1>1
<1>4. RequestTyped'
  BY <1>3 DEF RequestTyped
<1> HIDE DEF request, w
<1>5. Asks'
  BY <1>1, <1>2, <1>3 DEF Asks, Asked, AllLegible, Carries
<1>6. QED BY <1>1, <1>4, <1>5, AskingKeeps

\* The gateway sends SET_CONF_REQ.
LEMMA SetConfig_SentKeeps ==
  ASSUME ConversationInv, NEW session \in Seq(Byte), NEW p1 \in Int, NEW p2 \in Int64,
         NEW p3 \in Seq(Byte), NEW fd \in Int32, NEW time \in Nat,
         SetConfig_Sent(session, p1, p2, p3, fd, time)
  PROVE  ConversationInv'
<1> DEFINE request == [kind |-> "config", texts |-> {session, p3}, p2 |-> p2, p3 |-> p3,
                       fd |-> fd, time |-> time]
           n == Int32Of(p1)
           w == CfgInfoReq_Serialize(Addressed(CfgInfoReq(session, n, p2, p3), fd, time))
<1>1. Asking(request, w) /\ asked' = request /\ wire' = w
  BY DEF SetConfig_Sent, Asking, Addressed
<1>2. LET r == CfgInfoReq_Parse(w) IN
      /\ r.ok <=> Utf8(session) /\ Utf8(p3)
      /\ r.ok => /\ r.msg.fd = fd /\ r.msg.req_begin_time = Int32Of(time)
                 /\ r.msg.p1 \in Int32 /\ r.msg.p2 = p2 /\ r.msg.p3 = p3
  <2>1. n \in Int32 /\ n \in Int /\ fd \in Int /\ Int32Of(n) \in Int32
    BY Casts, NumbersBack
  <2> HIDE DEF n
  <2>2. SetConfigReads(session, n, p2, p3, fd, time)
    BY <2>1, SetConfigSent
  <2>3. Int32Of(fd) = fd
    BY Int32Keeps
  <2>4. QED BY <2>1, <2>2, <2>3 DEF SetConfigReads
<1>3. /\ asked'.kind = "config" /\ asked'.texts = {session, p3} /\ asked'.fd = fd
      /\ asked'.time = time /\ asked'.p2 = p2 /\ asked'.p3 = p3
  BY <1>1
<1>4. RequestTyped'
  BY <1>3 DEF RequestTyped
<1> HIDE DEF request, w
<1>5. Asks'
  BY <1>1, <1>2, <1>3 DEF Asks, Asked, AllLegible, Carries
<1>6. QED BY <1>1, <1>4, <1>5, AskingKeeps

\* The server dropped a request it could not read.
LEMMA DroppedKeeps ==
  ASSUME ConversationInv, Dropped, ~AllLegible
  PROVE  ConversationInv'
BY DEF ConversationInv, Dropped, LogsLegible, RequestTyped, PushedAsTyped, AllLegible

\* What a request that was read gives the answer to carry.
LEMMA CarriesOn ==
  ASSUME ConversationInv, asked.kind # "none", NEW msg, Carries(msg)
  PROVE  /\ msg.fd \in Int /\ msg.req_begin_time \in Int
         /\ Int32Of(msg.fd) = asked.fd /\ Int32Of(msg.req_begin_time) = Int32Of(asked.time)
<1>1. asked.fd \in Int32 /\ asked.time \in Nat
  BY DEF ConversationInv, RequestTyped
<1>2. Int32Of(asked.time) \in Int32 /\ Int32 \in SUBSET Int
  BY <1>1, Casts, NumbersBack
<1>3. QED BY <1>1, <1>2, Int32Keeps DEF Carries

\* The server answers LOGIN_REQ.
LEMMA LoginLogicKeeps ==
  ASSUME ConversationInv, LoginLogic
  PROVE  ConversationInv'
<1> DEFINE req == LoginReq_Parse(wire)
<1>1. stage = "asked" /\ asked.kind = "login" /\ Asked(req)
  BY DEF LoginLogic, ConversationInv, Asks
<1>2. CASE ~req.ok
  BY <1>1, <1>2, DroppedKeeps DEF LoginLogic, Asked
<1>3. CASE req.ok
  <2>1. AllLegible /\ Carries(req.msg) /\ asked.kind # "none"
    BY <1>1, <1>3 DEF Asked
  <2>2. /\ stage' = "answered" /\ asked' = asked /\ push' = push /\ logs' = logs /\ filter' = filter
        /\ \/ wire' = LoginResp_Serialize(
                       LoginResp(Sid, req.msg.fd, req.msg.req_begin_time, 0, Ok))
           \/ wire' = LoginResp_Serialize(
                       LoginResp(<< >>, req.msg.fd, req.msg.req_begin_time, ErrorCode, NotOk))
    BY <1>3 DEF LoginLogic
  <2> DEFINE resp == LoginResp_Parse(wire')
  <2>3. resp.ok /\ resp.msg.fd = asked.fd /\ resp.msg.req_begin_time = Int32Of(asked.time)
    <3>1. /\ req.msg.fd \in Int /\ req.msg.req_begin_time \in Int
          /\ Int32Of(req.msg.fd) = asked.fd
          /\ Int32Of(req.msg.req_begin_time) = Int32Of(asked.time)
      BY <2>1, CarriesOn
    <3>2. 0 \in Int /\ ErrorCode \in Int
      BY DEF ErrorCode
    <3> DEFINE fd == req.msg.fd
               time == req.msg.req_begin_time
               w1 == LoginResp_Serialize(LoginResp(Sid, fd, time, 0, Ok))
               w2 == LoginResp_Serialize(LoginResp(<< >>, fd, time, ErrorCode, NotOk))
    <3>3. wire' \in {w1, w2}
      BY <2>2
    <3> HIDE DEF req, fd, time
    <3>4. LoginRespReads(Sid, fd, time, 0, Ok)
      BY <3>1, <3>2, ConstantsRead, LoginRespSent DEF fd, time
    <3>5. LoginRespReads(<< >>, fd, time, ErrorCode, NotOk)
      <4> DEFINE none == << >>
      <4>1. none \in Seq(Byte)
        OBVIOUS
      <4> HIDE DEF none
      <4>2. LoginRespReads(none, fd, time, ErrorCode, NotOk)
        BY <3>1, <3>2, <4>1, ConstantsRead, LoginRespSent DEF fd, time
      <4>3. QED BY <4>2 DEF none
    <3>6. ASSUME NEW w \in {w1, w2}
          PROVE  LET r == LoginResp_Parse(w) IN
                 r.ok /\ r.msg.fd = Int32Of(fd) /\ r.msg.req_begin_time = Int32Of(time)
      BY <3>4, <3>5, ConstantsRead DEF LoginRespReads
    <3> HIDE DEF w1, w2
    <3>7. QED BY <3>1, <3>3, <3>6 DEF fd, time
  <2> HIDE DEF req, resp
  <2>4. Answers'
    BY <1>1, <2>1, <2>2, <2>3 DEF Answers, Answered, AllLegible, Carries, resp
  <2>5. LogsLegible' /\ RequestTyped' /\ PushedAsTyped'
    BY <2>2 DEF ConversationInv, LogsLegible, RequestTyped, PushedAsTyped
  <2>6. QED BY <2>2, <2>4, <2>5 DEF ConversationInv
<1>4. QED BY <1>2, <1>3

\* The server answers GET_LOG_REQ.
LEMMA GetLogKeeps ==
  ASSUME ConversationInv, GetLog
  PROVE  ConversationInv'
<1> DEFINE req == GetLogReq_Parse(wire)
           found == req.msg.session_id = Sid
<1>1. stage = "asked" /\ asked.kind = "fetch" /\ Asked(req)
  BY DEF GetLog, ConversationInv, Asks
<1>2. CASE ~req.ok
  BY <1>1, <1>2, DroppedKeeps DEF GetLog, Asked
<1>3. CASE req.ok
  <2>1. AllLegible /\ Carries(req.msg) /\ asked.kind # "none" /\ LogsLegible
    BY <1>1, <1>3 DEF Asked, ConversationInv
  <2> DEFINE fd == req.msg.fd
             time == req.msg.req_begin_time
             found_ == LogText(<< >>, Gns, logs)
  <2>2. /\ stage' = "answered" /\ asked' = asked /\ push' = push /\ filter' = filter
        /\ logs' \in {<< >>, logs}
        /\ \/ wire' = GetLogResp_Serialize(GetLogResp(0, << >>, fd, time, <<found_>>))
           \/ wire' = GetLogResp_Serialize(GetLogResp(ErrorCode, NotOk, fd, time, << >>))
    BY <1>3 DEF GetLog, GetLogAnswer
  <2> DEFINE resp == GetLogResp_Parse(wire')
  <2>3. resp.ok /\ resp.msg.fd = asked.fd /\ resp.msg.req_begin_time = Int32Of(asked.time)
    <3>1. fd \in Int /\ time \in Int
          /\ Int32Of(fd) = asked.fd /\ Int32Of(time) = Int32Of(asked.time)
      BY <2>1, CarriesOn
    <3>2. 0 \in Int /\ ErrorCode \in Int
      BY DEF ErrorCode
    <3>3. /\ logs \in Seq(Seq(Byte)) /\ \A k \in DOMAIN logs : Utf8(logs[k])
          /\ <<found_>> \in {<< >>, <<found_>>} /\ << >> \in {<< >>, <<found_>>}
      BY <2>1 DEF LogsLegible
    <3> DEFINE w1 == GetLogResp_Serialize(GetLogResp(0, << >>, fd, time, <<found_>>))
               w2 == GetLogResp_Serialize(GetLogResp(ErrorCode, NotOk, fd, time, << >>))
    <3>4. wire' \in {w1, w2}
      BY <2>2
    <3> HIDE DEF req, fd, time
    <3>5. GetLogRespReads(0, << >>, fd, time, <<found_>>)
      <4> DEFINE none == << >>
      <4>1. none \in Seq(Byte) /\ Utf8(none)
        BY ConstantsRead
      <4> DEFINE all == <<found_>>
      <4>2. all \in {<< >>, <<LogText(<< >>, Gns, logs)>>}
        OBVIOUS
      <4> HIDE DEF none, found_, all
      <4>3. GetLogRespReads(0, none, fd, time, all)
        BY <3>1, <3>2, <3>3, <4>1, <4>2, GetLogRespSent
      <4>4. QED BY <4>3 DEF none, all
    <3>6. GetLogRespReads(ErrorCode, NotOk, fd, time, << >>)
      <4> DEFINE all == << >>
      <4>2. all \in {<< >>, <<LogText(<< >>, Gns, logs)>>}
        OBVIOUS
      <4> HIDE DEF all
      <4>3. GetLogRespReads(ErrorCode, NotOk, fd, time, all)
        BY <3>1, <3>2, <3>3, <4>2, ConstantsRead, GetLogRespSent
      <4>4. QED BY <4>3 DEF all
    <3>7. ASSUME NEW w \in {w1, w2}
          PROVE  LET r == GetLogResp_Parse(w) IN
                 r.ok /\ r.msg.fd = Int32Of(fd) /\ r.msg.req_begin_time = Int32Of(time)
      BY <3>5, <3>6 DEF GetLogRespReads
    <3> HIDE DEF w1, w2
    <3>8. QED BY <3>1, <3>4, <3>7
  <2> HIDE DEF req, resp
  <2>4. Answers'
    BY <1>1, <2>1, <2>2, <2>3 DEF Answers, Answered, AllLegible, Carries, resp
  <2>5. LogsLegible'
    <3>1. << >> \in Seq(Seq(Byte)) /\ DOMAIN << >> = {}
      OBVIOUS
    <3>2. QED BY <2>1, <2>2, <3>1 DEF LogsLegible
  <2>6. RequestTyped' /\ PushedAsTyped'
    BY <2>2 DEF ConversationInv, RequestTyped, PushedAsTyped
  <2>7. QED BY <2>2, <2>4, <2>5, <2>6 DEF ConversationInv
<1>4. QED BY <1>2, <1>3

\* The server answers SET_CONF_REQ and tells the client.
LEMMA SetConfigKeeps ==
  ASSUME ConversationInv, SetConfig
  PROVE  ConversationInv'
<1> DEFINE req == CfgInfoReq_Parse(wire)
           cfg == req.msg
<1>1. stage = "asked" /\ asked.kind = "config" /\ Asked(req)
      /\ (req.ok => cfg.p1 \in Int32 /\ cfg.p2 = asked.p2 /\ cfg.p3 = asked.p3)
  BY DEF SetConfig, ConversationInv, Asks
<1>2. CASE ~req.ok
  BY <1>1, <1>2, DroppedKeeps DEF SetConfig, Asked
<1>3. CASE req.ok
  <2>1. /\ AllLegible /\ Carries(cfg) /\ asked.kind # "none" /\ LogsLegible
        /\ cfg.p1 \in Int /\ cfg.p2 \in Int64 /\ cfg.p3 \in Seq(Byte) /\ Utf8(cfg.p3)
        /\ cfg.p2 = asked.p2 /\ cfg.p3 = asked.p3
    BY <1>1, <1>3, NumbersBack DEF Asked, ConversationInv, RequestTyped, AllLegible
  <2> DEFINE fd == cfg.fd
             time == cfg.req_begin_time
             pushed == CfgInfoReq_Serialize(CfgInfoReq(Sid, cfg.p1, cfg.p2, cfg.p3))
             w1 == CfgInfoResp_Serialize(CfgInfoResp(0, << >>, fd, time))
             w2 == CfgInfoResp_Serialize(CfgInfoResp(ErrorCode, NotOk, fd, time))
  <2>2. /\ stage' = "answered" /\ asked' = asked /\ filter' = filter
        /\ logs' \in {<< >>, logs} /\ push' \in {<<pushed>>, << >>} /\ wire' \in {w1, w2}
    BY <1>3 DEF SetConfig
  <2> DEFINE resp == CfgInfoResp_Parse(wire')
  <2>3. resp.ok /\ resp.msg.fd = asked.fd /\ resp.msg.req_begin_time = Int32Of(asked.time)
    <3>1. fd \in Int /\ time \in Int
          /\ Int32Of(fd) = asked.fd /\ Int32Of(time) = Int32Of(asked.time)
      BY <2>1, CarriesOn
    <3>2. 0 \in Int /\ ErrorCode \in Int
      BY DEF ErrorCode
    <3> HIDE DEF req, cfg, fd, time
    <3>3. CfgInfoRespReads(0, << >>, fd, time)
      <4> DEFINE none == << >>
      <4>1. none \in Seq(Byte)
        OBVIOUS
      <4> HIDE DEF none
      <4>2. CfgInfoRespReads(0, none, fd, time)
        BY <3>1, <3>2, <4>1, CfgInfoRespSent
      <4>3. QED BY <4>2 DEF none
    <3>4. CfgInfoRespReads(ErrorCode, NotOk, fd, time)
      BY <3>1, <3>2, ConstantsRead, CfgInfoRespSent
    <3>5. ASSUME NEW w \in {w1, w2}
          PROVE  LET r == CfgInfoResp_Parse(w) IN
                 r.ok /\ r.msg.fd = Int32Of(fd) /\ r.msg.req_begin_time = Int32Of(time)
      BY <3>3, <3>4, ConstantsRead DEF CfgInfoRespReads
    <3> HIDE DEF w1, w2
    <3>6. QED BY <2>2, <3>1, <3>5
  <2>4. LET r == CfgInfoReq_Parse(pushed) IN
        r.ok /\ r.msg.session_id = Sid /\ r.msg.p2 = asked.p2 /\ r.msg.p3 = asked.p3
    <3> HIDE DEF req, cfg
    <3>1. CfgInfoReqReads(Sid, cfg.p1, cfg.p2, cfg.p3)
      BY <2>1, ConstantsRead, CfgInfoReqSent
    <3>2. QED BY <2>1, <3>1, ConstantsRead DEF CfgInfoReqReads
  <2> HIDE DEF req, cfg, resp, pushed, w1, w2
  <2>5. Answers'
    BY <1>1, <2>1, <2>2, <2>3 DEF Answers, Answered, AllLegible, Carries, resp
  <2>6. LogsLegible'
    <3>1. << >> \in Seq(Seq(Byte)) /\ DOMAIN << >> = {}
      OBVIOUS
    <3>2. QED BY <2>1, <2>2, <3>1 DEF LogsLegible
  <2>7. RequestTyped'
    BY <2>2 DEF ConversationInv, RequestTyped
  <2>8. PushedAsTyped'
    <3>1. CASE push' = << >>
      BY <3>1 DEF PushedAsTyped
    <3>2. CASE push' = <<pushed>>
      <4>1. Head(push') = pushed /\ Tail(push') = << >>
        BY <3>2
      <4>2. QED BY <1>1, <2>2, <2>4, <4>1 DEF PushedAsTyped
    <3>3. QED BY <2>2, <3>1, <3>2
  <2>9. QED BY <2>2, <2>5, <2>6, <2>7, <2>8 DEF ConversationInv
<1>4. QED BY <1>2, <1>3

\* The gateway finds the connection of an answer exactly when the request's
\* time fits the field that carried it.
LEMMA ReadingKeeps ==
  ASSUME ConversationInv, NEW kind, NEW resp, Reading(kind, resp), asked.kind = kind,
         stage = "answered" => Answered(resp)
  PROVE  ConversationInv'
<1>1. /\ stage = "answered" /\ Answers /\ Answered(resp) /\ RequestTyped
      /\ asked' = asked /\ wire' = wire /\ push' = push /\ logs' = logs /\ filter' = filter
  BY DEF Reading, ConversationInv
<1>2. resp.ok /\ AllLegible /\ asked.time \in Nat
      /\ resp.msg.fd = asked.fd /\ resp.msg.req_begin_time = Int32Of(asked.time)
  BY <1>1 DEF Answers, Answered, Carries, RequestTyped
<1>3. CheckConn(resp.msg) <=> asked.time < Half32
  BY <1>2, Int32Keeps DEF CheckConn
<1>4. stage' = IF asked.time < Half32 THEN "shown" ELSE "mismatch"
  BY <1>2, <1>3 DEF Reading
<1>5. Ended'
  BY <1>1, <1>2, <1>4 DEF Ended, AllLegible
<1>6. LogsLegible' /\ RequestTyped' /\ PushedAsTyped'
  BY <1>1 DEF ConversationInv, LogsLegible, RequestTyped, PushedAsTyped
<1>7. QED BY <1>1, <1>4, <1>5, <1>6 DEF ConversationInv

\* No log makes an answer unreadable: a log is stored only if it is UTF-8.
LEMMA SaveLogKeeps ==
  ASSUME ConversationInv, SaveLog
  PROVE  ConversationInv'
<1> DEFINE req == LogInfo_Parse(wire)
           line == Line(req.msg)
<1>1. /\ stage = "uploaded" /\ stage' = "idle" /\ wire \in Seq(Token) /\ LogsLegible
      /\ asked' = asked /\ push' = push /\ filter' = filter
      /\ logs' = logs \/ (req.ok /\ logs' = Append(logs, line))
  BY DEF SaveLog, ConversationInv
<1>2. req.ok => line \in Seq(Byte) /\ Utf8(line)
  BY <1>1, LineLegible
<1> HIDE DEF req, line
<1>3. LogsLegible'
  <2>1. CASE logs' = logs
    BY <1>1, <2>1 DEF LogsLegible
  <2>2. CASE req.ok /\ logs' = Append(logs, line)
    <3>1. logs \in Seq(Seq(Byte)) /\ line \in Seq(Byte) /\ DOMAIN logs = 1 .. Len(logs)
      BY <1>1, <1>2, <2>2 DEF LogsLegible
    <3>2. /\ logs' \in Seq(Seq(Byte)) /\ DOMAIN logs' = 1 .. Len(logs) + 1
          /\ \A k \in 1 .. Len(logs) + 1 :
               logs'[k] = IF k = Len(logs) + 1 THEN line ELSE logs[k]
      BY <2>2, <3>1
    <3>3. ASSUME NEW k \in DOMAIN logs' PROVE Utf8(logs'[k])
      <4>1. CASE k = Len(logs) + 1
        BY <1>2, <2>2, <3>2, <4>1
      <4>2. CASE k # Len(logs) + 1
        <5>1. k \in DOMAIN logs /\ logs'[k] = logs[k]
          BY <3>1, <3>2, <4>2
        <5>2. QED BY <1>1, <5>1 DEF LogsLegible
      <4>3. QED BY <4>1, <4>2
    <3>4. QED BY <3>2, <3>3 DEF LogsLegible
  <2>3. QED BY <1>1, <2>1, <2>2
<1>4. RequestTyped' /\ PushedAsTyped'
  BY <1>1 DEF ConversationInv, RequestTyped, PushedAsTyped
<1>5. QED BY <1>1, <1>3, <1>4 DEF ConversationInv

\* The client uploads and the server stores.
LEMMA UploadLogKeeps ==
  ASSUME ConversationInv, NEW text \in LoggedText, UploadLog(text)
  PROVE  ConversationInv'
<1>1. /\ stage' = "uploaded" /\ asked' = asked /\ push' = push /\ logs' = logs /\ filter' = filter
      /\ wire' = LogInfo_Serialize(LogInfo(Gns, IpPort, filter.session_id, Content(text)))
  BY DEF UploadLog
<1>2. filter.session_id \in Seq(Byte) /\ text \in Seq(Byte)
  BY ConversationAssumption DEF ConversationInv
<1>3. wire' \in Seq(Token)
  BY <1>1, <1>2, LogInfoSent
<1>4. LogsLegible' /\ RequestTyped' /\ PushedAsTyped'
  BY <1>1 DEF ConversationInv, LogsLegible, RequestTyped, PushedAsTyped
<1>5. QED BY <1>1, <1>2, <1>3, <1>4 DEF ConversationInv

\* The client's filter is what the browser typed.
LEMMA setConfigKeeps ==
  ASSUME ConversationInv, setConfig
  PROVE  /\ ConversationInv'
         /\ filter' # filter =>
              filter' = [session_id |-> Sid, p1 |-> SetId, p2 |-> asked.p2, p3 |-> asked.p3]
<1> DEFINE req == CfgInfoReq_Parse(Head(push))
<1>1. /\ push # << >> /\ push' = Tail(push) /\ stage' = stage /\ asked' = asked
      /\ wire' = wire /\ logs' = logs
      /\ filter' = IF req.ok /\ req.msg.p1 = SetId THEN Saved(req.msg) ELSE filter
  BY DEF setConfig
<1>2. /\ Tail(push) = << >> /\ req.msg.session_id = Sid
      /\ req.msg.p2 = asked.p2 /\ req.msg.p3 = asked.p3
  BY <1>1 DEF ConversationInv, PushedAsTyped
<1> HIDE DEF req
<1>3. filter' # filter =>
        filter' = [session_id |-> Sid, p1 |-> SetId, p2 |-> asked.p2, p3 |-> asked.p3]
  BY <1>1, <1>2 DEF Saved
<1>4. filter'.session_id \in Seq(Byte)
  BY <1>3, ConstantsRead DEF ConversationInv
<1>5. LogsLegible' /\ RequestTyped' /\ PushedAsTyped'
  BY <1>1, <1>2 DEF ConversationInv, LogsLegible, RequestTyped, PushedAsTyped
<1>6. (stage = "asked" => Asks') /\ (stage = "answered" => Answers') /\ (Ended => Ended')
      /\ (AllLegible <=> AllLegible')
  BY <1>1 DEF ConversationInv, Asks, Answers, Ended, Asked, Answered, Carries, AllLegible
<1>7. QED BY <1>1, <1>3, <1>4, <1>5, <1>6 DEF ConversationInv

\* The next request begins.
LEMMA NextRequestKeeps ==
  ASSUME ConversationInv, NextRequest
  PROVE  ConversationInv'
BY DEF ConversationInv, NextRequest, LogsLegible, RequestTyped, PushedAsTyped

\* A stutter keeps the invariant.
LEMMA ConversationStays ==
  ASSUME ConversationInv, UNCHANGED conversation
  PROVE  ConversationInv'
<1>1. /\ stage' = stage /\ asked' = asked /\ wire' = wire /\ push' = push /\ logs' = logs
      /\ filter' = filter
  BY DEF conversation
<1>2. LogsLegible' /\ RequestTyped' /\ PushedAsTyped'
  BY <1>1 DEF ConversationInv, LogsLegible, RequestTyped, PushedAsTyped
<1>3. (Asks => Asks') /\ (Answers => Answers') /\ (Ended => Ended') /\ (AllLegible <=> AllLegible')
  BY <1>1 DEF Asks, Answers, Ended, Asked, Answered, Carries, AllLegible
<1>4. QED BY <1>1, <1>2, <1>3 DEF ConversationInv

\* One step of the conversation, and what it does to the client's filter.
LEMMA ConversationStep ==
  ASSUME ConversationInv, [ConversationNext]_conversation
  PROVE  /\ ConversationInv'
         /\ filter' # filter =>
              filter' = [session_id |-> Sid, p1 |-> SetId, p2 |-> asked.p2, p3 |-> asked.p3]
<1>1. CASE Ask
  <2>1. PICK fd \in ConnFd, time \in Time, text \in FormText :
          \/ LoginReq_Sent(text, fd, time)
          \/ \E session \in FormText, p1, p2 \in Number :
               SetConfig_Sent(session, p1, p2, text, fd, time)
          \/ \E seq \in Number : GetLog_Sent(text, seq, fd, time)
    BY <1>1 DEF Ask
  <2>2. /\ fd \in Int32 /\ time \in Nat /\ text \in Seq(Byte)
        /\ \A n \in Number : n \in Int64 /\ n \in Int
        /\ \A t \in FormText : t \in Seq(Byte)
    BY ConversationAssumption, NumbersBack
  <2>3. CASE LoginReq_Sent(text, fd, time)
    BY <2>2, <2>3, LoginReq_SentKeeps DEF LoginReq_Sent, Asking
  <2>4. CASE \E session \in FormText, p1, p2 \in Number :
               SetConfig_Sent(session, p1, p2, text, fd, time)
    BY <2>2, <2>4, SetConfig_SentKeeps DEF SetConfig_Sent, Asking
  <2>5. CASE \E seq \in Number : GetLog_Sent(text, seq, fd, time)
    BY <2>2, <2>5, GetLog_SentKeeps DEF GetLog_Sent, Asking
  <2>6. QED BY <2>1, <2>3, <2>4, <2>5
<1>2. CASE LoginLogic
  BY <1>2, LoginLogicKeeps DEF LoginLogic, Dropped
<1>3. CASE SetConfig
  BY <1>3, SetConfigKeeps DEF SetConfig, Dropped
<1>4. CASE GetLog
  BY <1>4, GetLogKeeps DEF GetLog, Dropped
<1>5. CASE LoginResp_Read
  <2>1. Reading("login", LoginResp_Parse(wire)) /\ asked.kind = "login" /\ filter' = filter
    BY <1>5 DEF LoginResp_Read, Reading
  <2>2. stage = "answered" => Answered(LoginResp_Parse(wire))
    BY <2>1 DEF ConversationInv, Answers
  <2>3. QED BY <2>1, <2>2, ReadingKeeps
<1>6. CASE SetConfigResp_Read
  <2>1. Reading("config", CfgInfoResp_Parse(wire)) /\ asked.kind = "config" /\ filter' = filter
    BY <1>6 DEF SetConfigResp_Read, Reading
  <2>2. stage = "answered" => Answered(CfgInfoResp_Parse(wire))
    BY <2>1 DEF ConversationInv, Answers
  <2>3. QED BY <2>1, <2>2, ReadingKeeps
<1>7. CASE GetLogResp_Read
  <2>1. Reading("fetch", GetLogResp_Parse(wire)) /\ asked.kind = "fetch" /\ filter' = filter
    BY <1>7 DEF GetLogResp_Read, Reading
  <2>2. stage = "answered" => Answered(GetLogResp_Parse(wire))
    BY <2>1 DEF ConversationInv, Answers
  <2>3. QED BY <2>1, <2>2, ReadingKeeps
<1>8. CASE NextRequest
  BY <1>8, NextRequestKeeps DEF NextRequest
<1>9. CASE setConfig
  BY <1>9, setConfigKeeps
<1>10. CASE SaveLog
  BY <1>10, SaveLogKeeps DEF SaveLog
<1>11. CASE \E text \in LoggedText : UploadLog(text)
  BY <1>11, UploadLogKeeps DEF UploadLog
<1>12. CASE UNCHANGED conversation
  BY <1>12, ConversationStays DEF conversation
<1>13. QED
  BY <1>1, <1>2, <1>3, <1>4, <1>5, <1>6, <1>7, <1>8, <1>9, <1>10, <1>11, <1>12
  DEF ConversationNext

\* Every state of a conversation has the invariant.
THEOREM ConversationKept == ConversationSpec => []ConversationInv
<1>1. ConversationInv /\ [ConversationNext]_conversation => ConversationInv'
  BY ConversationStep
<1>2. QED BY <1>1, ConversationStart, PTL DEF ConversationSpec

\* Only a request with a text that is not UTF-8 stays without an answer, and
\* no log makes the gateway refuse an answer: OnlyMalformedIsLost, for every
\* text a form or a log can have.
THEOREM OnlyMalformed == ConversationSpec => []OnlyMalformedIsLost
<1>1. ConversationInv => OnlyMalformedIsLost
  BY DEF ConversationInv, OnlyMalformedIsLost, AllLegible, Answers, Ended
<1>2. QED BY <1>1, ConversationKept, PTL

\* An answer finds its connection exactly when the request's time_t fits an
\* int32: AnswersComeHome, for every time and every descriptor.
THEOREM AnswersHome == ConversationSpec => []AnswersComeHome
<1>1. ConversationInv => AnswersComeHome
  BY DEF ConversationInv, AnswersComeHome, Ended
<1>2. QED BY <1>1, ConversationKept, PTL

\* The filter the client works with is the one typed into the form:
\* FilterAsTyped, through both messages, for every long and every text.
THEOREM FilterTyped == ConversationSpec => FilterAsTyped
<1>1. ConversationInv /\ [ConversationNext]_conversation
        => [filter' # filter => filter' = [session_id |-> Sid, p1 |-> SetId,
                                           p2 |-> asked.p2, p3 |-> asked.p3]]_conversation
  BY ConversationStep
<1>2. QED BY <1>1, ConversationKept, PTL DEF ConversationSpec, FilterAsTyped
=============================================================================
