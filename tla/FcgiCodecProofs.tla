--------------------------- MODULE FcgiCodecProofs ---------------------------
(***************************************************************************)
(* The codec of a connection between nginx and the gateway, for every      *)
(* form, every page, every alphabet and radix, every size of buffer and    *)
(* every way to cut the streams: what the browser typed is what the server *)
(* is asked, and the page comes out whole.                                 *)
(*                                                                         *)
(* First the form: what a browser encodes is decoded to what was typed.    *)
(* Then muduo's Buffer, which is a stream of bytes whatever its vector     *)
(* looks like.  The gateway never makes append move the bytes to the front *)
(* of the vector, so that FcgiCodec's run does not reach that branch of    *)
(* makeSpace; here it is covered with the others.  Then the lengths and    *)
(* the parameters, the page, and the invariant of the connection.          *)
(***************************************************************************)
EXTENDS FcgiCodec, Folding

----------------------------------------------------------------------------
(* The folds of CgiForm *)

\* Encoded, one character after the other.
EncodedRuns(s, S) ==
  \E f : /\ f \in [0 .. Len(s) -> S] /\ f[0] = << >>
         /\ \A k \in 1 .. Len(s) : f[k] = f[k - 1] \o Escaped(s[k])
         /\ Encoded(s) = f[Len(s)]

LEMMA EncodedSteps ==
  ASSUME NEW C, NEW s \in Seq(C), NEW S, << >> \in S
  PROVE  (\A k \in 1 .. Len(s) : \A x \in S : x \o Escaped(s[k]) \in S) => EncodedRuns(s, S)
<1>0. SUFFICES ASSUME \A k \in 1 .. Len(s) : \A x \in S : x \o Escaped(s[k]) \in S
      PROVE  EncodedRuns(s, S)
  OBVIOUS
<1> DEFINE n == Len(s)
           base == << >>
           step == [p \in (1 .. n) \X S |-> p[2] \o Escaped(s[p[1]])]
           turn(f, t) == IF t = {} THEN base
                         ELSE f[t \ {Max(t)}] \o Escaped(s[Max(t)])
           iter == CHOOSE iter : iter = [t \in SUBSET DOMAIN s |-> turn(iter, t)]
<1>1. DOMAIN s = 1 .. n /\ n \in Nat
  OBVIOUS
<1>a. Encoded(s) = iter[DOMAIN s]
  BY DEF Encoded, FoldLeft, MapThenFoldSet
<1>2. step \in [(1 .. n) \X S -> S] /\ base \in S
  BY <1>0
<1> HIDE DEF n, base
<1>3. \E h : h = [t \in SUBSET (1 .. n) |-> turn(h, t)]
  <2>1. PICK h : Folded(S, base, n, step, h)
    <3> HIDE DEF step
    <3>1. QED BY <1>1, <1>2, FoldIs
  <2> DEFINE g == [t \in SUBSET (1 .. n) |-> h[t]]
  <2>2. ASSUME NEW t \in SUBSET (1 .. n) PROVE g[t] = turn(g, t)
    BY <2>1 DEF Folded
  <2>3. g = [t \in SUBSET (1 .. n) |-> turn(g, t)]
    <3>1. g = [t \in SUBSET (1 .. n) |-> g[t]]
      OBVIOUS
    <3> HIDE DEF turn, g
    <3>2. QED BY <2>2, <3>1
  <2>4. QED BY <2>3
<1>4. iter = [t \in SUBSET (1 .. n) |-> turn(iter, t)]
  BY <1>1, <1>3
<1>5. \A t \in SUBSET (1 .. n) : iter[t] = turn(iter, t)
  <2> HIDE DEF turn, iter
  <2>1. QED BY <1>4
<1> HIDE DEF iter
<1>6. Iterates(iter, S, base, n, step)
  <2>1. iter[{}] = base
    BY <1>5
  <2>2. ASSUME NEW t \in SUBSET (1 .. n), t # {}, iter[t \ {Max(t)}] \in S
        PROVE  iter[t] = step[<<Max(t), iter[t \ {Max(t)}]>>]
    <3>1. Max(t) \in 1 .. n
      BY <1>1, <2>2, LastIn
    <3>2. QED BY <1>5, <2>2, <3>1
  <2>3. QED BY <2>1, <2>2 DEF Iterates
<1>7. PICK f : Trace(f, S, base, n, step) /\ iter[1 .. n] = f[n]
  <2> HIDE DEF step
  <2>1. HasTrace(iter, S, base, n, step)
    BY <1>1, <1>2, <1>6, TraceOf
  <2>2. QED BY <2>1 DEF HasTrace
<1>8. ASSUME NEW k \in 1 .. n PROVE f[k] = f[k - 1] \o Escaped(s[k])
  <2>1. k - 1 \in 0 .. n
    BY <1>1
  <2>2. <<k, f[k - 1]>> \in (1 .. n) \X S
    BY <1>7, <2>1 DEF Trace
  <2>3. QED BY <1>7, <2>2 DEF Trace
<1>9. QED BY <1>1, <1>a, <1>7, <1>8 DEF EncodedRuns, Trace, n, base

\* form_urldecode from a state on.
DecodedAll(text, b, s) == FoldLeft(LAMBDA done, k : Decoded(text, done, k), b, s)

\* form_urldecode, one character after the other.
DecodedRuns(text, s, b, S) ==
  \E f : /\ f \in [0 .. Len(s) -> S] /\ f[0] = b
         /\ \A k \in 1 .. Len(s) : f[k] = Decoded(text, f[k - 1], s[k])
         /\ DecodedAll(text, b, s) = f[Len(s)]

LEMMA DecodedSteps ==
  ASSUME NEW text, NEW C, NEW s \in Seq(C), NEW b, NEW S, b \in S
  PROVE  (\A k \in 1 .. Len(s) : \A x \in S : Decoded(text, x, s[k]) \in S) => DecodedRuns(text, s, b, S)
<1>0. SUFFICES ASSUME \A k \in 1 .. Len(s) : \A x \in S : Decoded(text, x, s[k]) \in S
      PROVE  DecodedRuns(text, s, b, S)
  OBVIOUS
<1> DEFINE n == Len(s)
           base == b
           step == [p \in (1 .. n) \X S |-> Decoded(text, p[2], s[p[1]])]
           turn(f, t) == IF t = {} THEN base
                         ELSE Decoded(text, f[t \ {Max(t)}], s[Max(t)])
           iter == CHOOSE iter : iter = [t \in SUBSET DOMAIN s |-> turn(iter, t)]
<1>1. DOMAIN s = 1 .. n /\ n \in Nat
  OBVIOUS
<1>a. DecodedAll(text, b, s) = iter[DOMAIN s]
  BY DEF DecodedAll, FoldLeft, MapThenFoldSet
<1>2. step \in [(1 .. n) \X S -> S] /\ base \in S
  BY <1>0
<1> HIDE DEF n, base
<1>3. \E h : h = [t \in SUBSET (1 .. n) |-> turn(h, t)]
  <2>1. PICK h : Folded(S, base, n, step, h)
    <3> HIDE DEF step
    <3>1. QED BY <1>1, <1>2, FoldIs
  <2> DEFINE g == [t \in SUBSET (1 .. n) |-> h[t]]
  <2>2. ASSUME NEW t \in SUBSET (1 .. n) PROVE g[t] = turn(g, t)
    BY <2>1 DEF Folded
  <2>3. g = [t \in SUBSET (1 .. n) |-> turn(g, t)]
    <3>1. g = [t \in SUBSET (1 .. n) |-> g[t]]
      OBVIOUS
    <3> HIDE DEF turn, g
    <3>2. QED BY <2>2, <3>1
  <2>4. QED BY <2>3
<1>4. iter = [t \in SUBSET (1 .. n) |-> turn(iter, t)]
  BY <1>1, <1>3
<1>5. \A t \in SUBSET (1 .. n) : iter[t] = turn(iter, t)
  <2> HIDE DEF turn, iter
  <2>1. QED BY <1>4
<1> HIDE DEF iter
<1>6. Iterates(iter, S, base, n, step)
  <2>1. iter[{}] = base
    BY <1>5
  <2>2. ASSUME NEW t \in SUBSET (1 .. n), t # {}, iter[t \ {Max(t)}] \in S
        PROVE  iter[t] = step[<<Max(t), iter[t \ {Max(t)}]>>]
    <3>1. Max(t) \in 1 .. n
      BY <1>1, <2>2, LastIn
    <3>2. QED BY <1>5, <2>2, <3>1
  <2>3. QED BY <2>1, <2>2 DEF Iterates
<1>7. PICK f : Trace(f, S, base, n, step) /\ iter[1 .. n] = f[n]
  <2> HIDE DEF step
  <2>1. HasTrace(iter, S, base, n, step)
    BY <1>1, <1>2, <1>6, TraceOf
  <2>2. QED BY <2>1 DEF HasTrace
<1>8. ASSUME NEW k \in 1 .. n PROVE f[k] = Decoded(text, f[k - 1], s[k])
  <2>1. k - 1 \in 0 .. n
    BY <1>1
  <2>2. <<k, f[k - 1]>> \in (1 .. n) \X S
    BY <1>7, <2>1 DEF Trace
  <2>3. QED BY <1>7, <2>2 DEF Trace
<1>9. QED BY <1>1, <1>a, <1>7, <1>8 DEF DecodedRuns, Trace, n, base

WithPair(out, p) ==
  out \o (IF out = << >> THEN << >> ELSE <<Ampersand>>)
      \o Encoded(p[1]) \o <<Equals>> \o Encoded(p[2])

\* FormData, one pair after the other.
FormRuns(s, S) ==
  \E f : /\ f \in [0 .. Len(s) -> S] /\ f[0] = << >>
         /\ \A k \in 1 .. Len(s) : f[k] = WithPair(f[k - 1], s[k])
         /\ FormData(s) = f[Len(s)]

LEMMA FormSteps ==
  ASSUME NEW C, NEW s \in Seq(C), NEW S, << >> \in S
  PROVE  (\A k \in 1 .. Len(s) : \A x \in S : WithPair(x, s[k]) \in S) => FormRuns(s, S)
<1>0. SUFFICES ASSUME \A k \in 1 .. Len(s) : \A x \in S : WithPair(x, s[k]) \in S
      PROVE  FormRuns(s, S)
  OBVIOUS
<1> DEFINE n == Len(s)
           base == << >>
           step == [p \in (1 .. n) \X S |-> WithPair(p[2], s[p[1]])]
           turn(f, t) == IF t = {} THEN base
                         ELSE WithPair(f[t \ {Max(t)}], s[Max(t)])
           iter == CHOOSE iter : iter = [t \in SUBSET DOMAIN s |-> turn(iter, t)]
<1>1. DOMAIN s = 1 .. n /\ n \in Nat
  OBVIOUS
<1>a. FormData(s) = iter[DOMAIN s]
  BY DEF FormData, WithPair, FoldLeft, MapThenFoldSet
<1>2. step \in [(1 .. n) \X S -> S] /\ base \in S
  BY <1>0
<1> HIDE DEF n, base
<1>3. \E h : h = [t \in SUBSET (1 .. n) |-> turn(h, t)]
  <2>1. PICK h : Folded(S, base, n, step, h)
    <3> HIDE DEF step
    <3>1. QED BY <1>1, <1>2, FoldIs
  <2> DEFINE g == [t \in SUBSET (1 .. n) |-> h[t]]
  <2>2. ASSUME NEW t \in SUBSET (1 .. n) PROVE g[t] = turn(g, t)
    BY <2>1 DEF Folded
  <2>3. g = [t \in SUBSET (1 .. n) |-> turn(g, t)]
    <3>1. g = [t \in SUBSET (1 .. n) |-> g[t]]
      OBVIOUS
    <3> HIDE DEF turn, g
    <3>2. QED BY <2>2, <3>1
  <2>4. QED BY <2>3
<1>4. iter = [t \in SUBSET (1 .. n) |-> turn(iter, t)]
  BY <1>1, <1>3
<1>5. \A t \in SUBSET (1 .. n) : iter[t] = turn(iter, t)
  <2> HIDE DEF turn, iter
  <2>1. QED BY <1>4
<1> HIDE DEF iter
<1>6. Iterates(iter, S, base, n, step)
  <2>1. iter[{}] = base
    BY <1>5
  <2>2. ASSUME NEW t \in SUBSET (1 .. n), t # {}, iter[t \ {Max(t)}] \in S
        PROVE  iter[t] = step[<<Max(t), iter[t \ {Max(t)}]>>]
    <3>1. Max(t) \in 1 .. n
      BY <1>1, <2>2, LastIn
    <3>2. QED BY <1>5, <2>2, <3>1
  <2>3. QED BY <2>1, <2>2 DEF Iterates
<1>7. PICK f : Trace(f, S, base, n, step) /\ iter[1 .. n] = f[n]
  <2> HIDE DEF step
  <2>1. HasTrace(iter, S, base, n, step)
    BY <1>1, <1>2, <1>6, TraceOf
  <2>2. QED BY <2>1 DEF HasTrace
<1>8. ASSUME NEW k \in 1 .. n PROVE f[k] = WithPair(f[k - 1], s[k])
  <2>1. k - 1 \in 0 .. n
    BY <1>1
  <2>2. <<k, f[k - 1]>> \in (1 .. n) \X S
    BY <1>7, <2>1 DEF Trace
  <2>3. QED BY <1>7, <2>2 DEF Trace
<1>9. QED BY <1>1, <1>a, <1>7, <1>8 DEF FormRuns, Trace, n, base

\* parseFormInput from a state on.
TakenAll(b, s) == FoldLeft(LAMBDA form, k : TakePair(form), b, s)

\* parseFormInput, one turn after the other.
TakenRuns(b, s, S) ==
  \E f : /\ f \in [0 .. Len(s) -> S] /\ f[0] = b
         /\ \A k \in 1 .. Len(s) : f[k] = TakePair(f[k - 1])
         /\ TakenAll(b, s) = f[Len(s)]

LEMMA TakenSteps ==
  ASSUME NEW C, NEW s \in Seq(C), NEW b, NEW S, b \in S
  PROVE  (\A k \in 1 .. Len(s) : \A x \in S : TakePair(x) \in S) => TakenRuns(b, s, S)
<1>0. SUFFICES ASSUME \A k \in 1 .. Len(s) : \A x \in S : TakePair(x) \in S
      PROVE  TakenRuns(b, s, S)
  OBVIOUS
<1> DEFINE n == Len(s)
           base == b
           step == [p \in (1 .. n) \X S |-> TakePair(p[2])]
           turn(f, t) == IF t = {} THEN base
                         ELSE TakePair(f[t \ {Max(t)}])
           iter == CHOOSE iter : iter = [t \in SUBSET DOMAIN s |-> turn(iter, t)]
<1>1. DOMAIN s = 1 .. n /\ n \in Nat
  OBVIOUS
<1>a. TakenAll(b, s) = iter[DOMAIN s]
  BY DEF TakenAll, FoldLeft, MapThenFoldSet
<1>2. step \in [(1 .. n) \X S -> S] /\ base \in S
  BY <1>0
<1> HIDE DEF n, base
<1>3. \E h : h = [t \in SUBSET (1 .. n) |-> turn(h, t)]
  <2>1. PICK h : Folded(S, base, n, step, h)
    <3> HIDE DEF step
    <3>1. QED BY <1>1, <1>2, FoldIs
  <2> DEFINE g == [t \in SUBSET (1 .. n) |-> h[t]]
  <2>2. ASSUME NEW t \in SUBSET (1 .. n) PROVE g[t] = turn(g, t)
    BY <2>1 DEF Folded
  <2>3. g = [t \in SUBSET (1 .. n) |-> turn(g, t)]
    <3>1. g = [t \in SUBSET (1 .. n) |-> g[t]]
      OBVIOUS
    <3> HIDE DEF turn, g
    <3>2. QED BY <2>2, <3>1
  <2>4. QED BY <2>3
<1>4. iter = [t \in SUBSET (1 .. n) |-> turn(iter, t)]
  BY <1>1, <1>3
<1>5. \A t \in SUBSET (1 .. n) : iter[t] = turn(iter, t)
  <2> HIDE DEF turn, iter
  <2>1. QED BY <1>4
<1> HIDE DEF iter
<1>6. Iterates(iter, S, base, n, step)
  <2>1. iter[{}] = base
    BY <1>5
  <2>2. ASSUME NEW t \in SUBSET (1 .. n), t # {}, iter[t \ {Max(t)}] \in S
        PROVE  iter[t] = step[<<Max(t), iter[t \ {Max(t)}]>>]
    <3>1. Max(t) \in 1 .. n
      BY <1>1, <2>2, LastIn
    <3>2. QED BY <1>5, <2>2, <3>1
  <2>3. QED BY <2>1, <2>2 DEF Iterates
<1>7. PICK f : Trace(f, S, base, n, step) /\ iter[1 .. n] = f[n]
  <2> HIDE DEF step
  <2>1. HasTrace(iter, S, base, n, step)
    BY <1>1, <1>2, <1>6, TraceOf
  <2>2. QED BY <2>1 DEF HasTrace
<1>8. ASSUME NEW k \in 1 .. n PROVE f[k] = TakePair(f[k - 1])
  <2>1. k - 1 \in 0 .. n
    BY <1>1
  <2>2. <<k, f[k - 1]>> \in (1 .. n) \X S
    BY <1>7, <2>1 DEF Trace
  <2>3. QED BY <1>7, <2>2 DEF Trace
<1>9. QED BY <1>1, <1>a, <1>7, <1>8 DEF TakenRuns, Trace, n, base

InsertPair(map, e) == Insert(map, to_lower(e[1]), e[2])

\* The insertions of qmap into a map.
InsertedAll(b, s) == FoldLeft(LAMBDA map, e : Insert(map, to_lower(e[1]), e[2]), b, s)

\* The insertions of qmap, one after the other.
InsertedRuns(b, s, S) ==
  \E f : /\ f \in [0 .. Len(s) -> S] /\ f[0] = b
         /\ \A k \in 1 .. Len(s) : f[k] = InsertPair(f[k - 1], s[k])
         /\ InsertedAll(b, s) = f[Len(s)]

LEMMA InsertedSteps ==
  ASSUME NEW C, NEW s \in Seq(C), NEW b, NEW S, b \in S
  PROVE  (\A k \in 1 .. Len(s) : \A x \in S : InsertPair(x, s[k]) \in S) => InsertedRuns(b, s, S)
<1>0. SUFFICES ASSUME \A k \in 1 .. Len(s) : \A x \in S : InsertPair(x, s[k]) \in S
      PROVE  InsertedRuns(b, s, S)
  OBVIOUS
<1> DEFINE n == Len(s)
           base == b
           step == [p \in (1 .. n) \X S |-> InsertPair(p[2], s[p[1]])]
           turn(f, t) == IF t = {} THEN base
                         ELSE InsertPair(f[t \ {Max(t)}], s[Max(t)])
           iter == CHOOSE iter : iter = [t \in SUBSET DOMAIN s |-> turn(iter, t)]
<1>1. DOMAIN s = 1 .. n /\ n \in Nat
  OBVIOUS
<1>a. InsertedAll(b, s) = iter[DOMAIN s]
  BY DEF InsertedAll, InsertPair, FoldLeft, MapThenFoldSet
<1>2. step \in [(1 .. n) \X S -> S] /\ base \in S
  BY <1>0
<1> HIDE DEF n, base
<1>3. \E h : h = [t \in SUBSET (1 .. n) |-> turn(h, t)]
  <2>1. PICK h : Folded(S, base, n, step, h)
    <3> HIDE DEF step
    <3>1. QED BY <1>1, <1>2, FoldIs
  <2> DEFINE g == [t \in SUBSET (1 .. n) |-> h[t]]
  <2>2. ASSUME NEW t \in SUBSET (1 .. n) PROVE g[t] = turn(g, t)
    BY <2>1 DEF Folded
  <2>3. g = [t \in SUBSET (1 .. n) |-> turn(g, t)]
    <3>1. g = [t \in SUBSET (1 .. n) |-> g[t]]
      OBVIOUS
    <3> HIDE DEF turn, g
    <3>2. QED BY <2>2, <3>1
  <2>4. QED BY <2>3
<1>4. iter = [t \in SUBSET (1 .. n) |-> turn(iter, t)]
  BY <1>1, <1>3
<1>5. \A t \in SUBSET (1 .. n) : iter[t] = turn(iter, t)
  <2> HIDE DEF turn, iter
  <2>1. QED BY <1>4
<1> HIDE DEF iter
<1>6. Iterates(iter, S, base, n, step)
  <2>1. iter[{}] = base
    BY <1>5
  <2>2. ASSUME NEW t \in SUBSET (1 .. n), t # {}, iter[t \ {Max(t)}] \in S
        PROVE  iter[t] = step[<<Max(t), iter[t \ {Max(t)}]>>]
    <3>1. Max(t) \in 1 .. n
      BY <1>1, <2>2, LastIn
    <3>2. QED BY <1>5, <2>2, <3>1
  <2>3. QED BY <2>1, <2>2 DEF Iterates
<1>7. PICK f : Trace(f, S, base, n, step) /\ iter[1 .. n] = f[n]
  <2> HIDE DEF step
  <2>1. HasTrace(iter, S, base, n, step)
    BY <1>1, <1>2, <1>6, TraceOf
  <2>2. QED BY <2>1 DEF HasTrace
<1>8. ASSUME NEW k \in 1 .. n PROVE f[k] = InsertPair(f[k - 1], s[k])
  <2>1. k - 1 \in 0 .. n
    BY <1>1
  <2>2. <<k, f[k - 1]>> \in (1 .. n) \X S
    BY <1>7, <2>1 DEF Trace
  <2>3. QED BY <1>7, <2>2 DEF Trace
<1>9. QED BY <1>1, <1>a, <1>7, <1>8 DEF InsertedRuns, Trace, n, base

\* f is joined of the blocks b.
Joins(E, n, f, b) ==
  /\ f \in [0 .. n -> Seq(E)] /\ b \in [1 .. n -> Seq(E)]
  /\ \A k \in 1 .. n : f[k] = f[k - 1] \o b[k]

Begins(a, c) == Len(a) <= Len(c) /\ \A i \in 1 .. Len(a) : c[i] = a[i]

\* The part b of c behind position o.
Behind(c, o, b) == \A i \in 1 .. Len(b) : c[o + i] = b[i]

\* What was joined stays at its place.
LEMMA JoinedStays ==
  ASSUME NEW E, NEW n \in Nat, NEW f, NEW b, Joins(E, n, f, b), NEW j \in 0 .. n
  PROVE  Begins(f[j], f[n])
<1>0. /\ f \in [0 .. n -> Seq(E)] /\ b \in [1 .. n -> Seq(E)]
      /\ \A k \in 1 .. n : f[k] = f[k - 1] \o b[k]
  BY DEF Joins
<1> DEFINE G == {y \in Seq(E) : Len(f[j]) <= Len(y) /\ \A i \in 1 .. Len(f[j]) : y[i] = f[j][i]}
           P == [k \in 0 .. n - j |-> G]
           g == [k \in 0 .. n - j |-> f[j + k]]
<1>1. n - j \in Nat /\ j + 0 = j /\ j + (n - j) = n
  OBVIOUS
<1>2. f[j] \in G
  BY <1>0
<1>3. ASSUME NEW y \in G, NEW z \in Seq(E) PROVE y \o z \in G
  <2>1. y \o z \in Seq(E) /\ Len(y \o z) = Len(y) + Len(z) /\ Len(z) \in Nat
    OBVIOUS
  <2>2. \A i \in 1 .. Len(y) : (y \o z)[i] = y[i]
    OBVIOUS
  <2>3. Len(f[j]) \in Nat /\ Len(y) \in Nat /\ Len(f[j]) <= Len(y)
    BY <1>0
  <2>4. \A i \in 1 .. Len(f[j]) : y[i] = f[j][i]
    OBVIOUS
  <2>5. \A i \in 1 .. Len(f[j]) : i \in 1 .. Len(y)
    BY <2>3
  <2> DEFINE w == y \o z
             m == Len(f[j])
  <2>6. Len(w) >= m /\ \A i \in 1 .. m : w[i] = f[j][i]
    BY <2>1, <2>2, <2>3, <2>4, <2>5
  <2> HIDE DEF w
  <2>7. w \in Seq(E) /\ Len(w) >= m /\ m \in Nat /\ Len(w) \in Nat
    BY <2>1, <2>3, <2>6 DEF w
  <2>8. w \in G
    BY <2>6, <2>7
  <2>9. QED BY <2>8 DEF w
<1>4. ASSUME NEW k \in 1 .. n - j, g[k - 1] \in P[k - 1] PROVE g[k] \in P[k]
  <2>1. k - 1 \in 0 .. n - j /\ k \in 0 .. n - j /\ j + k \in 1 .. n
        /\ j + (k - 1) = (j + k) - 1
    OBVIOUS
  <2>2. g[k] = f[j + k] /\ g[k - 1] = f[j + (k - 1)] /\ P[k] = G /\ P[k - 1] = G
    BY <2>1
  <2> HIDE DEF g, P, G
  <2>3. f[j + k] = f[(j + k) - 1] \o b[j + k] /\ b[j + k] \in Seq(E)
    BY <1>0, <2>1
  <2>4. QED BY <1>3, <1>4, <2>1, <2>2, <2>3
<1>5. g[0] \in P[0]
  BY <1>1, <1>2
<1>6. g[n - j] \in P[n - j]
  <2>1. n - j \in 0 .. n - j
    BY <1>1
  <2> HIDE DEF g, P
  <2>2. \A k \in 1 .. n - j : g[k - 1] \in P[k - 1] => g[k] \in P[k]
    BY <1>4
  <2> DEFINE m == n - j
  <2>3. m \in Nat /\ m \in 0 .. m /\ (\A k \in 1 .. m : g[k - 1] \in P[k - 1] => g[k] \in P[k])
    BY <1>1, <2>1, <2>2
  <2> HIDE DEF m
  <2>4. \A k \in 0 .. m : g[k] \in P[k]
    BY <2>3, <1>5, Reaches
  <2>5. QED BY <2>3, <2>4 DEF m
<1>7. f[n] \in G
  BY <1>1, <1>6
<1>8. QED BY <1>7 DEF Begins

\* Where a block is in the whole.
LEMMA BlockAt ==
  ASSUME NEW E, NEW n \in Nat, NEW f, NEW b, Joins(E, n, f, b), NEW j \in 1 .. n
  PROVE  /\ Len(f[j]) = Len(f[j - 1]) + Len(b[j]) /\ Len(f[j]) <= Len(f[n])
         /\ Behind(f[n], Len(f[j - 1]), b[j])
<1>1. j \in 0 .. n /\ j - 1 \in 0 .. n
  OBVIOUS
<1>2. f[j - 1] \in Seq(E) /\ b[j] \in Seq(E) /\ f[j] = f[j - 1] \o b[j]
  BY <1>1 DEF Joins
<1>3. Begins(f[j], f[n])
  BY <1>1, JoinedStays
<1>4. Len(f[j]) = Len(f[j - 1]) + Len(b[j])
  BY <1>2
<1>5. ASSUME NEW i \in 1 .. Len(b[j])
      PROVE  f[n][Len(f[j - 1]) + i] = b[j][i]
  <2>1. Len(f[j - 1]) + i \in 1 .. Len(f[j])
    <3>1. Len(f[j - 1]) \in Nat /\ Len(b[j]) \in Nat
      BY <1>2
    <3> DEFINE p == Len(f[j - 1])
               q == Len(b[j])
    <3>2. Len(f[j]) = p + q /\ p \in Nat /\ q \in Nat /\ i \in 1 .. q
      BY <3>1, <1>4
    <3> HIDE DEF p, q
    <3>3. p + i \in 1 .. Len(f[j])
      BY <3>2
    <3>4. QED BY <3>3 DEF p
  <2>2. f[j][Len(f[j - 1]) + i] = b[j][i]
    BY <1>2, <2>1
  <2>3. QED BY <1>3, <2>1, <2>2 DEF Begins
<1>6. QED BY <1>3, <1>4, <1>5 DEF Begins, Behind


----------------------------------------------------------------------------
(* Characters *)

LEMMA Square ==
  Radix \in Nat /\ Radix >= 2 /\ Base \in Nat /\ Base = Radix * Radix
BY FormAssumption DEF FormAssumption

LEMMA Characters ==
  /\ Radix \in Nat /\ Radix >= 2 /\ Base \in Nat /\ Radix <= Base - 2
  /\ \A c \in {Equals, Ampersand, Percent, Plus, Space} \cup Upper :
       c \in Int /\ Radix <= c /\ c <= Base - 1
  /\ Equals # Ampersand /\ Percent # Plus
  /\ Percent \notin {Equals, Ampersand} /\ Plus \notin {Equals, Ampersand}
  /\ \A c \in Upper : /\ c \notin {Equals, Ampersand, Percent, Plus}
                      /\ c - 1 \notin {Equals, Ampersand, Percent, Plus}
<1>1. Radix * Radix >= 2 * Radix
  BY Square
<1>2. Radix \in Nat /\ Radix >= 2 /\ Base \in Nat /\ Radix <= Base - 2
  BY <1>1, Square
<1>3. \A c \in {Equals, Ampersand, Percent, Plus, Space} \cup Upper : c \in Radix .. Base - 1
  BY FormAssumption DEF FormAssumption
<1>4. \A c \in {Equals, Ampersand, Percent, Plus, Space} \cup Upper :
        c \in Int /\ Radix <= c /\ c <= Base - 1
  BY <1>2, <1>3
<1>5. /\ {Equals, Ampersand} \cap {Percent, Plus} = {}
      /\ Equals # Ampersand /\ Percent # Plus
      /\ \A c \in Upper : {c, c - 1} \cap {Equals, Ampersand, Percent, Plus} = {}
  BY FormAssumption DEF FormAssumption
<1>6. Percent \notin {Equals, Ampersand} /\ Plus \notin {Equals, Ampersand}
  BY <1>5
<1>7. \A c \in Upper : /\ c \notin {Equals, Ampersand, Percent, Plus}
                       /\ c - 1 \notin {Equals, Ampersand, Percent, Plus}
  BY <1>5, Zenon
<1>8. QED BY <1>2, <1>4, <1>5, <1>6, <1>7

LEMMA SpecialChars == {Equals, Ampersand, Percent, Plus, Space} \subseteq Char
BY Characters DEF Char

LEMMA TwoDigits ==
  ASSUME NEW c \in Char
  PROVE  /\ c \div Radix \in 0 .. Radix - 1 /\ c % Radix \in 0 .. Radix - 1
         /\ ((c \div Radix) * Radix) + (c % Radix) = c
<1> DEFINE q == c \div Radix
           r == c % Radix
<1>1. Radix \in Nat /\ Radix >= 2 /\ c \in Nat /\ c < Radix * Radix
  BY Square DEF Char
<1>2. q \in Int /\ r \in 0 .. Radix - 1 /\ c = Radix * q + r
  BY <1>1
<1> HIDE DEF q, r
<1>3. q >= 0
  <2>1. ASSUME q <= -1 PROVE FALSE
    <3>1. Radix * q <= Radix * (-1)
      BY <1>1, <1>2, <2>1
    <3>2. QED BY <1>1, <1>2, <3>1
  <2>2. QED BY <1>2, <2>1
<1>4. q < Radix
  <2>1. ASSUME q >= Radix PROVE FALSE
    <3>1. Radix * q >= Radix * Radix
      BY <1>1, <1>2, <2>1
    <3>2. QED BY <1>1, <1>2, <3>1
  <2>2. QED BY <1>1, <1>2, <2>1
<1>5. q \in 0 .. Radix - 1 /\ q * Radix + r = c
  <2>1. q * Radix = Radix * q
    BY <1>1, <1>2
  <2>2. QED BY <1>1, <1>2, <1>3, <1>4, <2>1
<1>6. QED BY <1>2, <1>5 DEF q, r

\* Characters that end neither a name nor a value.
Quiet == Char \ {Equals, Ampersand}

\* A character stands for itself, or is spelled with two digits.
Alone(e, c) == Len(e) = 1 /\ e[1] # Percent /\ Plain(e[1]) = c
Spelled(e, c) ==
  Len(e) = 3 /\ e[1] = Percent /\ e[2] < Radix /\ e[3] < Radix
    /\ e[2] * Radix + e[3] = c

LEMMA EscapedIs ==
  ASSUME NEW c \in Char
  PROVE  /\ Escaped(c) \in Seq(Quiet)
         /\ Alone(Escaped(c), c) \/ Spelled(Escaped(c), c)
<1>1. CASE c = Space
  <2>1. Plus \in Quiet
    <3>1. Plus \in Char
      BY Characters DEF Char
    <3>2. QED BY <3>1, Characters DEF Quiet
  <2>a. Escaped(c) = <<Plus>>
    BY <1>1 DEF Escaped
  <2>2. QED BY <1>1, <2>1, <2>a, Characters DEF Alone, Plain
<1>2. CASE c # Space /\ (c < Radix \/ c \in Upper \/ c + 1 \in Upper)
  <2>1. c \notin {Equals, Ampersand, Percent, Plus}
    <3>1. c \in Int
      BY Characters DEF Char
    <3>2. CASE c < Radix
      <4>1. \A d \in {Equals, Ampersand, Percent, Plus} : d \in Int /\ d >= Radix
        BY Characters
      <4>2. QED BY <3>1, <3>2, <4>1, Characters
    <3>3. CASE c \in Upper
      BY <3>3, Characters
    <3>4. CASE c + 1 \in Upper
      <4>1. (c + 1) - 1 = c
        BY <3>1
      <4>2. QED BY <3>4, <4>1, Characters
    <3>5. QED BY <1>2, <3>2, <3>3, <3>4
  <2>2. c \in Quiet /\ Escaped(c) = <<c>>
    BY <1>2, <2>1 DEF Quiet, Escaped
  <2>3. QED BY <2>1, <2>2 DEF Alone, Plain
<1>3. CASE c # Space /\ ~(c < Radix \/ c \in Upper \/ c + 1 \in Upper)
  <2>1. Escaped(c) = <<Percent, c \div Radix, c % Radix>>
    BY <1>3 DEF Escaped
  <2>2. \A d \in 0 .. Radix - 1 : d \in Quiet /\ d < Radix
    BY Characters DEF Quiet, Char
  <2>3. Percent \in Quiet
    <3>1. Percent \in Char
      BY Characters DEF Char
    <3>2. QED BY <3>1, Characters DEF Quiet
  <2> DEFINE q == c \div Radix
             r == c % Radix
  <2>4. q \in Quiet /\ r \in Quiet /\ q < Radix /\ r < Radix /\ q * Radix + r = c
    <3>1. q \in 0 .. Radix - 1 /\ r \in 0 .. Radix - 1 /\ q * Radix + r = c
      BY TwoDigits
    <3> HIDE DEF q, r
    <3>2. QED BY <2>2, <3>1
  <2>5. Escaped(c) = <<Percent, q, r>>
    BY <2>1
  <2> HIDE DEF q, r
  <2>6. QED BY <2>3, <2>4, <2>5 DEF Spelled
<1>4. QED BY <1>1, <1>2, <1>3

LEMMA EncodedIsQuiet ==
  ASSUME NEW x \in Seq(Char)
  PROVE  Encoded(x) \in Seq(Quiet)
<1> DEFINE S == Seq(Quiet)
<1>1. \A k \in 1 .. Len(x) : \A y \in S : y \o Escaped(x[k]) \in S
  <2>1. ASSUME NEW k \in 1 .. Len(x), NEW y \in S PROVE y \o Escaped(x[k]) \in S
    <3>1. x[k] \in Char
      OBVIOUS
    <3>2. Escaped(x[k]) \in Seq(Quiet)
      BY <3>1, EscapedIs
    <3>3. QED BY <3>2
  <2>2. QED BY <2>1
<1>2. << >> \in S
  OBVIOUS
<1> HIDE DEF S
<1>3. PICK f : f \in [0 .. Len(x) -> S] /\ Encoded(x) = f[Len(x)]
  <2>1. EncodedRuns(x, S)
    BY <1>1, <1>2, EncodedSteps
  <2>2. QED BY <2>1 DEF EncodedRuns
<1>4. QED BY <1>3 DEF S

----------------------------------------------------------------------------
(* Decoding what was encoded *)

DecodeState == [out : Seq(Char), skip : 0 .. 2]

LEMMA DecodedKeeps ==
  ASSUME NEW text \in Seq(Char), NEW done \in DecodeState, NEW k \in 1 .. Len(text)
  PROVE  Decoded(text, done, k) \in DecodeState
<1>1. CASE done.skip > 0
  BY <1>1 DEF Decoded, DecodeState
<1>2. CASE ~(done.skip > 0)
  <2>1. text[k] \in Char /\ Plain(text[k]) \in Char
    <3>1. text[k] \in Char
      OBVIOUS
    <3>2. Space \in Char
      BY SpecialChars
    <3>3. QED BY <3>1, <3>2 DEF Plain
  <2>2. CASE text[k] = Percent /\ IsDigit(text, k + 1) /\ IsDigit(text, k + 2)
    <3> DEFINE a == text[k + 1]
               b == text[k + 2]
    <3>1. k + 1 \in 1 .. Len(text) /\ k + 2 \in 1 .. Len(text) /\ a < Radix /\ b < Radix
      BY <2>2 DEF IsDigit
    <3>2. a \in Nat /\ b \in Nat
      <4>1. a \in Char /\ b \in Char
        BY <3>1
      <4>2. QED BY <4>1 DEF Char
    <3>3. Decoded(text, done, k) = [out |-> Append(done.out, a * Radix + b), skip |-> 2]
      BY <1>2, <2>2 DEF Decoded
    <3> HIDE DEF a, b
    <3>4. a * Radix + b \in Char
      <4>1. a * Radix <= (Radix - 1) * Radix
        BY <3>1, <3>2, Square
      <4>2. (Radix - 1) * Radix = Base - Radix /\ a * Radix \in Nat
        BY <3>2, Square
      <4>3. QED BY <3>1, <3>2, <4>1, <4>2, Characters DEF Char
    <3>5. done.out \in Seq(Char)
      BY DEF DecodeState
    <3>6. QED BY <3>3, <3>4, <3>5 DEF DecodeState
  <2>3. CASE ~(text[k] = Percent /\ IsDigit(text, k + 1) /\ IsDigit(text, k + 2))
    <3>1. Decoded(text, done, k) = [out |-> Append(done.out, Plain(text[k])), skip |-> 0]
      BY <1>2, <2>3 DEF Decoded
    <3>2. done.out \in Seq(Char)
      BY DEF DecodeState
    <3>3. QED BY <2>1, <3>1, <3>2 DEF DecodeState
  <2>4. QED BY <2>2, <2>3
<1>3. QED BY <1>1, <1>2

\* The state of the loop with out behind it and n characters to skip.
Done(out, n) == [out |-> out, skip |-> n]

\* g is the run of the loop over text.
Decodes(text, g) == \A k \in 1 .. Len(text) : g[k] = Decoded(text, g[k - 1], k)

LEMMA DecodedAlone ==
  ASSUME NEW text, NEW out, NEW k, text[k] # Percent
  PROVE  Decoded(text, Done(out, 0), k)
           = Done(Append(out, Plain(text[k])), 0)
BY DEF Decoded, Done

LEMMA DecodedDigits ==
  ASSUME NEW text, NEW out, NEW k \in Nat, k + 2 <= Len(text), Len(text) \in Nat,
         text[k] = Percent, text[k + 1] < Radix, text[k + 2] < Radix
  PROVE  Decoded(text, Done(out, 0), k)
           = Done(Append(out, text[k + 1] * Radix + text[k + 2]), 2)
<1>1. IsDigit(text, k + 1) /\ IsDigit(text, k + 2)
  BY DEF IsDigit
<1>2. QED BY <1>1 DEF Decoded, Done

LEMMA DecodedSkips ==
  ASSUME NEW text, NEW out, NEW k, NEW done
  PROVE  /\ done = Done(out, 2) => Decoded(text, done, k) = Done(out, 1)
         /\ done = Done(out, 1) => Decoded(text, done, k) = Done(out, 0)
BY DEF Decoded, Done

\* One encoded character is decoded, wherever it is in the text.
LEMMA DecodesOne ==
  ASSUME NEW text \in Seq(Char), NEW c \in Char, NEW o \in Nat, NEW out,
         NEW e \in Seq(Char), NEW g
  PROVE  /\ Alone(e, c) \/ Spelled(e, c)
         /\ o + Len(e) <= Len(text)
         /\ Behind(text, o, e)
         /\ g[o] = Done(out, 0)
         /\ Decodes(text, g)
         => g[o + Len(e)] = Done(Append(out, c), 0)
<1> SUFFICES ASSUME Alone(e, c) \/ Spelled(e, c),
                    o + Len(e) <= Len(text),
                    Behind(text, o, e),
                    g[o] = Done(out, 0),
                    Decodes(text, g)
             PROVE  g[o + Len(e)] = Done(Append(out, c), 0)
  OBVIOUS
<1>0. Len(text) \in Nat
  OBVIOUS
<1>1. CASE Alone(e, c)
  <2>1. Len(e) = 1 /\ 1 \in 1 .. Len(e) /\ o + 1 \in 1 .. Len(text) /\ (o + 1) - 1 = o
    BY <1>1 DEF Alone
  <2>2. text[o + 1] # Percent /\ Plain(text[o + 1]) = c
    BY <1>1, <2>1 DEF Alone, Behind
  <2>3. g[o + 1] = Decoded(text, g[o], o + 1)
    BY <2>1 DEF Decodes
  <2>4. QED BY <2>1, <2>2, <2>3, DecodedAlone
<1>2. CASE Spelled(e, c)
  <2>1. Len(e) = 3
    BY <1>2 DEF Spelled
  <2>2. /\ 1 \in 1 .. Len(e) /\ 2 \in 1 .. Len(e) /\ 3 \in 1 .. Len(e)
        /\ o + 1 \in 1 .. Len(text) /\ o + 2 \in 1 .. Len(text) /\ o + 3 \in 1 .. Len(text)
        /\ (o + 1) - 1 = o /\ (o + 2) - 1 = o + 1 /\ (o + 3) - 1 = o + 2
        /\ (o + 1) + 1 = o + 2 /\ (o + 1) + 2 = o + 3
    BY <1>0, <2>1
  <2>3. text[o + 1] = e[1] /\ text[o + 2] = e[2] /\ text[o + 3] = e[3]
    BY <2>2 DEF Behind
  <2>4. /\ text[o + 1] = Percent /\ text[o + 2] < Radix /\ text[o + 3] < Radix
        /\ text[o + 2] * Radix + text[o + 3] = c
    BY <1>2, <2>3 DEF Spelled
  <2>5. /\ g[o + 1] = Decoded(text, g[o], o + 1)
        /\ g[o + 2] = Decoded(text, g[o + 1], o + 2)
        /\ g[o + 3] = Decoded(text, g[o + 2], o + 3)
    BY <2>2 DEF Decodes
  <2>6. g[o + 1] = Done(Append(out, c), 2)
    <3> DEFINE k == o + 1
    <3>1. k \in Nat /\ k + 2 <= Len(text) /\ k + 1 = o + 2 /\ k + 2 = o + 3
      BY <1>0, <2>2
    <3>2. text[k] = Percent /\ text[k + 1] < Radix /\ text[k + 2] < Radix
          /\ text[k + 1] * Radix + text[k + 2] = c
      BY <2>4, <3>1
    <3>3. g[k] = Decoded(text, Done(out, 0), k)
      BY <2>5
    <3> HIDE DEF k
    <3>4. g[k] = Done(Append(out, text[k + 1] * Radix + text[k + 2]), 2)
      BY <1>0, <3>1, <3>2, <3>3, DecodedDigits
    <3>5. g[k] = Done(Append(out, c), 2)
      BY <3>2, <3>4
    <3>6. QED BY <3>5 DEF k
  <2>7. g[o + 2] = Done(Append(out, c), 1)
    BY <2>5, <2>6, DecodedSkips
  <2>8. g[o + 3] = Done(Append(out, c), 0)
    BY <2>5, <2>7, DecodedSkips
  <2>9. QED BY <2>1, <2>8
<1>3. QED BY <1>1, <1>2

LEMMA FrontGrows ==
  ASSUME NEW E, NEW x \in Seq(E), NEW j \in 1 .. Len(x)
  PROVE  /\ SubSeq(x, 1, j) = Append(SubSeq(x, 1, j - 1), x[j])
         /\ SubSeq(x, 1, 0) = << >> /\ SubSeq(x, 1, Len(x)) = x
<1>1. SubSeq(x, 1, j) = Append(SubSeq(x, 1, j - 1), x[j])
  OBVIOUS
<1>2. QED BY <1>1

\* Whatever text a browser encodes, form_urldecode gives it back.
THEOREM DecodesEncoded ==
  ASSUME NEW x \in Seq(Char)
  PROVE  form_urldecode(Encoded(x)) = x
<1> DEFINE n == Len(x)
           text == Encoded(x)
           b == [k \in 1 .. n |-> Escaped(x[k])]
<1>1. n \in Nat /\ \A k \in 1 .. n : x[k] \in Char
  OBVIOUS
<1>2. \A c \in Char : Escaped(c) \in Seq(Char)
  <2>1. Quiet \in SUBSET Char
    BY DEF Quiet
  <2>2. ASSUME NEW c \in Char PROVE Escaped(c) \in Seq(Char)
    <3>1. Escaped(c) \in Seq(Quiet)
      BY EscapedIs
    <3>2. QED BY <2>1, <3>1
  <2>3. QED BY <2>2
<1>3. PICK f : /\ f \in [0 .. n -> Seq(Char)] /\ f[0] = << >>
               /\ \A k \in 1 .. n : f[k] = f[k - 1] \o Escaped(x[k])
               /\ text = f[n]
  <2>1. \A k \in 1 .. n : \A y \in Seq(Char) : y \o Escaped(x[k]) \in Seq(Char)
    BY <1>1, <1>2
  <2>2. << >> \in Seq(Char)
    OBVIOUS
  <2>3. EncodedRuns(x, Seq(Char))
    BY <2>1, <2>2, EncodedSteps
  <2>4. QED BY <2>3 DEF EncodedRuns
<1>4. Joins(Char, n, f, b)
  BY <1>1, <1>2, <1>3 DEF Joins
<1>5. text \in Seq(Char) /\ n \in 0 .. n /\ Len(text) = Len(f[n])
  BY <1>1, <1>3
<1> DEFINE s == [k \in DOMAIN text |-> k]
           start == Done(<< >>, 0)
           L == Len(text)
<1>5a. \A k \in 1 .. n : b[k] = Escaped(x[k])
  OBVIOUS
<1> HIDE DEF text, n, b
<1>6. s \in Seq(Nat) /\ Len(s) = L /\ \A k \in 1 .. L : s[k] = k
  <2>1. DOMAIN text = 1 .. L /\ L \in Nat
    BY <1>5
  <2>2. s = [k \in 1 .. L |-> k]
    BY <2>1
  <2>3. QED BY <2>1, <2>2
<1>7. start \in DecodeState
  BY DEF DecodeState, Done
<1>8. \A k \in 1 .. Len(s) : \A y \in DecodeState : Decoded(text, y, s[k]) \in DecodeState
  BY <1>5, <1>6, DecodedKeeps
<1>9. form_urldecode(text) = DecodedAll(text, start, s).out
  BY DEF form_urldecode, DecodedAll, Done
<1>10. PICK g : /\ g[0] = start
                /\ \A k \in 1 .. Len(s) : g[k] = Decoded(text, g[k - 1], s[k])
                /\ DecodedAll(text, start, s) = g[Len(s)]
  <2> HIDE DEF s, start
  <2>1. DecodedRuns(text, s, start, DecodeState)
    BY <1>6, <1>7, <1>8, DecodedSteps
  <2>2. QED BY <2>1 DEF DecodedRuns
<1>11. form_urldecode(text) = g[L].out
  BY <1>6, <1>9, <1>10
<1>12. Decodes(text, g)
  BY <1>6, <1>10 DEF Decodes
<1>13. g[0] = Done(<< >>, 0)
  BY <1>10
<1> HIDE DEF s, start
<1> DEFINE h == [j \in 0 .. n |-> g[Len(f[j])]]
           P == [j \in 0 .. n |-> {Done(SubSeq(x, 1, j), 0)}]
<1>14. ASSUME NEW j \in 1 .. n, h[j - 1] \in P[j - 1] PROVE h[j] \in P[j]
  <2>1. j - 1 \in 0 .. n /\ j \in 0 .. n /\ x[j] \in Char
    BY <1>1
  <2>2. /\ Len(f[j]) = Len(f[j - 1]) + Len(b[j]) /\ Len(f[j]) <= Len(f[n])
        /\ Behind(f[n], Len(f[j - 1]), b[j])
    BY <1>1, <1>4, BlockAt
  <2> DEFINE o == Len(f[j - 1])
             e == b[j]
             out == SubSeq(x, 1, j - 1)
  <2>3. e \in Seq(Char) /\ o \in Nat
    <3>1. f \in [0 .. n -> Seq(Char)] /\ b \in [1 .. n -> Seq(Char)]
      BY <1>4 DEF Joins
    <3>2. f[j - 1] \in Seq(Char)
      BY <2>1, <3>1
    <3>3. b[j] \in Seq(Char)
      BY <3>1
    <3>4. QED BY <3>2, <3>3
  <2>4. Alone(e, x[j]) \/ Spelled(e, x[j])
    BY <1>5a, <2>1, EscapedIs
  <2>5. g[o] = Done(out, 0)
    BY <1>14, <2>1
  <2>6. o + Len(e) <= L /\ Behind(text, o, e)
    BY <1>3, <1>5, <2>2
  <2>7. Len(f[j]) = o + Len(e)
    BY <2>2
  <2> HIDE DEF o, e, out, h, P, L
  <2>8. g[o + Len(e)] = Done(Append(out, x[j]), 0)
    BY <1>5, <1>12, <2>1, <2>3, <2>4, <2>5, <2>6, DecodesOne DEF L
  <2>9. SubSeq(x, 1, j) = Append(out, x[j])
    BY FrontGrows DEF out, n
  <2>10. h[j] = g[Len(f[j])] /\ P[j] = {Done(SubSeq(x, 1, j), 0)}
    BY <2>1 DEF h, P
  <2>11. QED BY <2>7, <2>8, <2>9, <2>10
<1>15. h[0] \in P[0]
  <2>1. h[0] = g[0] /\ P[0] = {Done(SubSeq(x, 1, 0), 0)}
    BY <1>1, <1>3
  <2>2. SubSeq(x, 1, 0) = << >>
    OBVIOUS
  <2>3. QED BY <1>13, <2>1, <2>2
<1>16. h[n] \in P[n]
  <2> HIDE DEF h, P
  <2>1. QED BY <1>1, <1>5, <1>14, <1>15, Reaches
<1>17. g[L] = Done(SubSeq(x, 1, n), 0)
  BY <1>1, <1>5, <1>16
<1>18. SubSeq(x, 1, n) = x
  BY DEF n
<1>19. QED BY <1>11, <1>17, <1>18 DEF text, Done


----------------------------------------------------------------------------
(* Sequences put together and taken apart *)

LEMMA Apart ==
  ASSUME NEW E, NEW a \in Seq(E), NEW c \in Seq(E)
  PROVE  /\ a \o c \in Seq(E) /\ Len(a \o c) = Len(a) + Len(c)
         /\ \A i \in 1 .. Len(a) : (a \o c)[i] = a[i]
         /\ \A i \in 1 .. Len(c) : (a \o c)[Len(a) + i] = c[i]
OBVIOUS

LEMMA Placed ==
  ASSUME NEW E, NEW a \in Seq(E), NEW c \in Seq(E)
  PROVE  /\ a \o c \in Seq(E) /\ Len(a \o c) = Len(a) + Len(c)
         /\ Begins(a, a \o c) /\ Behind(a \o c, Len(a), c)
BY DEF Begins, Behind

LEMMA Alike ==
  ASSUME NEW E, NEW x \in Seq(E), NEW y \in Seq(E), NEW n \in Nat,
         Len(x) = n, Len(y) = n, \A k \in 1 .. n : x[k] = y[k]
  PROVE  x = y
OBVIOUS

LEMMA Part ==
  ASSUME NEW E, NEW s \in Seq(E), NEW r \in Nat, NEW w \in Nat, r <= w, w <= Len(s)
  PROVE  /\ SubSeq(s, r + 1, w) \in Seq(E) /\ Len(SubSeq(s, r + 1, w)) = w - r
         /\ \A k \in 1 .. w - r : SubSeq(s, r + 1, w)[k] = s[r + k]
OBVIOUS

LEMMA Halves ==
  ASSUME NEW E, NEW a \in Seq(E), NEW c \in Seq(E)
  PROVE  /\ SubSeq(a \o c, 1, Len(a)) = a
         /\ SubSeq(a \o c, Len(a) + 1, Len(a \o c)) = c
<1> DEFINE s == a \o c
           m == Len(a)
           n == Len(c)
<1>1. m \in Nat /\ n \in Nat /\ s \in Seq(E) /\ Len(s) = m + n
  OBVIOUS
<1>2. (\A i \in 1 .. m : s[i] = a[i]) /\ (\A i \in 1 .. n : s[m + i] = c[i])
  BY Apart
<1> HIDE DEF s
<1>3. SubSeq(s, 1, m) = a
  <2>1. /\ SubSeq(s, 0 + 1, m) \in Seq(E) /\ Len(SubSeq(s, 0 + 1, m)) = m - 0
        /\ \A k \in 1 .. m - 0 : SubSeq(s, 0 + 1, m)[k] = s[0 + k]
    <3>1. 0 \in Nat /\ 0 <= m /\ m <= Len(s)
      BY <1>1
    <3> HIDE DEF m
    <3>2. QED BY <1>1, <3>1, Part
  <2>2. 0 + 1 = 1 /\ m - 0 = m /\ \A k \in 1 .. m : 0 + k = k
    BY <1>1
  <2>3. QED BY <1>1, <1>2, <2>1, <2>2, Alike
<1>4. SubSeq(s, m + 1, m + n) = c
  <2>1. /\ SubSeq(s, m + 1, m + n) \in Seq(E) /\ Len(SubSeq(s, m + 1, m + n)) = (m + n) - m
        /\ \A k \in 1 .. (m + n) - m : SubSeq(s, m + 1, m + n)[k] = s[m + k]
    <3>1. m + n \in Nat /\ m <= m + n /\ m + n <= Len(s)
      BY <1>1
    <3> HIDE DEF m, n
    <3>2. QED BY <1>1, <3>1, Part
  <2>2. (m + n) - m = n
    BY <1>1
  <2>3. QED BY <1>1, <1>2, <2>1, <2>2, Alike
<1>5. QED BY <1>1, <1>3, <1>4 DEF s

LEMMA Regroup ==
  ASSUME NEW E, NEW a \in Seq(E), NEW b \in Seq(E), NEW c \in Seq(E)
  PROVE  (a \o b) \o c = a \o (b \o c)
OBVIOUS

LEMMA Nothing ==
  ASSUME NEW E, NEW a \in Seq(E)
  PROVE  a \o << >> = a /\ << >> \o a = a /\ << >> \in Seq(E)
OBVIOUS

\* What is left of s behind position o.
LEMMA Rest ==
  ASSUME NEW E, NEW s \in Seq(E), NEW o \in Nat, o <= Len(s)
  PROVE  /\ SubSeq(s, o + 1, Len(s)) \in Seq(E)
         /\ Len(SubSeq(s, o + 1, Len(s))) = Len(s) - o
         /\ Behind(s, o, SubSeq(s, o + 1, Len(s)))
<1>1. Len(s) \in Nat
  OBVIOUS
<1> DEFINE L == Len(s)
           x == SubSeq(s, o + 1, L)
<1>2. L \in Nat /\ L <= Len(s) /\ o <= L
  BY <1>1
<1> HIDE DEF L
<1>3. /\ x \in Seq(E) /\ Len(x) = L - o
      /\ \A k \in 1 .. L - o : x[k] = s[o + k]
  BY <1>2, Part
<1> HIDE DEF x
<1>4. Behind(s, o, x)
  BY <1>3 DEF Behind
<1>5. QED BY <1>3, <1>4 DEF x, L

\* The rest behind o is the block b there and the rest behind b.
LEMMA RestFrom ==
  ASSUME NEW E, NEW s \in Seq(E), NEW o \in Nat, NEW b \in Seq(E),
         o + Len(b) <= Len(s), Behind(s, o, b)
  PROVE  SubSeq(s, o + 1, Len(s)) = b \o SubSeq(s, (o + Len(b)) + 1, Len(s))
<1> DEFINE L == Len(s)
           l == Len(b)
           x == SubSeq(s, o + 1, L)
           z == SubSeq(s, (o + l) + 1, L)
           y == b \o z
<1>1. L \in Nat /\ l \in Nat /\ o + l <= L /\ o <= L /\ o + l \in Nat
  OBVIOUS
<1>2. /\ x \in Seq(E) /\ Len(x) = L - o /\ Behind(s, o, x)
  BY <1>1, Rest
<1>3. /\ z \in Seq(E) /\ Len(z) = L - (o + l) /\ Behind(s, o + l, z)
  BY <1>1, Rest
<1> HIDE DEF z
<1>4. /\ y \in Seq(E) /\ Len(y) = l + Len(z)
      /\ \A i \in 1 .. l : y[i] = b[i]
      /\ \A i \in 1 .. Len(z) : y[l + i] = z[i]
  BY <1>3, Apart
<1> HIDE DEF L, l, x, y
<1>5. ASSUME NEW i \in 1 .. L - o PROVE x[i] = y[i]
  <2>0. x[i] = s[o + i]
    BY <1>2 DEF Behind
  <2>1. CASE i <= l
    <3>1. i \in 1 .. l
      BY <2>1, <1>1
    <3>2. b[i] = s[o + i]
      BY <3>1 DEF Behind, l
    <3>3. QED BY <1>4, <2>0, <3>1, <3>2
  <2>2. CASE ~(i <= l)
    <3> DEFINE j == i - l
    <3>1. j \in 1 .. Len(z) /\ l + j = i /\ (o + l) + j = o + i
      BY <2>2, <1>1, <1>3
    <3> HIDE DEF j
    <3>2. y[i] = z[j]
      BY <1>4, <3>1
    <3>3. z[j] = s[o + i]
      BY <1>3, <3>1 DEF Behind
    <3>4. QED BY <2>0, <3>2, <3>3
  <2>3. QED BY <2>1, <2>2
<1>6. Len(y) = L - o /\ L - o \in Nat
  BY <1>1, <1>3, <1>4
<1>7. x = y
  BY <1>2, <1>4, <1>5, <1>6, Alike
<1>8. QED BY <1>7 DEF x, y, z, l, L

\* T[k] is what the blocks behind k join to.
Leaves(E, n, b, T) ==
  /\ T \in [0 .. n -> Seq(E)] /\ T[n] = << >>
  /\ \A k \in 1 .. n : T[k - 1] = b[k] \o T[k]

LEMMA Tails ==
  ASSUME NEW E, NEW n \in Nat, NEW f, NEW b, Joins(E, n, f, b)
  PROVE  \E T : Leaves(E, n, b, T) /\ (f[0] = << >> => T[0] = f[n])
<1> DEFINE L == Len(f[n])
           T == [k \in 0 .. n |-> SubSeq(f[n], Len(f[k]) + 1, L)]
<1>1. f \in [0 .. n -> Seq(E)] /\ b \in [1 .. n -> Seq(E)]
  BY DEF Joins
<1>2. f[n] \in Seq(E) /\ L \in Nat /\ n \in 0 .. n /\ 0 \in 0 .. n
  <2>1. n \in 0 .. n /\ 0 \in 0 .. n
    OBVIOUS
  <2>2. QED BY <1>1, <2>1
<1>3. ASSUME NEW k \in 0 .. n
      PROVE  /\ Len(f[k]) \in Nat /\ Len(f[k]) <= L
             /\ T[k] \in Seq(E) /\ Len(T[k]) = L - Len(f[k])
  <2>1. Len(f[k]) \in Nat
    BY <1>1
  <2>2. Begins(f[k], f[n])
    BY JoinedStays
  <2>3. Len(f[k]) <= L
    BY <2>2 DEF Begins
  <2>4. T[k] = SubSeq(f[n], Len(f[k]) + 1, L)
    OBVIOUS
  <2> HIDE DEF T
  <2>5. QED BY <1>2, <2>1, <2>3, <2>4, Rest
<1>4. ASSUME NEW k \in 1 .. n PROVE T[k - 1] = b[k] \o T[k]
  <2>1. k - 1 \in 0 .. n /\ k \in 0 .. n
    OBVIOUS
  <2>2. b[k] \in Seq(E)
    BY <1>1
  <2>3. /\ Len(f[k]) = Len(f[k - 1]) + Len(b[k])
        /\ Len(f[k]) <= Len(f[n])
        /\ Behind(f[n], Len(f[k - 1]), b[k])
    <3>1. Len(f[k]) = Len(f[k - 1]) + Len(b[k])
      <4>1. f[k] = f[k - 1] \o b[k] /\ f[k - 1] \in Seq(E)
        BY <2>1 DEF Joins
      <4>2. QED BY <2>2, <4>1
    <3>2. Len(f[k]) <= Len(f[n])
      BY BlockAt
    <3>3. Behind(f[n], Len(f[k - 1]), b[k])
      BY BlockAt
    <3>4. QED BY <3>1, <3>2, <3>3
  <2>4. Len(f[k - 1]) \in Nat
    BY <1>3, <2>1
  <2>5. T[k - 1] = SubSeq(f[n], Len(f[k - 1]) + 1, L) /\ T[k] = SubSeq(f[n], Len(f[k]) + 1, L)
    BY <2>1
  <2> HIDE DEF T
  <2> DEFINE s == f[n]
             o == Len(f[k - 1])
             c == b[k]
  <2>6. s \in Seq(E) /\ o \in Nat /\ c \in Seq(E) /\ o + Len(c) <= Len(s) /\ Behind(s, o, c)
    BY <1>2, <2>2, <2>3, <2>4
  <2>7. T[k - 1] = SubSeq(s, o + 1, Len(s)) /\ T[k] = SubSeq(s, (o + Len(c)) + 1, Len(s))
    BY <2>3, <2>5
  <2> HIDE DEF s, o, c
  <2>8. T[k - 1] = c \o T[k]
    BY <2>6, <2>7, RestFrom
  <2>9. QED BY <2>8 DEF c
<1>5. f[0] = << >> => T[0] = f[n]
  <2> SUFFICES ASSUME f[0] = << >> PROVE SubSeq(f[n], Len(f[0]) + 1, L) = f[n]
    BY <1>2
  <2>1. Len(f[0]) + 1 = 1
    OBVIOUS
  <2>2. QED BY <1>2, <2>1
<1>6. T[n] = << >>
  <2>1. T[n] \in Seq(E) /\ Len(T[n]) = L - L
    <3> HIDE DEF T
    <3>1. QED BY <1>2, <1>3
  <2>2. L - L = 0
    BY <1>2
  <2> HIDE DEF T
  <2>3. QED BY <2>1, <2>2
<1>7. T \in [0 .. n -> Seq(E)]
  BY <1>3
<1> HIDE DEF T
<1>8. QED BY <1>4, <1>5, <1>6, <1>7 DEF Leaves

----------------------------------------------------------------------------
(* The first of its kind *)

LEMMA FirstSuch ==
  ASSUME NEW T \in SUBSET (Nat \ {0}), T # {}
  PROVE  Min(T) \in T /\ \A k \in T : Min(T) <= k
<1>1. \E j \in T : \A k \in T : j <= k
  <2>1. T \in SUBSET Nat
    OBVIOUS
  <2>2. QED BY <2>1, LeastOf
<1>2. QED BY <1>1 DEF Min

LEMMA FindAt ==
  ASSUME NEW text \in Seq(Char), NEW c, NEW p \in 1 .. Len(text), text[p] = c,
         \A i \in 1 .. Len(text) : i < p => text[i] # c
  PROVE  Find(text, c) = p
<1> DEFINE I == {i \in 1 .. Len(text) : text[i] = c}
<1>1. I \in SUBSET (Nat \ {0}) /\ p \in I
  OBVIOUS
<1>2. Find(text, c) = Min(I)
  BY <1>1 DEF Find, SelectInSeq
<1>3. \A i \in I : p <= i
  OBVIOUS
<1> HIDE DEF I
<1>4. Min(I) \in I /\ \A i \in I : Min(I) <= i
  BY <1>1, FirstSuch
<1>5. Min(I) <= p /\ p <= Min(I) /\ Min(I) \in Nat /\ p \in Nat
  BY <1>1, <1>3, <1>4
<1>6. QED BY <1>2, <1>5

LEMMA FindNone ==
  ASSUME NEW text, NEW c, \A i \in 1 .. Len(text) : text[i] # c
  PROVE  Find(text, c) = 0
BY DEF Find, SelectInSeq

----------------------------------------------------------------------------
(* Pairs *)

Form == Seq(Seq(Char) \X Seq(Char))

\* A pair as a browser encodes it.
Encodes(p) == (Encoded(p[1]) \o <<Equals>>) \o Encoded(p[2])

LEMMA PairKeepsQuiet ==
  ASSUME NEW p \in Seq(Char) \X Seq(Char)
  PROVE  /\ p[1] \in Seq(Char) /\ p[2] \in Seq(Char)
         /\ Encoded(p[1]) \in Seq(Quiet) /\ Encoded(p[2]) \in Seq(Quiet)
BY EncodedIsQuiet

LEMMA QuietIs ==
  ASSUME NEW s \in Seq(Quiet)
  PROVE  /\ s \in Seq(Char) /\ Len(s) \in Nat
         /\ \A i \in 1 .. Len(s) : s[i] # Equals /\ s[i] # Ampersand
<1>1. Quiet \in SUBSET Char /\ \A c \in Quiet : c # Equals /\ c # Ampersand
  BY DEF Quiet
<1>2. \A i \in 1 .. Len(s) : s[i] \in Quiet
  OBVIOUS
<1>3. s \in Seq(Char)
  BY <1>1
<1>4. QED BY <1>1, <1>2, <1>3

\* A quiet string ends where an equals sign or an ampersand is found.
LEMMA EndOfQuiet ==
  ASSUME NEW v \in Seq(Quiet), NEW t \in Seq(Char), NEW c \in {Equals, Ampersand}
  PROVE  /\ Find(v, c) = 0
         /\ Find(v \o (<<c>> \o t), c) = Len(v) + 1
<1>1. v \in Seq(Char) /\ Len(v) \in Nat /\ \A i \in 1 .. Len(v) : v[i] # c
  BY QuietIs
<1>2. Find(v, c) = 0
  BY <1>1, FindNone
<1> DEFINE u == <<c>> \o t
           s == v \o u
           m == Len(v)
<1>3. <<c>> \in Seq(Char)
  BY SpecialChars
<1>4. u \in Seq(Char) /\ Len(u) = 1 + Len(t) /\ u[1] = c /\ Len(t) \in Nat
  BY <1>3
<1> HIDE DEF u
<1>5. /\ s \in Seq(Char) /\ Len(s) = m + Len(u)
      /\ Begins(v, s) /\ Behind(s, m, u)
  BY <1>1, <1>4, Placed
<1>6. m + 1 \in 1 .. Len(s) /\ s[m + 1] = c
  <2>1. 1 \in 1 .. Len(u)
    BY <1>4
  <2> HIDE DEF s
  <2>2. QED BY <1>1, <1>4, <1>5, <2>1 DEF Behind
<1>7. \A i \in 1 .. Len(s) : i < m + 1 => s[i] # c
  <2>1. \A i \in 1 .. Len(s) : i < m + 1 => i \in 1 .. m
    BY <1>1
  <2> HIDE DEF s
  <2>2. QED BY <1>1, <1>5, <2>1 DEF Begins
<1> HIDE DEF s
<1>8. Find(s, c) = m + 1
  <2> HIDE DEF m
  <2>1. QED BY <1>5, <1>6, <1>7, FindAt
<1>9. QED BY <1>2, <1>8 DEF s, u

\* The state of the loop of parseFormInput.
Read(entries, rest, more) == [entries |-> entries, rest |-> rest, more |-> more]

\* One turn reads a pair that ends the data, or that an ampersand ends.
LEMMA TakesPair ==
  ASSUME NEW p \in Seq(Char) \X Seq(Char), NEW entries, NEW t \in Seq(Char)
  PROVE  /\ TakePair(Read(entries, Encodes(p), TRUE))
              = Read(Append(entries, p), Encoded(p[2]), FALSE)
         /\ TakePair(Read(entries, Encodes(p) \o (<<Ampersand>> \o t), TRUE))
              = Read(Append(entries, p), t, TRUE)
<1> DEFINE a == Encoded(p[1])
           v == Encoded(p[2])
           e == <<Equals>>
           u == <<Ampersand>> \o t
           whole(w) == (a \o e) \o w
           value(after) == LET amp == Find(after, Ampersand) IN
                             IF amp = 0 THEN after ELSE SubSeq(after, 1, amp - 1)
<1>1. /\ p = <<p[1], p[2]>> /\ p[1] \in Seq(Char) /\ p[2] \in Seq(Char)
      /\ a \in Seq(Quiet) /\ v \in Seq(Quiet)
  BY PairKeepsQuiet
<1>2. a \in Seq(Char) /\ v \in Seq(Char) /\ e \in Seq(Char) /\ u \in Seq(Char)
      /\ Len(a) \in Nat /\ Len(v) \in Nat /\ Len(e) = 1
  <2>1. e \in Seq(Char) /\ <<Ampersand>> \in Seq(Char) /\ Len(e) = 1
    BY SpecialChars
  <2>2. u \in Seq(Char)
    BY <2>1
  <2> HIDE DEF a, v, e, u
  <2>3. QED BY <1>1, <2>1, <2>2, QuietIs
<1>3. form_urldecode(a) = p[1] /\ form_urldecode(v) = p[2]
  BY <1>1, DecodesEncoded
<1> HIDE DEF a, v, u
<1>4. ASSUME NEW w \in Seq(Char)
      PROVE  /\ Find(whole(w), Equals) = Len(a) + 1
             /\ SubSeq(whole(w), 1, Len(a)) = a
             /\ SubSeq(whole(w), (Len(a) + 1) + 1, Len(whole(w))) = w
  <2> DEFINE rest == (a \o e) \o w
             ew == e \o w
             ae == a \o e
  <2>1. ae \in Seq(Char) /\ Len(ae) = Len(a) + 1 /\ ew \in Seq(Char)
    BY <1>2
  <2>2. rest = a \o ew
    <3>1. a \in Seq(Char) /\ e \in Seq(Char) /\ w \in Seq(Char)
      BY <1>2
    <3> HIDE DEF e
    <3>2. (a \o e) \o w = a \o (e \o w)
      BY <3>1, SMTT(30)
    <3>3. QED BY <3>2
  <2>3. Find(rest, Equals) = Len(a) + 1
    BY <1>1, <2>2, EndOfQuiet
  <2> HIDE DEF ew
  <2>4. SubSeq(rest, 1, Len(a)) = a
    BY <1>2, <2>1, <2>2, Halves
  <2> HIDE DEF ae, e
  <2>5. SubSeq(ae \o w, Len(ae) + 1, Len(ae \o w)) = w
    BY <2>1, Halves
  <2>6. QED BY <2>1, <2>3, <2>4, <2>5 DEF ae
<1>4a. \A w : whole(w) = (a \o e) \o w
  OBVIOUS
<1> HIDE DEF whole
<1>5. ASSUME NEW w \in Seq(Char)
      PROVE  TakePair(Read(entries, whole(w), TRUE))
               = Read(Append(entries, <<p[1], form_urldecode(value(w))>>),
                      SubSeq(w, Find(w, Ampersand) + 1, Len(w)),
                      Find(w, Ampersand) # 0)
  <2> DEFINE rest == whole(w)
             q == Len(a) + 1
  <2>1. Find(rest, Equals) = q /\ SubSeq(rest, 1, q - 1) = a
        /\ SubSeq(rest, q + 1, Len(rest)) = w /\ q # 0
    <3>1. q - 1 = Len(a) /\ q # 0
      BY <1>2
    <3> HIDE DEF rest
    <3>2. Find(rest, Equals) = q /\ SubSeq(rest, 1, Len(a)) = a
          /\ SubSeq(rest, q + 1, Len(rest)) = w
      BY <1>4 DEF rest
    <3> HIDE DEF q
    <3>3. QED BY <3>1, <3>2
  <2> HIDE DEF rest, q
  <2>2. TakePair(Read(entries, rest, TRUE))
          = Read(Append(entries, <<form_urldecode(a), form_urldecode(value(w))>>),
                 SubSeq(w, Find(w, Ampersand) + 1, Len(w)), Find(w, Ampersand) # 0)
    BY <2>1 DEF TakePair, Read
  <2>3. QED BY <1>3, <2>2 DEF rest
<1> HIDE DEF value
<1>6. TakePair(Read(entries, whole(v), TRUE)) = Read(Append(entries, p), v, FALSE)
  <2>1. Find(v, Ampersand) = 0
    BY <1>1, <1>2, EndOfQuiet
  <2>2. value(v) = v /\ SubSeq(v, 0 + 1, Len(v)) = v
    BY <1>2, <2>1 DEF value
  <2>3. TakePair(Read(entries, whole(v), TRUE))
          = Read(Append(entries, <<p[1], form_urldecode(value(v))>>),
                 SubSeq(v, Find(v, Ampersand) + 1, Len(v)), Find(v, Ampersand) # 0)
    BY <1>2, <1>5
  <2>4. SubSeq(v, Find(v, Ampersand) + 1, Len(v)) = v
    <3>1. Find(v, Ampersand) = 0
      BY <2>1
    <3>2. QED BY <3>1, <2>2
  <2>5. QED BY <1>1, <1>3, <2>1, <2>2, <2>3, <2>4
<1>7. TakePair(Read(entries, whole(v \o u), TRUE)) = Read(Append(entries, p), t, TRUE)
  <2> DEFINE w == v \o u
             m == Len(v) + 1
  <2>1. w \in Seq(Char) /\ Find(w, Ampersand) = m
    BY <1>1, <1>2, EndOfQuiet DEF u
  <2>2. SubSeq(w, 1, m - 1) = v
    <3>1. m - 1 = Len(v)
      BY <1>2
    <3>2. QED BY <1>2, <3>1, Halves
  <2>3. SubSeq(w, m + 1, Len(w)) = t
    <3> DEFINE d == <<Ampersand>>
               va == v \o d
    <3>1. va \in Seq(Char) /\ Len(va) = m /\ d \in Seq(Char)
      BY <1>2, SpecialChars
    <3>2. w = va \o t
      <4>1. u = d \o t
        BY DEF u
      <4> HIDE DEF d
      <4>2. (v \o d) \o t = v \o (d \o t)
        <5>1. v \in Seq(Char) /\ d \in Seq(Char) /\ t \in Seq(Char)
          BY <1>2, <3>1
        <5>2. QED BY <5>1
      <4>3. QED BY <4>1, <4>2
    <3> HIDE DEF va, w, m
    <3>3. QED BY <3>1, <3>2, Halves
  <2>4. m # 0
    BY <1>2
  <2> HIDE DEF w, m
  <2>5. value(w) = v
    BY <2>1, <2>2, <2>4 DEF value
  <2>6. QED BY <1>1, <1>3, <1>5, <2>1, <2>3, <2>4, <2>5 DEF w
<1>8. Encodes(p) = whole(v) /\ Encodes(p) \o u = whole(v \o u)
  <2> DEFINE ae == a \o e
  <2>1. Encodes(p) = ae \o v
    BY DEF Encodes, a, v
  <2>2. ae \in Seq(Char)
    BY <1>2
  <2>3. whole(v) = ae \o v /\ whole(v \o u) = ae \o (v \o u)
    BY <1>4a
  <2> HIDE DEF ae, e
  <2>4. (ae \o v) \o u = ae \o (v \o u)
    <3>1. ae \in Seq(Char) /\ v \in Seq(Char) /\ u \in Seq(Char)
      BY <1>2, <2>2
    <3>2. QED BY <3>1, SMTT(30)
  <2>5. QED BY <2>1, <2>3, <2>4
<1>9. QED BY <1>6, <1>7, <1>8 DEF u, v


----------------------------------------------------------------------------
(* Parsing what was encoded *)

\* Whatever separates it, a pair adds its encoding and at least a character.
LEMMA PairAdded ==
  ASSUME NEW out \in Seq(Char), NEW p \in Seq(Char) \X Seq(Char)
  PROVE  LET sep == IF out = << >> THEN << >> ELSE <<Ampersand>> IN
         /\ sep \in Seq(Char) /\ Encodes(p) \in Seq(Char)
         /\ WithPair(out, p) = out \o (sep \o Encodes(p))
         /\ WithPair(out, p) \in Seq(Char) /\ Len(WithPair(out, p)) >= Len(out) + 1
<1> DEFINE sep == IF out = << >> THEN << >> ELSE <<Ampersand>>
           a == Encoded(p[1])
           v == Encoded(p[2])
           e == <<Equals>>
<1>1. a \in Seq(Quiet) /\ v \in Seq(Quiet)
  BY PairKeepsQuiet
<1>2. <<Ampersand>> \in Seq(Char) /\ e \in Seq(Char) /\ Len(e) = 1 /\ << >> \in Seq(Char)
  BY SpecialChars
<1>3. WithPair(out, p) = (((out \o sep) \o a) \o e) \o v /\ Encodes(p) = (a \o e) \o v
  BY DEF WithPair, Encodes
<1>4. sep \in Seq(Char)
  BY <1>2
<1> HIDE DEF sep, a, v, e
<1>5. a \in Seq(Char) /\ v \in Seq(Char)
  BY <1>1, QuietIs
<1>6. (((out \o sep) \o a) \o e) \o v = out \o (sep \o ((a \o e) \o v))
  <2> DEFINE ae == a \o e
             os == out \o sep
             aev == ae \o v
  <2>1. ae \in Seq(Char) /\ os \in Seq(Char) /\ aev \in Seq(Char)
    BY <1>2, <1>4, <1>5
  <2>2. (os \o a) \o e = os \o ae
    <3>1. os \in Seq(Char) /\ a \in Seq(Char) /\ e \in Seq(Char)
      BY <1>2, <1>5, <2>1
    <3> HIDE DEF os
    <3>2. QED BY <3>1, SMTT(30)
  <2>3. (os \o ae) \o v = os \o aev
    <3>1. os \in Seq(Char) /\ ae \in Seq(Char) /\ v \in Seq(Char)
      BY <1>5, <2>1
    <3> HIDE DEF os, ae
    <3>2. QED BY <3>1, SMTT(30)
  <2>4. os \o aev = out \o (sep \o aev)
    <3> HIDE DEF aev, ae
    <3>1. out \in Seq(Char) /\ sep \in Seq(Char) /\ aev \in Seq(Char)
      BY <1>4, <2>1
    <3>2. QED BY <3>1, SMTT(30)
  <2> HIDE DEF ae, aev
  <2>5. QED BY <2>2, <2>3, <2>4 DEF ae, aev
<1>7. /\ (a \o e) \o v \in Seq(Char)
      /\ Len((a \o e) \o v) >= 1 /\ Len((a \o e) \o v) \in Nat
  <2> DEFINE ae == a \o e
  <2>1. ae \in Seq(Char) /\ Len(ae) = Len(a) + 1 /\ Len(a) \in Nat
    <3>1. a \in Seq(Char) /\ e \in Seq(Char) /\ Len(e) = 1
      BY <1>2, <1>5
    <3>2. Len(a \o e) = Len(a) + Len(e) /\ a \o e \in Seq(Char)
      BY <3>1, Placed
    <3>a. Len(a) \in Nat
      BY <3>1
    <3>3. QED BY <3>1, <3>2, <3>a
  <2> HIDE DEF ae
  <2>2. ae \o v \in Seq(Char) /\ Len(ae \o v) = Len(ae) + Len(v) /\ Len(v) \in Nat
    BY <1>5, <2>1
  <2>3. QED BY <2>1, <2>2 DEF ae
<1> DEFINE w == (a \o e) \o v
<1>8. out \o (sep \o w) \in Seq(Char) /\ Len(out \o (sep \o w)) >= Len(out) + 1
  <2> HIDE DEF w
  <2>1. w \in Seq(Char) /\ Len(w) >= 1 /\ Len(w) \in Nat
    BY <1>7 DEF w
  <2>2. QED BY <1>4, <2>1
<1>9. QED BY <1>3, <1>4, <1>6, <1>7, <1>8 DEF sep

\* The characters between pairs k and k + 1.
Between(k) == IF k = 1 THEN << >> ELSE <<Ampersand>>

\* The blocks a form is made of, and what is left behind each.
LEMMA FormBlocks ==
  ASSUME NEW pairs \in Form
  PROVE  \E T :
           /\ Leaves(Char, Len(pairs), [k \in 1 .. Len(pairs) |-> Between(k) \o Encodes(pairs[k])], T)
           /\ FormData(pairs) = T[0] /\ Len(FormData(pairs)) >= Len(pairs)
           /\ FormData(pairs) \in Seq(Char)
<1> DEFINE n == Len(pairs)
           S == Seq(Char)
           b == [k \in 1 .. n |-> Between(k) \o Encodes(pairs[k])]
<1>1. n \in Nat /\ \A k \in 1 .. n : pairs[k] \in Seq(Char) \X Seq(Char)
  BY DEF Form
<1>2. << >> \in S /\ pairs \in Seq(Seq(Char) \X Seq(Char))
  BY DEF Form
<1>3. \A k \in 1 .. n : \A x \in S : WithPair(x, pairs[k]) \in S
  BY <1>1, PairAdded
<1>4. PICK f : /\ f \in [0 .. n -> S] /\ f[0] = << >>
               /\ \A k \in 1 .. n : f[k] = WithPair(f[k - 1], pairs[k])
               /\ FormData(pairs) = f[n]
  <2> HIDE DEF S
  <2>1. FormRuns(pairs, S)
    BY <1>2, <1>3, FormSteps
  <2>2. QED BY <2>1 DEF FormRuns
<1> HIDE DEF n
<1>5. \A k \in 0 .. n : Len(f[k]) >= k
  <2> DEFINE P == [k \in 0 .. n |-> {y \in S : Len(y) >= k}]
  <2>1. f[0] \in P[0]
    BY <1>1, <1>2, <1>4
  <2>2. ASSUME NEW k \in 1 .. n, f[k - 1] \in P[k - 1] PROVE f[k] \in P[k]
    <3>1. k - 1 \in 0 .. n /\ k \in 0 .. n
      BY <1>1
    <3>2. f[k - 1] \in S /\ Len(f[k - 1]) >= k - 1
      BY <2>2, <3>1
    <3>3. f[k] \in S /\ Len(f[k]) >= Len(f[k - 1]) + 1
      BY <1>1, <1>4, <3>2, PairAdded
    <3>4. Len(f[k]) >= k
      BY <3>2, <3>3
    <3>5. QED BY <3>1, <3>3, <3>4
  <2> HIDE DEF P
  <2>3. \A k \in 0 .. n : f[k] \in P[k]
    BY <1>1, <2>1, <2>2, Reaches
  <2>4. QED BY <2>3 DEF P
<1>6. ASSUME NEW k \in 1 .. n
      PROVE  f[k] = f[k - 1] \o b[k] /\ b[k] \in Seq(Char)
  <2>1. k - 1 \in 0 .. n /\ pairs[k] \in Seq(Char) \X Seq(Char)
    BY <1>1
  <2>2. f[k - 1] \in Seq(Char) /\ Len(f[k - 1]) >= k - 1
    BY <1>4, <1>5, <2>1
  <2>3. f[k - 1] = << >> <=> k = 1
    <3>1. k = 1 => f[k - 1] = << >>
      BY <1>4
    <3>2. k # 1 => Len(f[k - 1]) >= 1
      BY <2>2
    <3>3. QED BY <3>1, <3>2
  <2>4. /\ (IF f[k - 1] = << >> THEN << >> ELSE <<Ampersand>>) = Between(k)
    BY <2>3 DEF Between
  <2>5. /\ Between(k) \in Seq(Char) /\ Encodes(pairs[k]) \in Seq(Char)
        /\ WithPair(f[k - 1], pairs[k]) = f[k - 1] \o (Between(k) \o Encodes(pairs[k]))
    BY <2>1, <2>2, <2>4, PairAdded
  <2>6. f[k] = WithPair(f[k - 1], pairs[k])
    BY <1>4
  <2>7. b[k] = Between(k) \o Encodes(pairs[k])
    OBVIOUS
  <2> HIDE DEF b
  <2>8. QED BY <2>5, <2>6, <2>7
<1>7. Joins(Char, n, f, b)
  <2>1. b = [k \in 1 .. n |-> b[k]]
    OBVIOUS
  <2> HIDE DEF b
  <2>2. b \in [1 .. n -> Seq(Char)]
    BY <1>6, <2>1
  <2>3. QED BY <1>4, <1>6, <2>2 DEF Joins
<1> HIDE DEF b
<1>8. PICK T : Leaves(Char, n, b, T) /\ (f[0] = << >> => T[0] = f[n])
  BY <1>1, <1>7, Tails
<1>9. n \in 0 .. n
  BY <1>1
<1>10. Len(FormData(pairs)) >= n /\ FormData(pairs) \in Seq(Char) /\ FormData(pairs) = T[0]
  BY <1>4, <1>5, <1>8, <1>9
<1>11. QED BY <1>8, <1>10 DEF n, b

\* The loop of parseFormInput after k of the pairs.
After(pairs, T, k) ==
  Read(SubSeq(pairs, 1, k),
       IF k = Len(pairs) THEN Encoded(pairs[k][2]) ELSE Encodes(pairs[k + 1]) \o T[k + 1],
       k # Len(pairs))

\* One turn goes from one pair to the next, and stays behind the last.
LEMMA NextPair ==
  ASSUME NEW pairs \in Form, NEW T, NEW k \in 1 .. Len(pairs),
         Leaves(Char, Len(pairs), [j \in 1 .. Len(pairs) |-> Between(j) \o Encodes(pairs[j])], T)
  PROVE  TakePair(After(pairs, T, k - 1)) = After(pairs, T, k)
<1> DEFINE n == Len(pairs)
           b == [j \in 1 .. n |-> Between(j) \o Encodes(pairs[j])]
           out == SubSeq(pairs, 1, k - 1)
           p == pairs[k]
<1>1. n \in Nat /\ p \in Seq(Char) \X Seq(Char) /\ SubSeq(pairs, 1, k) = Append(out, p)
  BY FrontGrows DEF Form
<1>2. /\ T \in [0 .. n -> Seq(Char)] /\ T[n] = << >>
      /\ \A j \in 1 .. n : T[j - 1] = b[j] \o T[j]
  BY DEF Leaves
<1>3. After(pairs, T, k - 1) = Read(out, Encodes(p) \o T[k], TRUE)
  <2>1. k - 1 # n /\ (k - 1) + 1 = k
    BY <1>1
  <2>2. QED BY <2>1 DEF After
<1> HIDE DEF out, p
<1>4. CASE k = n
  <2>1. Encodes(p) \o T[k] = Encodes(p)
    <3>1. Encodes(p) \in Seq(Char) /\ T[k] = << >>
      BY <1>1, <1>2, <1>4, PairAdded, Nothing
    <3>2. QED BY <3>1
  <2>2. After(pairs, T, k) = Read(Append(out, p), Encoded(p[2]), FALSE)
    BY <1>1, <1>4 DEF After, p
  <2>3. << >> \in Seq(Char)
    OBVIOUS
  <2>4. QED BY <1>1, <1>3, <2>1, <2>2, <2>3, TakesPair
<1>5. CASE k # n
  <2>1. k + 1 \in 1 .. n /\ (k + 1) - 1 = k /\ k + 1 # 1 /\ k + 1 \in 0 .. n
    BY <1>1, <1>5
  <2> DEFINE q == pairs[k + 1]
             t == Encodes(q) \o T[k + 1]
  <2>2. Between(k + 1) = <<Ampersand>>
    BY <2>1 DEF Between
  <2>3. T[k] = b[k + 1] \o T[k + 1]
    BY <1>2, <2>1
  <2>4. b[k + 1] = <<Ampersand>> \o Encodes(q)
    BY <2>1, <2>2
  <2>5. T[k + 1] \in Seq(Char) /\ Encodes(q) \in Seq(Char) /\ <<Ampersand>> \in Seq(Char)
    <3>1. q \in Seq(Char) \X Seq(Char)
      BY <2>1 DEF Form
    <3>2. << >> \in Seq(Char)
      OBVIOUS
    <3>3. Encodes(q) \in Seq(Char)
      BY <3>1, <3>2, PairAdded
    <3>4. T[k + 1] \in Seq(Char)
      BY <1>2, <2>1
    <3>5. QED BY <3>3, <3>4, SpecialChars
  <2>6. T[k] = <<Ampersand>> \o t /\ t \in Seq(Char)
    <3> DEFINE d == <<Ampersand>>
               x == Encodes(q)
               y == T[k + 1]
    <3>1. d \in Seq(Char) /\ x \in Seq(Char) /\ y \in Seq(Char)
      BY <2>5
    <3>2. T[k] = (d \o x) \o y
      BY <2>3, <2>4
    <3> HIDE DEF d, x, y
    <3>3. (d \o x) \o y = d \o (x \o y)
      BY <3>1, SMTT(30)
    <3>4. x \o y \in Seq(Char)
      BY <3>1
    <3>5. QED BY <3>2, <3>3, <3>4 DEF d, x, y
  <2>7. After(pairs, T, k) = Read(Append(out, p), t, TRUE)
    BY <1>1, <1>5 DEF After
  <2> HIDE DEF t, b
  <2>8. QED BY <1>1, <1>3, <2>6, <2>7, TakesPair
<1>6. QED BY <1>4, <1>5

LEMMA StaysRead ==
  ASSUME NEW entries, NEW rest
  PROVE  TakePair(Read(entries, rest, FALSE)) = Read(entries, rest, FALSE)
BY DEF TakePair, Read

\* Whatever form a browser fills in, parseFormInput finds it again.
THEOREM ParsesFormData ==
  ASSUME NEW pairs \in Form
  PROVE  parseFormInput(FormData(pairs)) = pairs
<1> DEFINE n == Len(pairs)
           data == FormData(pairs)
           L == Len(data)
           base == Read(<< >>, data, TRUE)
<1>1. n \in Nat /\ pairs \in Seq(Seq(Char) \X Seq(Char))
  BY DEF Form
<1>2. PICK T : /\ Leaves(Char, n, [k \in 1 .. n |-> Between(k) \o Encodes(pairs[k])], T)
               /\ data = T[0] /\ L >= n /\ data \in Seq(Char)
  BY FormBlocks
<1>3. parseFormInput(data) = TakenAll(base, data).entries
  BY DEF parseFormInput, TakenAll, Read
<1>4. ASSUME NEW S, base \in S, \A k \in 1 .. L : \A x \in S : TakePair(x) \in S
      PROVE  \E g : /\ g[0] = base
                    /\ \A k \in 1 .. L : g[k] = TakePair(g[k - 1])
                    /\ TakenAll(base, data) = g[L]
  <2> HIDE DEF base, data
  <2>1. TakenRuns(base, data, S)
    BY <1>2, <1>4, TakenSteps
  <2>2. QED BY <2>1 DEF TakenRuns
<1>5. CASE n = 0
  <2>1. T[0] = << >>
    BY <1>2, <1>5 DEF Leaves
  <2>2. L = 0
    BY <1>2, <2>1
  <2> DEFINE S == {base}
  <2>3. base \in S /\ \A k \in 1 .. L : \A x \in S : TakePair(x) \in S
    BY <2>2
  <2>4. TakenAll(base, data) = base
    <3> HIDE DEF base, S, data
    <3>1. PICK g : g[0] = base /\ TakenAll(base, data) = g[L]
      BY <1>4, <2>3
    <3>2. QED BY <2>2, <3>1
  <2>5. pairs = << >>
    BY <1>1, <1>5
  <2>6. QED BY <1>3, <2>4, <2>5 DEF Read
<1>6. CASE n # 0
  <2> DEFINE st == [k \in 0 .. n |-> After(pairs, T, k)]
             S == {st[k] : k \in 0 .. n}
             P == [i \in 0 .. L |-> IF i <= n THEN {st[i]} ELSE {st[n]}]
  <2>1. st[0] = base
    <3>1. T[0] = Encodes(pairs[1]) \o T[1]
      <4> DEFINE b == [k \in 1 .. n |-> Between(k) \o Encodes(pairs[k])]
      <4>1. 1 \in 1 .. n /\ 1 - 1 = 0
        BY <1>1, <1>6
      <4>2. T[0] = b[1] \o T[1]
        BY <1>2, <4>1 DEF Leaves
      <4>3. b[1] = << >> \o Encodes(pairs[1])
        BY <4>1 DEF Between
      <4>4. Encodes(pairs[1]) \in Seq(Char)
        <5>1. pairs[1] \in Seq(Char) \X Seq(Char) /\ << >> \in Seq(Char)
          BY <1>1, <4>1
        <5>2. QED BY <5>1, PairAdded
      <4>5. << >> \o Encodes(pairs[1]) = Encodes(pairs[1])
        BY <4>4, Nothing
      <4>6. QED BY <4>2, <4>3, <4>5
    <3>2. SubSeq(pairs, 1, 0) = << >> /\ 0 \in 0 .. n /\ 0 + 1 = 1 /\ 0 # n
      BY <1>1, <1>6
    <3>3. st[0] = After(pairs, T, 0)
      BY <3>2
    <3>4. QED BY <1>2, <3>1, <3>2, <3>3 DEF After
  <2>2. ASSUME NEW k \in 1 .. n PROVE TakePair(st[k - 1]) = st[k]
    <3>1. k - 1 \in 0 .. n /\ k \in 0 .. n
      BY <1>1
    <3>2. st[k - 1] = After(pairs, T, k - 1) /\ st[k] = After(pairs, T, k)
      BY <3>1
    <3> HIDE DEF st
    <3>3. QED BY <1>2, <3>2, NextPair
  <2>3. n \in 0 .. n /\ TakePair(st[n]) = st[n] /\ st[n].entries = pairs
    <3>1. n \in 0 .. n
      BY <1>1
    <3>2. st[n] = Read(SubSeq(pairs, 1, n), Encoded(pairs[n][2]), FALSE)
      BY <3>1 DEF After
    <3>3. SubSeq(pairs, 1, n) = pairs
      BY <1>1
    <3> HIDE DEF st
    <3>4. TakePair(st[n]) = st[n]
      BY <3>2, StaysRead
    <3>5. QED BY <3>1, <3>2, <3>3, <3>4 DEF Read
  <2> HIDE DEF st
  <2>4. \A x \in S : TakePair(x) \in S
    <3>1. ASSUME NEW k \in 0 .. n PROVE TakePair(st[k]) \in S
      <4>1. CASE k = n
        BY <2>3, <4>1
      <4>2. CASE k # n
        <5>1. k + 1 \in 1 .. n /\ (k + 1) - 1 = k /\ k + 1 \in 0 .. n
          BY <1>1, <4>2
        <5>2. TakePair(st[k]) = st[k + 1]
          BY <2>2, <5>1
        <5>3. QED BY <5>1, <5>2
      <4>3. QED BY <4>1, <4>2
    <3>2. QED BY <3>1
  <2>5. base \in S
    <3>1. 0 \in 0 .. n
      BY <1>1
    <3>2. QED BY <2>1, <3>1
  <2>6. PICK g : /\ g[0] = base
                 /\ \A k \in 1 .. L : g[k] = TakePair(g[k - 1])
                 /\ TakenAll(base, data) = g[L]
    <3> HIDE DEF S, base, data
    <3>1. QED BY <1>4, <2>4, <2>5
  <2>7. L \in Nat /\ L >= n /\ 0 \in 0 .. L /\ L \in 0 .. L
    BY <1>1, <1>2
  <2>8. g[0] \in P[0]
    <3>1. P[0] = {st[0]}
      BY <1>1, <2>7
    <3> HIDE DEF P, base
    <3>2. QED BY <2>1, <2>6, <3>1
  <2>9. ASSUME NEW i \in 1 .. L, g[i - 1] \in P[i - 1] PROVE g[i] \in P[i]
    <3>1. i - 1 \in 0 .. L /\ i \in 0 .. L /\ g[i] = TakePair(g[i - 1])
      BY <2>6, <2>7
    <3>2. CASE i <= n
      <4>1. i \in 1 .. n /\ i - 1 <= n
        BY <1>1, <2>7, <3>2
      <4>2. g[i - 1] = st[i - 1] /\ P[i] = {st[i]}
        BY <2>9, <3>1, <3>2, <4>1
      <4>3. QED BY <2>2, <3>1, <4>1, <4>2
    <3>3. CASE ~(i <= n)
      <4>1. P[i] = {st[n]} /\ P[i - 1] = {st[n]}
        <5>1. i - 1 <= n => i - 1 = n
          BY <1>1, <2>7, <3>3
        <5>2. QED BY <3>1, <3>3, <5>1
      <4> HIDE DEF P
      <4>2. g[i - 1] = st[n]
        BY <2>9, <4>1
      <4>3. QED BY <2>3, <3>1, <4>1, <4>2
    <3>4. QED BY <3>2, <3>3
  <2>10. g[L] \in P[L]
    <3> HIDE DEF P, L, n
    <3>1. QED BY <2>7, <2>8, <2>9, Reaches
  <2>11. g[L] = st[n]
    <3>1. L <= n => L = n
      BY <1>1, <2>7
    <3>2. P[L] = {st[n]}
      BY <2>7, <3>1
    <3> HIDE DEF P
    <3>3. QED BY <2>10, <3>2
  <2> HIDE DEF base
  <2>12. QED BY <1>3, <2>3, <2>6, <2>11
<1>7. QED BY <1>5, <1>6


----------------------------------------------------------------------------
(* The map of parameters *)

FirstNamed(pairs, name) == SelectInSeq(pairs, LAMBDA p : to_lower(p[1]) = name)

LEMMA FirstOfName ==
  ASSUME NEW pairs, NEW k \in 1 .. Len(pairs)
  PROVE  LET name == to_lower(pairs[k][1])
             f == FirstNamed(pairs, name) IN
         /\ f \in 1 .. Len(pairs) /\ to_lower(pairs[f][1]) = name
         /\ \A i \in 1 .. Len(pairs) : to_lower(pairs[i][1]) = name => f <= i
<1> DEFINE name == to_lower(pairs[k][1])
           I == {i \in 1 .. Len(pairs) : to_lower(pairs[i][1]) = name}
<1>1. I \in SUBSET (Nat \ {0}) /\ k \in I
  OBVIOUS
<1>2. FirstNamed(pairs, name) = Min(I)
  BY <1>1 DEF FirstNamed, SelectInSeq
<1>3. Min(I) \in I /\ \A i \in I : Min(I) <= i
  <2> HIDE DEF I
  <2>1. QED BY <1>1, FirstSuch
<1>4. QED BY <1>2, <1>3

\* What is in the map after k insertions.
Known(pairs, k) ==
  [name \in {to_lower(pairs[i][1]) : i \in 1 .. k} |-> pairs[FirstNamed(pairs, name)][2]]

LEMMA KnownGrows ==
  ASSUME NEW pairs, Len(pairs) \in Nat, NEW k \in 1 .. Len(pairs)
  PROVE  InsertPair(Known(pairs, k - 1), pairs[k]) = Known(pairs, k)
<1> DEFINE key == to_lower(pairs[k][1])
           names(j) == {to_lower(pairs[i][1]) : i \in 1 .. j}
           v(name) == pairs[FirstNamed(pairs, name)][2]
           old == Known(pairs, k - 1)
<1>1. names(k) = names(k - 1) \cup {key}
  <2>1. 1 .. k = (1 .. k - 1) \cup {k}
    OBVIOUS
  <2>2. QED BY <2>1
<1>2. old = [name \in names(k - 1) |-> v(name)] /\ DOMAIN old = names(k - 1)
  BY DEF Known
<1>3. Known(pairs, k) = [name \in names(k) |-> v(name)]
  BY DEF Known
<1>4. key \notin names(k - 1) => v(key) = pairs[k][2]
  <2> SUFFICES ASSUME key \notin names(k - 1) PROVE FirstNamed(pairs, key) = k
    OBVIOUS
  <2> DEFINE f == FirstNamed(pairs, key)
  <2>1. f \in 1 .. Len(pairs) /\ to_lower(pairs[f][1]) = key /\ f <= k
    BY FirstOfName
  <2>2. f \notin 1 .. k - 1
    BY <2>1
  <2> HIDE DEF f
  <2>3. f = k
    BY <2>1, <2>2
  <2>4. QED BY <2>3 DEF f
<1>5. InsertPair(old, pairs[k])
        = [name \in DOMAIN old \cup {key} |-> IF name \in DOMAIN old THEN old[name] ELSE pairs[k][2]]
  BY DEF InsertPair, Insert
<1> HIDE DEF names, v, old, key
<1>6. \A name \in names(k - 1) : old[name] = v(name)
  BY <1>2
<1>7. \A name \in names(k) : (IF name \in names(k - 1) THEN old[name] ELSE pairs[k][2]) = v(name)
  BY <1>1, <1>4, <1>6
<1>8. InsertPair(old, pairs[k])
        = [name \in names(k) |-> IF name \in names(k - 1) THEN old[name] ELSE pairs[k][2]]
  BY <1>1, <1>2, <1>5
<1>9. QED BY <1>3, <1>7, <1>8 DEF old

LEMMA InsertsAll ==
  ASSUME NEW pairs \in Form
  PROVE  InsertedAll(NoParams, pairs) = Typed(pairs)
<1> DEFINE n == Len(pairs)
           st == [k \in 0 .. n |-> Known(pairs, k)]
           keys == {to_lower(pairs[k][1]) : k \in 1 .. n}
           S == UNION {[D -> Seq(Char)] : D \in SUBSET keys}
           P == [k \in 0 .. n |-> {st[k]}]
<1>1. n \in Nat /\ pairs \in Seq(Seq(Char) \X Seq(Char)) /\ DOMAIN pairs = 1 .. n
  BY DEF Form
<1>2. st[0] = NoParams
  <2>1. 0 \in 0 .. n /\ 1 .. 0 = {}
    BY <1>1
  <2>2. st[0] = Known(pairs, 0)
    BY <2>1
  <2>3. Known(pairs, 0) = [name \in {} |-> pairs[FirstNamed(pairs, name)][2]]
    BY <2>1 DEF Known
  <2>4. QED BY <2>2, <2>3 DEF NoParams
<1>3. st[n] = Typed(pairs)
  <2>1. n \in 0 .. n
    BY <1>1
  <2>2. Typed(pairs) = [name \in {to_lower(pairs[k][1]) : k \in DOMAIN pairs} |->
                          pairs[FirstNamed(pairs, name)][2]]
    BY DEF Typed, FirstNamed
  <2>3. Typed(pairs) = Known(pairs, n)
    BY <1>1, <2>2 DEF Known
  <2>4. QED BY <2>1, <2>3
<1>4. ASSUME NEW k \in 1 .. n PROVE InsertPair(st[k - 1], pairs[k]) = st[k]
  <2>1. k - 1 \in 0 .. n /\ k \in 0 .. n
    BY <1>1
  <2>2. st[k - 1] = Known(pairs, k - 1) /\ st[k] = Known(pairs, k)
    BY <2>1
  <2> HIDE DEF st
  <2>3. QED BY <1>1, <2>2, KnownGrows
<1> HIDE DEF st
<1>5. NoParams \in S
  <2>1. NoParams \in [{} -> Seq(Char)] /\ {} \in SUBSET keys
    BY DEF NoParams
  <2>2. QED BY <2>1
<1>6. ASSUME NEW k \in 1 .. n, NEW x \in S PROVE InsertPair(x, pairs[k]) \in S
  <2>1. PICK D \in SUBSET keys : x \in [D -> Seq(Char)]
    BY <1>6
  <2> DEFINE key == to_lower(pairs[k][1])
             v == pairs[k][2]
             y == [name \in DOMAIN x \cup {key} |-> IF name \in DOMAIN x THEN x[name] ELSE v]
  <2>2. InsertPair(x, pairs[k]) = y
    BY DEF InsertPair, Insert
  <2>3. key \in keys
    OBVIOUS
  <2>4. v \in Seq(Char)
    <3>1. pairs[k] \in Seq(Char) \X Seq(Char)
      BY <1>1
    <3>2. QED BY <3>1
  <2> HIDE DEF key, v, keys
  <2>5. y \in [D \cup {key} -> Seq(Char)]
    BY <2>1, <2>4
  <2>6. D \cup {key} \in SUBSET keys
    BY <2>3
  <2>7. QED BY <2>2, <2>5, <2>6
<1>7. PICK g : /\ g[0] = NoParams
               /\ \A k \in 1 .. n : g[k] = InsertPair(g[k - 1], pairs[k])
               /\ InsertedAll(NoParams, pairs) = g[n]
  <2> HIDE DEF S
  <2>1. InsertedRuns(NoParams, pairs, S)
    BY <1>1, <1>5, <1>6, InsertedSteps
  <2>2. QED BY <2>1 DEF InsertedRuns
<1>8. g[0] \in P[0]
  <2>1. P[0] = {st[0]}
    BY <1>1
  <2>2. QED BY <1>2, <1>7, <2>1
<1>9. ASSUME NEW k \in 1 .. n, g[k - 1] \in P[k - 1] PROVE g[k] \in P[k]
  <2>1. P[k - 1] = {st[k - 1]} /\ P[k] = {st[k]}
    BY <1>1
  <2> HIDE DEF P
  <2>2. QED BY <1>4, <1>7, <1>9, <2>1
<1>10. g[n] \in P[n] /\ P[n] = {st[n]}
  <2>1. n \in 0 .. n
    BY <1>1
  <2>2. P[n] = {st[n]}
    BY <2>1
  <2> HIDE DEF P, n
  <2>3. \A k \in 0 .. n : g[k] \in P[k]
    BY <1>1, <1>8, <1>9, Reaches
  <2>4. QED BY <2>1, <2>2, <2>3
<1>11. QED BY <1>3, <1>7, <1>10

\* The parameters of two forms are those of their pairs, first come first.
THEOREM QmapIsTyped ==
  ASSUME NEW posted \in Form, NEW query \in Form
  PROVE  qmap(FormData(posted), FormData(query)) = Typed(posted \o query)
<1>1. parseFormInput(FormData(posted)) = posted /\ parseFormInput(FormData(query)) = query
  BY ParsesFormData
<1>2. posted \o query \in Form
  BY DEF Form
<1>3. qmap(FormData(posted), FormData(query))
        = InsertedAll(NoParams, parseFormInput(FormData(posted)) \o parseFormInput(FormData(query)))
  BY DEF qmap, InsertedAll
<1>4. QED BY <1>1, <1>2, <1>3, InsertsAll

----------------------------------------------------------------------------
(* Buffers *)

\* What arithmetic needs of a buffer's fields.
LEMMA Indices ==
  ASSUME NEW E, NEW b \in BufferOf(E)
  PROVE  /\ b.r \in Nat /\ b.w \in Nat /\ Len(b.data) \in Nat /\ kCheapPrepend \in Nat
         /\ kCheapPrepend <= b.r /\ b.r <= b.w /\ b.w <= Len(b.data)
BY BufferAssumption DEF BufferOf

\* Where a byte is that makeSpace copies, and where one of an appended string.
LEMMA Copied ==
  ASSUME NEW p \in Nat, NEW r \in Nat, NEW w \in Nat, NEW l \in Nat, r <= w, w <= l,
         NEW k \in 1 .. l, p < k, k <= p + (w - r)
  PROVE  (k - p) + r \in 1 .. l
OBVIOUS

LEMMA Beyond ==
  ASSUME NEW r \in Nat, NEW w \in Nat, NEW l \in Nat, r <= w,
         NEW k \in 1 .. (w - r) + l, ~(k <= w - r)
  PROVE  k - (w - r) \in 1 .. l /\ r + k = w + (k - (w - r))
OBVIOUS

\* A buffer's fields, as the provers need them.
LEMMA Fields ==
  ASSUME NEW E, NEW b \in BufferOf(E)
  PROVE  /\ b.data \in Seq(E) /\ b.r \in Nat /\ b.w \in Nat /\ Len(b.data) \in Nat
         /\ kCheapPrepend \in Nat
         /\ kCheapPrepend <= b.r /\ b.r <= b.w /\ b.w <= Len(b.data)
         /\ DOMAIN b.data = 1 .. Len(b.data)
         /\ \A k \in 1 .. Len(b.data) : b.data[k] \in E
BY BufferAssumption DEF BufferOf

\* The waiting bytes, one by one.
LEMMA ContentIs ==
  ASSUME NEW E, NEW b \in BufferOf(E)
  PROVE  /\ Content(b) \in Seq(E) /\ Len(Content(b)) = b.w - b.r
         /\ \A k \in 1 .. b.w - b.r : Content(b)[k] = b.data[b.r + k]
<1> DEFINE d == b.data
           r == b.r
           w == b.w
<1>1. d \in Seq(E) /\ r \in Nat /\ w \in Nat /\ r <= w /\ w <= Len(d)
  BY Fields
<1>2. Content(b) = SubSeq(d, r + 1, w)
  BY DEF Content
<1> HIDE DEF d, r, w
<1>3. /\ SubSeq(d, r + 1, w) \in Seq(E) /\ Len(SubSeq(d, r + 1, w)) = w - r
      /\ \A k \in 1 .. w - r : SubSeq(d, r + 1, w)[k] = d[r + k]
  BY <1>1, Part
<1>4. /\ Content(b) \in Seq(E) /\ Len(Content(b)) = w - r
      /\ \A k \in 1 .. w - r : Content(b)[k] = d[r + k]
  BY <1>2, <1>3
<1>5. QED BY <1>4 DEF d, r, w

\* Two buffers with the same number of the same bytes waiting.
LEMMA SameContent ==
  ASSUME NEW E, NEW a \in BufferOf(E), NEW b \in BufferOf(E), a.w - a.r = b.w - b.r,
         \A k \in 1 .. b.w - b.r : a.data[a.r + k] = b.data[b.r + k]
  PROVE  Content(a) = Content(b)
<1>1. /\ Content(a) \in Seq(E) /\ Len(Content(a)) = b.w - b.r
      /\ Content(b) \in Seq(E) /\ Len(Content(b)) = b.w - b.r
      /\ \A k \in 1 .. b.w - b.r : Content(a)[k] = Content(b)[k]
  BY ContentIs
<1>2. QED BY <1>1

LEMMA BufferMade ==
  ASSUME NEW E, NEW data \in Seq(E), NEW r \in Nat, NEW w \in Nat,
         kCheapPrepend <= r, r <= w, w <= Len(data)
  PROVE  [data |-> data, r |-> r, w |-> w] \in BufferOf(E)
BY DEF BufferOf

----------------------------------------------------------------------------
(* makeSpace *)

\* A longer vector: what was there stays where it was.
LEMMA LongerOK ==
  ASSUME NEW E, 0 \in E, NEW b \in BufferOf(E), NEW n \in Nat, writableBytes(b) < n
  PROVE  /\ Longer(b, n) \in BufferOf(E) /\ Content(Longer(b, n)) = Content(b)
         /\ writableBytes(Longer(b, n)) >= n
<1> DEFINE d == [k \in 1 .. b.w + n |-> IF k <= Len(b.data) THEN b.data[k] ELSE 0]
           a == [data |-> d, r |-> b.r, w |-> b.w]
<1>1. d \in Seq(E) /\ Len(d) = b.w + n
  <2>1. d \in [1 .. b.w + n -> E] /\ b.w + n \in Nat
    BY Fields
  <2>2. QED BY <2>1
<1>2. \A k \in 1 .. Len(b.data) : k <= b.w => d[k] = b.data[k]
  BY Fields
<1>3. Longer(b, n) = a
  BY DEF Longer
<1> HIDE DEF d
<1>4. a \in BufferOf(E)
  BY <1>1, Fields, BufferMade
<1>5. \A k \in 1 .. b.w - b.r : a.data[a.r + k] = b.data[b.r + k]
  <2> SUFFICES ASSUME NEW k \in 1 .. b.w - b.r PROVE d[b.r + k] = b.data[b.r + k]
    OBVIOUS
  <2>1. b.r + k \in 1 .. Len(b.data) /\ b.r + k <= b.w
    BY Indices
  <2>2. QED BY <1>2, <2>1
<1>6. Content(a) = Content(b)
  BY <1>4, <1>5, SameContent
<1>7. writableBytes(a) = n
  <2>1. writableBytes(a) = Len(d) - b.w
    BY DEF writableBytes
  <2>2. QED BY <1>1, <2>1, Indices
<1>8. QED BY <1>3, <1>4, <1>6, <1>7

\* The bytes moved to the front: only when the reader left room there, so that
\* none is written over before it is copied.
LEMMA MovedOK ==
  ASSUME NEW E, NEW b \in BufferOf(E), NEW n \in Nat,
         writableBytes(b) < n, RoomInFront(b, n)
  PROVE  /\ Moved(b) \in BufferOf(E) /\ Content(Moved(b)) = Content(b)
         /\ writableBytes(Moved(b)) >= n
         /\ kCheapPrepend < b.r
<1> DEFINE m == b.w - b.r
           d == [k \in DOMAIN b.data |->
                   IF k > kCheapPrepend /\ k <= kCheapPrepend + m
                   THEN b.data[k - kCheapPrepend + b.r] ELSE b.data[k]]
           a == [data |-> d, r |-> kCheapPrepend, w |-> kCheapPrepend + m]
<1>1. kCheapPrepend < b.r /\ Len(b.data) - b.w + b.r >= n + kCheapPrepend
  BY Indices DEF RoomInFront, writableBytes, prependableBytes
<1>2. m \in Nat /\ kCheapPrepend + m \in Nat /\ kCheapPrepend + m <= Len(b.data)
  BY <1>1, Indices
<1>3. d \in Seq(E) /\ Len(d) = Len(b.data)
  <2>0. \A k \in 1 .. Len(b.data) : k > kCheapPrepend /\ k <= kCheapPrepend + m
          => k - kCheapPrepend + b.r \in 1 .. Len(b.data)
    BY Indices, Copied
  <2>1. d \in [1 .. Len(b.data) -> E]
    BY <2>0, Fields
  <2> HIDE DEF d
  <2>2. QED BY <2>1, Fields
<1>4. \A k \in 1 .. m : d[kCheapPrepend + k] = b.data[b.r + k]
  <2> SUFFICES ASSUME NEW k \in 1 .. m PROVE d[kCheapPrepend + k] = b.data[b.r + k]
    OBVIOUS
  <2>0. kCheapPrepend + k \in 1 .. Len(b.data)
    BY <1>2, Indices
  <2>1. kCheapPrepend + k \in DOMAIN b.data
    BY <2>0, Fields
  <2>2. kCheapPrepend + k > kCheapPrepend /\ kCheapPrepend + k <= kCheapPrepend + m
    BY <1>2, Indices
  <2>3. (kCheapPrepend + k) - kCheapPrepend + b.r = b.r + k
    BY Indices
  <2>4. QED BY <2>1, <2>2, <2>3
<1>5. Moved(b) = a
  BY DEF Moved, readableBytes
<1> HIDE DEF d
<1>6. a \in BufferOf(E)
  BY <1>2, <1>3, Fields, BufferMade
<1>7. Content(a) = Content(b)
  <2>1. a.w - a.r = b.w - b.r
    BY <1>2, Indices
  <2>2. QED BY <1>4, <1>6, <2>1, SameContent
<1>8. writableBytes(a) >= n
  <2>1. writableBytes(a) = Len(b.data) - (kCheapPrepend + m)
    BY <1>3 DEF writableBytes
  <2>2. /\ Len(b.data) - b.w + b.r >= n + kCheapPrepend
        /\ Len(b.data) \in Nat /\ b.r \in Nat /\ b.w \in Nat /\ kCheapPrepend \in Nat
    BY <1>1, Indices
  <2> HIDE DEF a
  <2>3. Len(b.data) - (kCheapPrepend + m) >= n
    BY <2>2
  <2>4. QED BY <2>1, <2>3
<1>9. QED BY <1>1, <1>5, <1>6, <1>7, <1>8

LEMMA EnsureOK ==
  ASSUME NEW E, 0 \in E, NEW b \in BufferOf(E), NEW n \in Nat
  PROVE  LET a == ensureWritableBytes(b, n)
         IN  a \in BufferOf(E) /\ Content(a) = Content(b) /\ writableBytes(a) >= n
<1>1. CASE writableBytes(b) < n
  BY <1>1, LongerOK, MovedOK DEF ensureWritableBytes, makeSpace
<1>2. CASE ~(writableBytes(b) < n)
  BY <1>2, Indices DEF ensureWritableBytes, writableBytes
<1>3. QED BY <1>1, <1>2

----------------------------------------------------------------------------
(* append and retrieve *)

LEMMA WrittenOK ==
  ASSUME NEW E, NEW b \in BufferOf(E), NEW s \in Seq(E), writableBytes(b) >= Len(s)
  PROVE  Written(b, s) \in BufferOf(E) /\ Content(Written(b, s)) = Content(b) \o s
<1> DEFINE d == [k \in DOMAIN b.data |->
                   IF k > b.w /\ k <= b.w + Len(s) THEN s[k - b.w] ELSE b.data[k]]
           a == [data |-> d, r |-> b.r, w |-> b.w + Len(s)]
           m == b.w - b.r
<1>1. Len(s) \in Nat /\ b.w + Len(s) <= Len(b.data) /\ m \in Nat
  BY Indices DEF writableBytes
<1>2. d \in Seq(E) /\ Len(d) = Len(b.data)
  <2>1. d \in [1 .. Len(b.data) -> E]
    BY Fields
  <2>2. Len(b.data) \in Nat
    BY Indices
  <2> HIDE DEF d, a, m
  <2>3. QED BY <2>1, <2>2
<1>3. \A k \in 1 .. m : d[b.r + k] = b.data[b.r + k]
  <2> SUFFICES ASSUME NEW k \in 1 .. m PROVE d[b.r + k] = b.data[b.r + k]
    OBVIOUS
  <2>1. b.r + k \in 1 .. Len(b.data) /\ ~(b.r + k > b.w)
    BY <1>1, Indices
  <2>2. b.r + k \in DOMAIN b.data
    BY <2>1, Fields
  <2>3. QED BY <2>1, <2>2
<1>4. \A k \in 1 .. Len(s) : d[b.w + k] = s[k]
  <2> SUFFICES ASSUME NEW k \in 1 .. Len(s) PROVE d[b.w + k] = s[k]
    OBVIOUS
  <2>1. b.w + k \in 1 .. Len(b.data) /\ b.w + k > b.w /\ b.w + k <= b.w + Len(s)
    BY <1>1, Indices
  <2>2. (b.w + k) - b.w = k
    BY Indices
  <2>3. b.w + k \in DOMAIN b.data
    BY <2>1, Fields
  <2>4. QED BY <2>1, <2>2, <2>3
<1>5. Written(b, s) = a
  BY DEF Written
<1> HIDE DEF d
<1>6. a \in BufferOf(E)
  BY <1>1, <1>2, Fields, BufferMade
<1> DEFINE x == Content(a)
           y == Content(b) \o s
<1>7. /\ x \in Seq(E) /\ Len(x) = m + Len(s)
      /\ \A k \in 1 .. m + Len(s) : x[k] = d[b.r + k]
  <2>1. a.w - a.r = m + Len(s) /\ a.r = b.r /\ a.data = d
    BY <1>1, Indices
  <2> HIDE DEF a, m
  <2>2. QED BY <1>6, <2>1, ContentIs
<1>8. /\ y \in Seq(E) /\ Len(y) = m + Len(s)
      /\ \A k \in 1 .. m + Len(s) :
           y[k] = IF k <= m THEN b.data[b.r + k] ELSE s[k - m]
  <2>1. /\ Content(b) \in Seq(E) /\ Len(Content(b)) = m
        /\ \A k \in 1 .. m : Content(b)[k] = b.data[b.r + k]
    BY ContentIs
  <2> HIDE DEF m
  <2>2. QED BY <1>1, <2>1
<1>9. \A k \in 1 .. m + Len(s) : x[k] = y[k]
  <2> SUFFICES ASSUME NEW k \in 1 .. m + Len(s) PROVE x[k] = y[k]
    OBVIOUS
  <2> HIDE DEF x, y, d, a
  <2>1. CASE k <= m
    <3>1. k \in 1 .. m
      BY <1>1, <2>1
    <3>2. x[k] = d[b.r + k]
      BY <1>7
    <3>3. y[k] = b.data[b.r + k]
      BY <1>8, <2>1
    <3>4. QED BY <1>3, <3>1, <3>2, <3>3
  <2>2. CASE ~(k <= m)
    <3>1. k - m \in 1 .. Len(s) /\ b.r + k = b.w + (k - m)
      BY <1>1, <2>2, Indices, Beyond
    <3>2. d[b.r + k] = s[k - m]
      BY <1>4, <3>1
    <3>3. x[k] = d[b.r + k]
      BY <1>7
    <3>4. y[k] = s[k - m]
      BY <1>8, <2>2
    <3>5. QED BY <3>2, <3>3, <3>4
  <2>3. QED BY <2>1, <2>2
<1> HIDE DEF x, y, a, m
<1>10. x = y
  BY <1>1, <1>7, <1>8, <1>9, Alike
<1>11. QED BY <1>5, <1>6, <1>10 DEF x, y

\* However full the vector is and wherever its reader stands, what is appended
\* comes behind the bytes that wait, and these stay as they are: the records
\* of a stream are put together in the order in which nginx cut it.
THEOREM AppendIsConcatenation ==
  ASSUME NEW E, 0 \in E, NEW b \in BufferOf(E), NEW s \in Seq(E)
  PROVE  append(b, s) \in BufferOf(E) /\ Content(append(b, s)) = Content(b) \o s
<1>1. Len(s) \in Nat
  OBVIOUS
<1> DEFINE e == ensureWritableBytes(b, Len(s))
<1>2. e \in BufferOf(E) /\ Content(e) = Content(b) /\ writableBytes(e) >= Len(s)
  BY <1>1, EnsureOK
<1>3. append(b, s) = Written(e, s)
  BY DEF append
<1> HIDE DEF e
<1>4. QED BY <1>2, <1>3, WrittenOK

\* retrieve takes the front and nothing else.
THEOREM RetrieveIsFront ==
  ASSUME NEW E, NEW b \in BufferOf(E), NEW n \in Nat
  PROVE  /\ retrieve(b, n) \in BufferOf(E)
         /\ Content(retrieve(b, n)) = SubSeq(Content(b), n + 1, readableBytes(b))
<1> DEFINE m == b.w - b.r
           c == Content(b)
<1>1. m \in Nat /\ c \in Seq(E) /\ Len(c) = m /\ readableBytes(b) = m
      /\ \A k \in 1 .. m : c[k] = b.data[b.r + k]
  BY ContentIs, Fields DEF readableBytes
<1>b. b = [data |-> b.data, r |-> b.r, w |-> b.w]
  BY DEF BufferOf
<1>2. CASE n < m
  <2> DEFINE a == [data |-> b.data, r |-> b.r + n, w |-> b.w]
  <2>1. retrieve(b, n) = a
    BY <1>1, <1>2, <1>b DEF retrieve
  <2>2. a \in BufferOf(E)
    <3>1. b.r + n \in Nat /\ kCheapPrepend <= b.r + n /\ b.r + n <= b.w
      BY <1>2, Indices
    <3>2. QED BY <3>1, Fields, BufferMade
  <2>3. /\ Content(a) \in Seq(E) /\ Len(Content(a)) = m - n
        /\ \A k \in 1 .. m - n : Content(a)[k] = b.data[b.r + n + k]
    <3>1. a.w - a.r = m - n /\ a.r = b.r + n /\ a.data = b.data
      BY Fields
    <3> HIDE DEF a, m
    <3>2. QED BY <2>2, <3>1, ContentIs
  <2> HIDE DEF a, m, c
  <2>4. /\ SubSeq(c, n + 1, m) \in Seq(E) /\ Len(SubSeq(c, n + 1, m)) = m - n
        /\ \A k \in 1 .. m - n : SubSeq(c, n + 1, m)[k] = c[n + k]
    BY <1>1, <1>2
  <2>5. ASSUME NEW k \in 1 .. m - n PROVE c[n + k] = b.data[b.r + n + k]
    <3>1. n + k \in 1 .. m
      BY <1>1, <1>2
    <3>2. c[n + k] = b.data[b.r + (n + k)]
      BY <1>1, <3>1
    <3>3. b.r + (n + k) = b.r + n + k
      BY Fields
    <3>4. QED BY <3>2, <3>3
  <2>6. Content(a) = SubSeq(c, n + 1, m)
    <3>1. m - n \in Nat
      BY <1>1, <1>2
    <3> DEFINE x == Content(a)
               y == SubSeq(c, n + 1, m)
               z == [k \in 1 .. m - n |-> b.data[b.r + n + k]]
    <3>2. x \in Seq(E) /\ Len(x) = m - n /\ \A k \in 1 .. m - n : x[k] = z[k]
      BY <2>3
    <3>3. y \in Seq(E) /\ Len(y) = m - n /\ \A k \in 1 .. m - n : y[k] = z[k]
      BY <2>4, <2>5
    <3> HIDE DEF x, y, z
    <3>4. \A k \in 1 .. m - n : x[k] = y[k]
      BY <3>2, <3>3
    <3>5. x = y
      BY <3>1, <3>2, <3>3, <3>4, Alike
    <3>6. QED BY <3>5 DEF x, y
  <2>7. QED BY <1>1, <2>1, <2>2, <2>6 DEF c
<1>3. CASE ~(n < m)
  <2> DEFINE a == [data |-> b.data, r |-> kCheapPrepend, w |-> kCheapPrepend]
  <2>1. retrieve(b, n) = a
    BY <1>1, <1>3, <1>b DEF retrieve, retrieveAll
  <2>2. a \in BufferOf(E)
    BY Fields, BufferMade
  <2>3. Content(a) \in Seq(E) /\ Len(Content(a)) = 0
    BY <2>2, ContentIs, Fields
  <2> HIDE DEF a, m, c
  <2>4. SubSeq(c, n + 1, m) = << >>
    BY <1>1, <1>3
  <2>5. Content(a) = << >>
    BY <2>3
  <2>6. Content(a) = SubSeq(c, n + 1, readableBytes(b))
    BY <1>1, <2>4, <2>5
  <2>7. QED BY <2>1, <2>2, <2>6 DEF c
<1>4. QED BY <1>1, <1>2, <1>3

----------------------------------------------------------------------------
(* Lengths *)

Half == Word \div 2

LEMMA HalfBase ==
  /\ Base \in Nat /\ Base >= 4 /\ Base \div 2 \in Nat /\ Base = 2 * (Base \div 2)
  /\ Half \in Nat /\ Word = 2 * Half /\ Word \in Nat
  /\ Half = (Base \div 2) * Base * Base * Base
<1>1. Base \in Nat /\ Base >= 4
  <2>1. Radix * Radix >= 2 * Radix
    BY Square
  <2>2. QED BY <2>1, Square
<1> DEFINE h == Base \div 2
<1>2. Base % 2 = 0
  BY FcgiAssumption DEF FcgiAssumption
<1>3. h \in Nat /\ Base = 2 * h
  BY <1>1, <1>2
<1> HIDE DEF h
<1>4. Word = 2 * (h * Base * Base * Base)
  <2>1. (2 * h) * Base * Base * Base = 2 * (h * Base * Base * Base)
    BY <1>1, <1>3
  <2>2. QED BY <1>3, <2>1 DEF Word
<1> DEFINE k == h * Base * Base * Base
<1>5. k \in Nat
  BY <1>1, <1>3
<1>6. (2 * k) \div 2 = k
  <2> HIDE DEF k
  <2>1. QED BY <1>5
<1>7. Half = k /\ Word = 2 * k
  BY <1>4, <1>6 DEF Half
<1>8. QED BY <1>1, <1>3, <1>5, <1>7 DEF h

\* Division by Base, as the provers need it.
LEMMA Divided ==
  ASSUME NEW n \in Nat, NEW m \in Nat, n < m * Base
  PROVE  /\ n \div Base \in Nat /\ n \div Base < m /\ n % Base \in Char
         /\ (n \div Base) * Base + (n % Base) = n
<1> DEFINE q == n \div Base
           r == n % Base
<1>1. Base \in Nat /\ Base >= 4
  BY HalfBase
<1>2. q \in Int /\ r \in 0 .. Base - 1 /\ n = Base * q + r
  BY <1>1
<1> HIDE DEF q, r
<1>3. q >= 0
  <2>1. ASSUME q <= -1 PROVE FALSE
    <3>1. Base * q <= Base * (-1)
      BY <1>1, <1>2, <2>1
    <3>2. QED BY <1>1, <1>2, <3>1
  <2>2. QED BY <1>2, <2>1
<1>4. q < m
  <2>1. ASSUME q >= m PROVE FALSE
    <3>1. Base * q >= Base * m
      BY <1>1, <1>2, <2>1
    <3>2. Base * m = m * Base
      BY <1>1
    <3>3. QED BY <1>1, <1>2, <3>1, <3>2
  <2>2. QED BY <1>1, <1>2, <2>1
<1>5. q * Base + r = n
  <2>1. q * Base = Base * q
    BY <1>1, <1>2
  <2>2. QED BY <1>2, <2>1
<1>6. QED BY <1>2, <1>3, <1>4, <1>5 DEF q, r, Char

LEMMA WholePart ==
  ASSUME NEW m \in Nat, NEW n \in Nat, n < m
  PROVE  (m + n) % m = n /\ n % m = n
<1>1. m > 0
  OBVIOUS
<1> DEFINE q == (m + n) \div m
           r == (m + n) % m
<1>2. q \in Int /\ r \in 0 .. m - 1 /\ m + n = m * q + r
  BY <1>1
<1> HIDE DEF q, r
<1>3. q >= 1
  <2>1. ASSUME q <= 0 PROVE FALSE
    <3>1. m * q <= m * 0
      BY <1>1, <1>2, <2>1
    <3>2. QED BY <1>2, <3>1
  <2>2. QED BY <1>2, <2>1
<1>4. q <= 1
  <2>1. ASSUME q >= 2 PROVE FALSE
    <3>1. m * q >= m * 2
      BY <1>1, <1>2, <2>1
    <3>2. QED BY <1>2, <3>1
  <2>2. QED BY <1>2, <2>1
<1>5. q = 1
  BY <1>2, <1>3, <1>4
<1>6. r = n
  BY <1>2, <1>5
<1>7. n % m = n
  <2> DEFINE p == n \div m
             s == n % m
  <2>1. p \in Int /\ s \in 0 .. m - 1 /\ n = m * p + s
    BY <1>1
  <2> HIDE DEF p, s
  <2>2. p >= 0
    <3>1. ASSUME p <= -1 PROVE FALSE
      <4>1. m * p <= m * (-1)
        BY <1>1, <2>1, <3>1
      <4>2. QED BY <2>1, <4>1
    <3>2. QED BY <2>1, <3>1
  <2>3. p <= 0
    <3>1. ASSUME p >= 1 PROVE FALSE
      <4>1. m * p >= m * 1
        BY <1>1, <2>1, <3>1
      <4>2. QED BY <2>1, <4>1
    <3>2. QED BY <2>1, <3>1
  <2>4. p = 0
    BY <2>1, <2>2, <2>3
  <2>5. QED BY <2>1, <2>4 DEF s
<1>8. QED BY <1>6, <1>7 DEF r

\* Four bytes that spell n behind the bit of a long length.
Long(e, n) ==
  /\ Len(e) = 4 /\ e[1] >= Base \div 2
  /\ (((e[1] * Base + e[2]) * Base + e[3]) * Base + e[4]) % Half = n

LEMMA LenBytesIs ==
  ASSUME NEW n \in Nat, n < Half
  PROVE  /\ LenBytes(n) \in Seq(Char)
         /\ \/ LenBytes(n) = <<n>> /\ n < Base \div 2
            \/ Long(LenBytes(n), n)
<1>1. CASE n < Base \div 2
  <2>1. n \in Char
    BY <1>1, HalfBase DEF Char
  <2>2. QED BY <1>1, <2>1 DEF LenBytes
<1>2. CASE ~(n < Base \div 2)
  <2> DEFINE h == Base \div 2
             n1 == n \div Base
             n2 == n1 \div Base
             n3 == n2 \div Base
             d1 == n % Base
             d2 == n1 % Base
             d3 == n2 % Base
             e == <<h + n3, d3, d2, d1>>
  <2>0. h \in Nat /\ Base \in Nat /\ Base = 2 * h /\ Half = h * Base * Base * Base
    BY HalfBase
  <2>1. n1 \in Nat /\ n1 < h * Base * Base /\ d1 \in Char /\ n1 * Base + d1 = n
    <3>1. h * Base * Base \in Nat
      BY <2>0
    <3>2. n < (h * Base * Base) * Base
      BY <2>0
    <3>3. QED BY <3>1, <3>2, Divided
  <2> HIDE DEF n1, d1
  <2>2. n2 \in Nat /\ n2 < h * Base /\ d2 \in Char /\ n2 * Base + d2 = n1
    <3>1. h * Base \in Nat
      BY <2>0
    <3>2. QED BY <2>1, <3>1, Divided
  <2> HIDE DEF n2, d2
  <2>3. n3 \in Nat /\ n3 < h /\ d3 \in Char /\ n3 * Base + d3 = n2
    BY <2>0, <2>2, Divided
  <2> HIDE DEF n3, d3
  <2>4. h + n3 \in Char /\ e \in Seq(Char) /\ Len(e) = 4
    <3>1. h + n3 \in Char
      BY <2>0, <2>3 DEF Char
    <3> HIDE DEF h
    <3>2. QED BY <2>1, <2>2, <2>3, <3>1
  <2>5. LenBytes(n) = e
    BY <1>2 DEF LenBytes, n1, n2, n3, d1, d2, d3
  <2>6. ((((h + n3) * Base + d3) * Base + d2) * Base + d1) = Half + n
    <3> DEFINE hb == h * Base
               hbb == hb * Base
    <3>1. (h + n3) * Base = hb + n3 * Base /\ hb \in Int
      BY <2>0, <2>3
    <3>2. d1 \in Int /\ d2 \in Int /\ d3 \in Int
      BY <2>0, <2>1, <2>2, <2>3 DEF Char
    <3>3. (h + n3) * Base + d3 = hb + n2
      <4>1. n3 * Base \in Int
        BY <2>0, <2>3
      <4> HIDE DEF hb
      <4>2. QED BY <2>3, <3>1, <3>2, <4>1
    <3>4. (hb + n2) * Base = hbb + n2 * Base /\ hbb \in Int /\ n2 * Base \in Int
      <4> HIDE DEF hb
      <4>1. QED BY <2>0, <2>2, <3>1
    <3>5. (hb + n2) * Base + d2 = hbb + n1
      <4> HIDE DEF hb, hbb
      <4>1. QED BY <2>2, <3>2, <3>4
    <3>6. (hbb + n1) * Base = hbb * Base + n1 * Base /\ hbb * Base \in Int /\ n1 * Base \in Int
      <4> HIDE DEF hbb
      <4>1. QED BY <2>0, <2>1, <3>4
    <3>7. (hbb + n1) * Base + d1 = hbb * Base + n
      <4> HIDE DEF hbb
      <4>1. QED BY <2>1, <3>2, <3>6
    <3> HIDE DEF h
    <3>8. QED BY <2>0, <3>3, <3>5, <3>7
  <2>7. (Half + n) % Half = n /\ h + n3 >= h
    BY <2>0, <2>3, HalfBase, WholePart
  <2>8. Long(e, n)
    <3> DEFINE a == h + n3
    <3>1. e = <<a, d3, d2, d1>> /\ a >= h
      BY <2>7
    <3>2. e[1] = a /\ e[2] = d3 /\ e[3] = d2 /\ e[4] = d1 /\ Len(e) = 4
      BY <3>1
    <3>3. (((a * Base + d3) * Base + d2) * Base + d1) % Half = n
      BY <2>6, <2>7
    <3> HIDE DEF e, a
    <3>4. QED BY <3>1, <3>2, <3>3 DEF Long
  <2>9. QED BY <2>4, <2>5, <2>8
<1>3. QED BY <1>1, <1>2

----------------------------------------------------------------------------
(* The stream of parameters *)

\* b is a buffer that holds the bytes s.
Holds(b, s) == b \in BufferOf(Char) /\ Content(b) = s

LEMMA HeldBytes ==
  ASSUME NEW b, NEW s, Holds(b, s)
  PROVE  /\ s \in Seq(Char) /\ readableBytes(b) = Len(s) /\ Len(s) \in Nat
         /\ \A k \in 1 .. Len(s) : At(b, k) = s[k]
<1>1. /\ Content(b) \in Seq(Char) /\ Len(Content(b)) = b.w - b.r
      /\ \A k \in 1 .. b.w - b.r : Content(b)[k] = b.data[b.r + k]
  BY ContentIs DEF Holds
<1>2. QED BY <1>1 DEF Holds, readableBytes, At

\* What is retrieved from the front leaves the rest.
LEMMA Retrieves ==
  ASSUME NEW b, NEW x \in Seq(Char), NEW t \in Seq(Char), Holds(b, x \o t)
  PROVE  Holds(retrieve(b, Len(x)), t)
<1> DEFINE s == x \o t
           n == Len(x)
<1>1. n \in Nat
  OBVIOUS
<1>2. b \in BufferOf(Char) /\ Content(b) = s /\ readableBytes(b) = Len(s)
  BY HeldBytes DEF Holds
<1>3. /\ retrieve(b, n) \in BufferOf(Char)
      /\ Content(retrieve(b, n)) = SubSeq(Content(b), n + 1, readableBytes(b))
  BY <1>1, <1>2, RetrieveIsFront
<1>4. SubSeq(s, n + 1, Len(s)) = t
  BY Halves
<1> HIDE DEF s
<1>5. QED BY <1>2, <1>3, <1>4 DEF Holds

\* A length that was read, and the buffer behind it.
Measured(n, b) == [len |-> n, buf |-> b]

LEMMA ReadsLength ==
  ASSUME NEW n \in Nat, n < Half, NEW b, NEW t \in Seq(Char),
         Holds(b, LenBytes(n) \o t)
  PROVE  \E c : Holds(c, t) /\ readLen(b) = Measured(n, c)
<1> DEFINE e == LenBytes(n)
           s == e \o t
<1>1. e \in Seq(Char) /\ ((e = <<n>> /\ n < Base \div 2) \/ Long(e, n))
  BY LenBytesIs
<1>2. /\ s \in Seq(Char) /\ Len(s) = Len(e) + Len(t) /\ Len(t) \in Nat /\ Len(e) \in Nat
      /\ \A i \in 1 .. Len(e) : s[i] = e[i]
  <2> HIDE DEF e
  <2>1. e \in Seq(Char)
    BY <1>1
  <2>2. QED BY <2>1, Apart
<1>3. /\ readableBytes(b) = Len(s)
      /\ \A k \in 1 .. Len(s) : At(b, k) = s[k]
  <2> HIDE DEF s
  <2>1. Holds(b, s)
    BY DEF s
  <2>2. QED BY <2>1, HeldBytes
<1>4. \A k \in 1 .. Len(e) : At(b, k) = e[k]
  <2> HIDE DEF e, s
  <2>1. QED BY <1>2, <1>3
<1>5. Holds(retrieve(b, Len(e)), t)
  <2> HIDE DEF e
  <2>1. Holds(b, e \o t)
    BY DEF e
  <2>2. QED BY <1>1, <2>1, Retrieves
<1> HIDE DEF s
<1>6. CASE e = <<n>> /\ n < Base \div 2
  <2>1. Len(e) = 1 /\ e[1] = n
    BY <1>6
  <2>2. readableBytes(b) >= 1 /\ At(b, 1) = n
    BY <1>2, <1>3, <1>4, <2>1
  <2>3. ~(readableBytes(b) < 1)
    BY <1>2, <1>3, <2>2
  <2>4. readLen(b) = Measured(n, retrieve(b, 1))
    BY <1>6, <2>2, <2>3 DEF readLen, Measured
  <2>5. QED BY <1>5, <2>1, <2>4
<1>7. CASE Long(e, n)
  <2> HIDE DEF e
  <2>1. Len(e) = 4
    BY <1>7 DEF Long
  <2>2. At(b, 1) = e[1] /\ At(b, 2) = e[2] /\ At(b, 3) = e[3] /\ At(b, 4) = e[4]
    BY <1>4, <2>1
  <2>3. ~(readableBytes(b) < 1) /\ ~(readableBytes(b) < 4)
    BY <1>2, <1>3, <2>1
  <2>4. ~(At(b, 1) < Base \div 2)
    <3>1. e[1] \in Nat /\ e[1] >= Base \div 2 /\ Base \div 2 \in Nat
      <4>1. e[1] \in Char
        BY <1>1, <2>1
      <4>2. QED BY <1>7, <4>1, HalfBase DEF Long, Char
    <3>2. QED BY <2>2, <3>1
  <2>5. (((At(b, 1) * Base + At(b, 2)) * Base + At(b, 3)) * Base + At(b, 4)) % (Word \div 2) = n
    BY <1>7, <2>2 DEF Long, Half
  <2>6. readLen(b) = Measured(n, retrieve(b, 4))
    BY <2>3, <2>4, <2>5 DEF readLen, Measured
  <2>7. QED BY <1>5, <2>1, <2>6
<1>8. QED BY <1>1, <1>6, <1>7

LEMMA SomeLength ==
  ASSUME NEW n \in Nat, n < Half
  PROVE  Len(LenBytes(n)) >= 1
<1> DEFINE e == LenBytes(n)
<1>1. (e = <<n>> /\ n < Base \div 2) \/ Long(e, n)
  BY LenBytesIs
<1> HIDE DEF e
<1>2. CASE e = <<n>>
  BY <1>2 DEF e
<1>3. CASE Long(e, n)
  BY <1>3 DEF e, Long
<1>4. QED BY <1>1, <1>2, <1>3

\* The state of parseAllParams.
Parsing(ok, b, map) == [ok |-> ok, buf |-> b, map |-> map]

\* What comes behind the lengths of a parameter.
LEMMA NameAndValue ==
  ASSUME NEW name \in Seq(Char), NEW value \in Seq(Char), NEW t \in Seq(Char)
  PROVE  LET s == name \o (value \o t) IN
         /\ s \in Seq(Char) /\ Len(s) >= Len(name) + Len(value)
         /\ SubSeq(s, 1, Len(name)) = name
         /\ SubSeq(s, Len(name) + 1, Len(name) + Len(value)) = value
<1> DEFINE vt == value \o t
           s == name \o vt
           n == Len(name)
           m == Len(value)
<1>1. vt \in Seq(Char) /\ Len(vt) = m + Len(t) /\ Len(t) \in Nat /\ n \in Nat /\ m \in Nat
      /\ Begins(value, vt)
  BY Placed
<1> HIDE DEF vt
<1>2. /\ s \in Seq(Char) /\ Len(s) = n + Len(vt)
      /\ Behind(s, n, vt)
  BY <1>1, Placed
<1>3. SubSeq(s, 1, n) = name
  BY <1>1, Halves
<1> HIDE DEF s
<1>4. SubSeq(s, n + 1, n + m) = value
  <2> DEFINE w == n + m
             x == SubSeq(s, n + 1, w)
  <2>1. w \in Nat /\ n <= w /\ w <= Len(s) /\ w - n = m /\ m <= Len(vt)
    BY <1>1, <1>2
  <2> HIDE DEF w, n, m
  <2>2. /\ x \in Seq(Char) /\ Len(x) = w - n
        /\ \A k \in 1 .. w - n : x[k] = s[n + k]
    <3>1. s \in Seq(Char) /\ n \in Nat /\ w \in Nat /\ n <= w /\ w <= Len(s)
      BY <1>1, <1>2, <2>1
    <3>2. QED BY <3>1, Part
  <2>3. ASSUME NEW k \in 1 .. m PROVE x[k] = value[k]
    <3>1. k \in 1 .. Len(vt)
      BY <1>1, <2>1
    <3>2. s[n + k] = vt[k]
      BY <1>2, <3>1 DEF Behind
    <3>3. vt[k] = value[k]
      BY <1>1 DEF Begins, m
    <3> HIDE DEF x
    <3>4. QED BY <2>1, <2>2, <3>2, <3>3
  <2> HIDE DEF x
  <2>4. x = value
    BY <1>1, <2>1, <2>2, <2>3, Alike DEF m
  <2>5. QED BY <2>4 DEF x, w
<1>5. Len(s) >= n + m
  BY <1>1, <1>2
<1>6. QED BY <1>2, <1>3, <1>4, <1>5 DEF s, vt

\* A turn of parseAllParams takes the parameter and leaves t.
Takes(b, t, name, value, map) ==
  \E c : Holds(c, t) /\ TakeParam(Parsing(TRUE, b, map))
                           = Parsing(TRUE, c, Assign(map, name, value))

LEMMA TakesParam ==
  ASSUME NEW name \in Seq(Char), NEW value \in Seq(Char), NEW t \in Seq(Char),
         Len(name) < Half, Len(value) < Half, NEW b, NEW map,
         Holds(b, Param(name, value) \o t)
  PROVE  Takes(b, t, name, value, map)
<1> DEFINE n == Len(name)
           m == Len(value)
           ln == LenBytes(n)
           lm == LenBytes(m)
           vt == value \o t
           s == name \o vt
           ms == lm \o s
<1>1. n \in Nat /\ m \in Nat /\ n < Half /\ m < Half
  OBVIOUS
<1>2. ln \in Seq(Char) /\ lm \in Seq(Char)
  BY <1>1, LenBytesIs
<1>3. vt \in Seq(Char) /\ s \in Seq(Char)
  OBVIOUS
<1>4. Param(name, value) \o t = ln \o ms
  <2>1. Param(name, value) = ((ln \o lm) \o name) \o value
    BY DEF Param
  <2> HIDE DEF ln, lm
  <2>2. (((ln \o lm) \o name) \o value) \o t = ((ln \o lm) \o name) \o vt
    <3> DEFINE x == (ln \o lm) \o name
    <3>1. x \in Seq(Char)
      BY <1>2
    <3> HIDE DEF x
    <3>2. (x \o value) \o t = x \o (value \o t)
      BY <3>1
    <3>3. QED BY <3>2 DEF x
  <2>3. ((ln \o lm) \o name) \o vt = (ln \o lm) \o s
    <3> DEFINE x == ln \o lm
    <3>1. x \in Seq(Char) /\ vt \in Seq(Char)
      BY <1>2, <1>3
    <3> HIDE DEF x, vt
    <3>2. (x \o name) \o vt = x \o (name \o vt)
      BY <3>1
    <3>3. QED BY <3>2 DEF x
  <2>4. (ln \o lm) \o s = ln \o ms
    <3>1. ln \in Seq(Char) /\ lm \in Seq(Char) /\ s \in Seq(Char)
      BY <1>2, <1>3
    <3> HIDE DEF s
    <3>2. QED BY <3>1, SMTT(30)
  <2>5. QED BY <2>1, <2>2, <2>3, <2>4
<1> HIDE DEF ln, lm
<1>5. ms \in Seq(Char)
  <2> HIDE DEF s
  <2>1. QED BY <1>2, <1>3
<1>6. PICK b1 : Holds(b1, ms) /\ readLen(b) = Measured(n, b1)
  <2> HIDE DEF ms, n
  <2>1. Holds(b, LenBytes(n) \o ms)
    BY <1>4 DEF ln
  <2>2. QED BY <1>1, <1>5, <2>1, ReadsLength
<1>7. PICK b2 : Holds(b2, s) /\ readLen(b1) = Measured(m, b2)
  <2> HIDE DEF s, m
  <2>1. Holds(b1, LenBytes(m) \o s)
    BY <1>6 DEF lm
  <2>2. QED BY <1>1, <1>3, <2>1, ReadsLength
<1>8. /\ Len(s) >= n + m /\ SubSeq(s, 1, n) = name /\ SubSeq(s, n + 1, n + m) = value
  BY NameAndValue
<1>9. readableBytes(b) # 0
  <2>1. Holds(b, ln \o ms)
    BY <1>4
  <2>2. Len(ln) >= 1
    <3>1. Len(LenBytes(n)) >= 1
      BY <1>1, SomeLength
    <3>2. QED BY <3>1 DEF ln
  <2> HIDE DEF ms
  <2>3. Len(ln \o ms) = Len(ln) + Len(ms) /\ Len(ms) \in Nat /\ Len(ln) \in Nat
    BY <1>2, <1>5
  <2>4. readableBytes(b) = Len(ln \o ms)
    BY <2>1, HeldBytes
  <2>5. QED BY <2>2, <2>3, <2>4
<1>10. /\ Content(b2) = s /\ readableBytes(b2) = Len(s) /\ Len(s) \in Nat
  <2> HIDE DEF s
  <2>1. QED BY <1>7, HeldBytes DEF Holds
<1>11. ~(readableBytes(b2) < (n + m) % Word)
  <2>1. n + m \in Nat /\ n + m < Word /\ Word \in Nat
    BY <1>1, HalfBase
  <2>2. (n + m) % Word = n + m
    <3> DEFINE k == n + m
    <3> HIDE DEF k
    <3>1. k \in Nat /\ k < Word /\ Word \in Nat
      BY <2>1 DEF k
    <3>2. k % Word = k
      BY <3>1, WholePart
    <3>3. QED BY <3>2 DEF k
  <2> HIDE DEF s, n, m
  <2>3. QED BY <1>1, <1>8, <1>10, <2>1, <2>2
<1> DEFINE c == retrieve(retrieve(b2, n), m)
<1>12. Holds(c, t)
  <2>1. Holds(retrieve(b2, n), vt)
    <3> HIDE DEF vt
    <3>1. QED BY <1>3, <1>7, Retrieves
  <2> DEFINE b3 == retrieve(b2, n)
  <2>2. Holds(b3, value \o t)
    BY <2>1
  <2> HIDE DEF b3
  <2>3. Holds(retrieve(b3, m), t)
    BY <2>2, Retrieves
  <2>4. QED BY <2>3 DEF b3
<1>13. n # Failed /\ m # Failed
  BY <1>1 DEF Failed
<1> HIDE DEF n, m, s, ms, vt
<1>14. TakeParam(Parsing(TRUE, b, map)) = Parsing(TRUE, c, Assign(map, name, value))
  <2> DEFINE p == Parsing(TRUE, b, map)
  <2>1. p.ok = TRUE /\ p.buf = b /\ p.map = map
    BY DEF Parsing
  <2>2. readLen(p.buf).len = n /\ readLen(p.buf).buf = b1
    <3>1. readLen(p.buf) = Measured(n, b1)
      BY <1>6, <2>1
    <3>2. Measured(n, b1).len = n /\ Measured(n, b1).buf = b1
      BY DEF Measured
    <3>3. QED BY <3>1, <3>2
  <2>3. readLen(b1).len = m /\ readLen(b1).buf = b2
    BY <1>7 DEF Measured
  <2> HIDE DEF p
  <2>4. TakeParam(p) = [ok |-> TRUE, buf |-> c,
                        map |-> Assign(p.map, SubSeq(Content(b2), 1, n),
                                              SubSeq(Content(b2), n + 1, n + m))]
    BY <1>9, <1>11, <1>13, <2>1, <2>2, <2>3 DEF TakeParam
  <2>5. QED BY <1>8, <1>10, <2>1, <2>4 DEF Parsing, p
<1>15. QED BY <1>12, <1>14 DEF Takes

\* parseAllParams from a state on.
ParsedAll(b, s) == FoldLeft(LAMBDA p, k : TakeParam(p), b, s)

\* parseAllParams, one turn after the other.
ParsedRuns(b, s, S) ==
  \E f : /\ f \in [0 .. Len(s) -> S] /\ f[0] = b
         /\ \A k \in 1 .. Len(s) : f[k] = TakeParam(f[k - 1])
         /\ ParsedAll(b, s) = f[Len(s)]

LEMMA ParsedSteps ==
  ASSUME NEW C, NEW s \in Seq(C), NEW b, NEW S, b \in S
  PROVE  (\A k \in 1 .. Len(s) : \A x \in S : TakeParam(x) \in S) => ParsedRuns(b, s, S)
<1>0. SUFFICES ASSUME \A k \in 1 .. Len(s) : \A x \in S : TakeParam(x) \in S
      PROVE  ParsedRuns(b, s, S)
  OBVIOUS
<1> DEFINE n == Len(s)
           base == b
           step == [p \in (1 .. n) \X S |-> TakeParam(p[2])]
           turn(f, t) == IF t = {} THEN base
                         ELSE TakeParam(f[t \ {Max(t)}])
           iter == CHOOSE iter : iter = [t \in SUBSET DOMAIN s |-> turn(iter, t)]
<1>1. DOMAIN s = 1 .. n /\ n \in Nat
  OBVIOUS
<1>a. ParsedAll(b, s) = iter[DOMAIN s]
  BY DEF ParsedAll, FoldLeft, MapThenFoldSet
<1>2. step \in [(1 .. n) \X S -> S] /\ base \in S
  BY <1>0
<1> HIDE DEF n, base
<1>3. \E h : h = [t \in SUBSET (1 .. n) |-> turn(h, t)]
  <2>1. PICK h : Folded(S, base, n, step, h)
    <3> HIDE DEF step
    <3>1. QED BY <1>1, <1>2, FoldIs
  <2> DEFINE g == [t \in SUBSET (1 .. n) |-> h[t]]
  <2>2. ASSUME NEW t \in SUBSET (1 .. n) PROVE g[t] = turn(g, t)
    BY <2>1 DEF Folded
  <2>3. g = [t \in SUBSET (1 .. n) |-> turn(g, t)]
    <3>1. g = [t \in SUBSET (1 .. n) |-> g[t]]
      OBVIOUS
    <3> HIDE DEF turn, g
    <3>2. QED BY <2>2, <3>1
  <2>4. QED BY <2>3
<1>4. iter = [t \in SUBSET (1 .. n) |-> turn(iter, t)]
  BY <1>1, <1>3
<1>5. \A t \in SUBSET (1 .. n) : iter[t] = turn(iter, t)
  <2> HIDE DEF turn, iter
  <2>1. QED BY <1>4
<1> HIDE DEF iter
<1>6. Iterates(iter, S, base, n, step)
  <2>1. iter[{}] = base
    BY <1>5
  <2>2. ASSUME NEW t \in SUBSET (1 .. n), t # {}, iter[t \ {Max(t)}] \in S
        PROVE  iter[t] = step[<<Max(t), iter[t \ {Max(t)}]>>]
    <3>1. Max(t) \in 1 .. n
      BY <1>1, <2>2, LastIn
    <3>2. QED BY <1>5, <2>2, <3>1
  <2>3. QED BY <2>1, <2>2 DEF Iterates
<1>7. PICK f : Trace(f, S, base, n, step) /\ iter[1 .. n] = f[n]
  <2> HIDE DEF step
  <2>1. HasTrace(iter, S, base, n, step)
    BY <1>1, <1>2, <1>6, TraceOf
  <2>2. QED BY <2>1 DEF HasTrace
<1>8. ASSUME NEW k \in 1 .. n PROVE f[k] = TakeParam(f[k - 1])
  <2>1. k - 1 \in 0 .. n
    BY <1>1
  <2>2. <<k, f[k - 1]>> \in (1 .. n) \X S
    BY <1>7, <2>1 DEF Trace
  <2>3. QED BY <1>7, <2>2 DEF Trace
<1>9. QED BY <1>1, <1>a, <1>7, <1>8 DEF ParsedRuns, Trace, n, base

----------------------------------------------------------------------------
(* The parameters of a request *)

LEMMA Sent ==
  ASSUME NEW q \in QueryForms
  PROVE  /\ FormData(q) \in Seq(Char) /\ Len(FormData(q)) < Half
         /\ QUERY_STRING \in Seq(Char) /\ Len(QUERY_STRING) < Half
         /\ CONTENT_TYPE \in Seq(Char) /\ Len(CONTENT_TYPE) < Half
         /\ Standard \in Seq(Char) /\ Len(Standard) < Half
         /\ QUERY_STRING # CONTENT_TYPE
<1>1. /\ QueryForms \cup PostForms \subseteq Seq(Seq(Char) \X Seq(Char))
      /\ {QUERY_STRING, CONTENT_TYPE, Standard} \subseteq Seq(Char)
      /\ QUERY_STRING # CONTENT_TYPE
      /\ \A text \in Named : Len(text) < Word \div 2
  BY FcgiAssumption DEF FcgiAssumption
<1>2. q \in Form
  BY <1>1 DEF Form
<1>3. FormData(q) \in Seq(Char)
  BY <1>2, FormBlocks
<1>4. FormData(q) \in Named /\ {QUERY_STRING, CONTENT_TYPE, Standard} \subseteq Named
  BY DEF Named
<1>5. QED BY <1>1, <1>3, <1>4 DEF Half

LEMMA ParamIs ==
  ASSUME NEW name \in Seq(Char), NEW value \in Seq(Char), Len(name) < Half, Len(value) < Half
  PROVE  Param(name, value) \in Seq(Char) /\ Len(Param(name, value)) >= 2
<1> DEFINE ln == LenBytes(Len(name))
           lm == LenBytes(Len(value))
<1>1. Len(name) \in Nat /\ Len(value) \in Nat
  OBVIOUS
<1>2. ln \in Seq(Char) /\ lm \in Seq(Char)
  BY <1>1, LenBytesIs
<1>3. Len(ln) >= 1 /\ Len(lm) >= 1
  BY <1>1, SomeLength
<1>4. Param(name, value) = ((ln \o lm) \o name) \o value
  BY DEF Param
<1> HIDE DEF ln, lm
<1>5. ln \o lm \in Seq(Char) /\ Len(ln \o lm) = Len(ln) + Len(lm)
      /\ Len(ln) \in Nat /\ Len(lm) \in Nat
  BY <1>2
<1> DEFINE x == ln \o lm
<1>6. x \in Seq(Char) /\ Len(x) >= 2 /\ Len(x) \in Nat
  BY <1>3, <1>5
<1> HIDE DEF x
<1>7. x \o name \in Seq(Char) /\ Len(x \o name) = Len(x) + Len(name)
  BY <1>6
<1> DEFINE y == x \o name
<1>8. y \in Seq(Char) /\ Len(y) >= 2 /\ Len(y) \in Nat
  BY <1>1, <1>6, <1>7
<1> HIDE DEF y
<1>9. y \o value \in Seq(Char) /\ Len(y \o value) = Len(y) + Len(value)
  BY <1>8
<1>10. Len(y \o value) >= 2
  BY <1>1, <1>8, <1>9
<1>11. QED BY <1>4, <1>9, <1>10 DEF x, y

LEMMA EmptyStays ==
  ASSUME NEW b, NEW map, Holds(b, << >>)
  PROVE  TakeParam(Parsing(TRUE, b, map)) = Parsing(TRUE, b, map)
<1>1. readableBytes(b) = 0
  BY HeldBytes
<1>2. QED BY <1>1 DEF TakeParam, Parsing

\* The three states that decoding one or two parameters goes through.
LEMMA ParsesInTwo ==
  ASSUME NEW s0, NEW s1, NEW s2, NEW data \in Seq(Char), Len(data) >= 2,
         TakeParam(s0) = s1, TakeParam(s1) = s2, TakeParam(s2) = s2
  PROVE  ParsedAll(s0, data) = s2
<1> DEFINE L == Len(data)
           S == {s0, s1, s2}
           P == [i \in 0 .. L |-> {IF i = 0 THEN s0 ELSE IF i = 1 THEN s1 ELSE s2}]
<1>1. L \in Nat /\ L >= 2 /\ 0 \in 0 .. L /\ L \in 0 .. L
  OBVIOUS
<1>2. s0 \in S /\ \A k \in 1 .. Len(data) : \A x \in S : TakeParam(x) \in S
  OBVIOUS
<1>3. PICK g : /\ g[0] = s0
               /\ \A k \in 1 .. L : g[k] = TakeParam(g[k - 1])
               /\ ParsedAll(s0, data) = g[L]
  <2> HIDE DEF S
  <2>1. ParsedRuns(s0, data, S)
    BY <1>2, ParsedSteps
  <2>2. QED BY <2>1 DEF ParsedRuns
<1> HIDE DEF L
<1>4. g[0] \in P[0]
  BY <1>1, <1>3
<1>5. ASSUME NEW i \in 1 .. L, g[i - 1] \in P[i - 1] PROVE g[i] \in P[i]
  <2>1. i - 1 \in 0 .. L /\ i \in 0 .. L /\ g[i] = TakeParam(g[i - 1]) /\ i # 0
    BY <1>1, <1>3
  <2>2. g[i - 1] = IF i - 1 = 0 THEN s0 ELSE IF i - 1 = 1 THEN s1 ELSE s2
    BY <1>5, <2>1
  <2>3. g[i] = IF i = 1 THEN s1 ELSE s2
    <3>1. i - 1 = 0 <=> i = 1
      BY <1>1
    <3>2. QED BY <2>1, <2>2, <3>1
  <2>4. P[i] = {IF i = 1 THEN s1 ELSE s2}
    BY <2>1
  <2> HIDE DEF P
  <2>5. QED BY <2>3, <2>4
<1>6. g[L] \in P[L]
  <2> HIDE DEF P
  <2>1. \A i \in 0 .. L : g[i] \in P[i]
    BY <1>1, <1>4, <1>5, Reaches
  <2>2. QED BY <1>1, <2>1
<1>7. P[L] = {s2}
  BY <1>1
<1> HIDE DEF P
<1>8. QED BY <1>3, <1>6, <1>7

LEMMA Assigned ==
  ASSUME NEW map, NEW key, NEW value, NEW other
  PROVE  /\ Value(Assign(map, key, value), key) = value
         /\ other # key => Value(Assign(map, key, value), other) = Value(map, other)
BY DEF Value, Assign

\* However long the values are, the parameters that nginx encoded are read,
\* and the whole of them.
LEMMA ParsesStream ==
  ASSUME NEW q \in QueryForms, NEW type \in {<< >>, Standard}, NEW c,
         c.params_ = NoParams, Holds(c.paramsStream_, ParamStream(q, type))
  PROVE  \E b, map : /\ parseAllParams(c) = Parsing(TRUE, b, map)
                     /\ b \in BufferOf(Char)
                     /\ Value(map, QUERY_STRING) = FormData(q)
<1> DEFINE b0 == c.paramsStream_
           data == ParamStream(q, type)
           s0 == Parsing(TRUE, b0, NoParams)
           first == Param(QUERY_STRING, FormData(q))
           t == IF type = << >> THEN << >> ELSE Param(CONTENT_TYPE, type)
           m1 == Assign(NoParams, QUERY_STRING, FormData(q))
<1>1. Content(b0) = data /\ data \in Seq(Char)
  BY HeldBytes DEF Holds
<1>2. parseAllParams(c) = ParsedAll(s0, data)
  <2>1. parseAllParams(c) = ParsedAll(s0, Content(b0))
    BY DEF parseAllParams, ParsedAll, Parsing
  <2>2. QED BY <1>1, <2>1
<1>3. first \in Seq(Char) /\ Len(first) >= 2
  BY Sent, ParamIs
<1>4. t \in Seq(Char) /\ data = first \o t
  <2>1. CASE type = << >>
    BY <2>1 DEF ParamStream
  <2>2. CASE type # << >>
    <3>1. type = Standard
      BY <2>2
    <3>2. Param(CONTENT_TYPE, type) \in Seq(Char)
      BY <3>1, Sent, ParamIs
    <3>3. QED BY <2>2, <3>2 DEF ParamStream
  <2>3. QED BY <2>1, <2>2
<1>5. Len(data) >= 2
  <2> HIDE DEF first, t, data
  <2>1. Len(first \o t) = Len(first) + Len(t) /\ Len(t) \in Nat /\ Len(first) \in Nat
    BY <1>3, <1>4
  <2>2. QED BY <1>3, <1>4, <2>1
<1>6. PICK b1 : Holds(b1, t) /\ TakeParam(s0) = Parsing(TRUE, b1, m1)
  <2>1. Holds(b0, first \o t)
    BY <1>4
  <2>2. Takes(b0, t, QUERY_STRING, FormData(q), NoParams)
    <3> HIDE DEF t, b0
    <3>1. QED BY <1>4, <2>1, Sent, TakesParam
  <2>3. QED BY <2>2 DEF Takes
<1>7. Value(m1, QUERY_STRING) = FormData(q)
  BY Assigned
<1> DEFINE s1 == Parsing(TRUE, b1, m1)
<1>8. CASE type = << >>
  <2>1. t = << >>
    BY <1>8
  <2>2. TakeParam(s1) = s1
    <3> HIDE DEF t, m1
    <3>1. QED BY <1>6, <2>1, EmptyStays
  <2>a. TakeParam(s0) = s1
    BY <1>6
  <2> HIDE DEF s1, s0, data
  <2>3. ParsedAll(s0, data) = s1
    BY <1>1, <1>5, <2>a, <2>2, ParsesInTwo
  <2>4. QED BY <1>2, <1>6, <1>7, <2>3 DEF s1, Holds
<1>9. CASE type # << >>
  <2> DEFINE m2 == Assign(m1, CONTENT_TYPE, Standard)
             u == Param(CONTENT_TYPE, Standard)
  <2>1. t = u /\ u \in Seq(Char)
    BY <1>4, <1>9
  <2>2. u = u \o << >> /\ << >> \in Seq(Char)
    <3> HIDE DEF u
    <3>1. QED BY <2>1, Nothing
  <2>3. PICK b2 : Holds(b2, << >>) /\ TakeParam(s1) = Parsing(TRUE, b2, m2)
    <3>1. Holds(b1, u \o << >>)
      <4> HIDE DEF u, t
      <4>1. QED BY <1>6, <2>1, <2>2
    <3>2. Takes(b1, << >>, CONTENT_TYPE, Standard, m1)
      <4> HIDE DEF m1, t
      <4>1. QED BY <2>2, <3>1, Sent, TakesParam
    <3> HIDE DEF m1
    <3>3. QED BY <3>2 DEF Takes
  <2> DEFINE s2 == Parsing(TRUE, b2, m2)
  <2>4. TakeParam(s2) = s2
    <3> HIDE DEF m2
    <3>1. QED BY <2>3, EmptyStays
  <2>5. Value(m2, QUERY_STRING) = FormData(q)
    <3>1. QUERY_STRING # CONTENT_TYPE
      BY Sent
    <3> HIDE DEF m1
    <3>2. QED BY <1>7, <3>1, Assigned
  <2>a. TakeParam(s0) = s1 /\ TakeParam(s1) = s2
    BY <1>6, <2>3
  <2> HIDE DEF s1, s2, s0, data
  <2>6. ParsedAll(s0, data) = s2
    BY <1>1, <1>5, <2>a, <2>4, ParsesInTwo
  <2>7. QED BY <1>2, <2>3, <2>5, <2>6 DEF s2, Holds
<1>10. QED BY <1>8, <1>9

Seen(out, rec) == IF rec.type = "stdout" THEN out \o rec.content ELSE out

\* What nginx puts together, one record after the other.
StdoutRuns(s, S) ==
  \E f : /\ f \in [0 .. Len(s) -> S] /\ f[0] = << >>
         /\ \A k \in 1 .. Len(s) : f[k] = Seen(f[k - 1], s[k])
         /\ Stdout(s) = f[Len(s)]

LEMMA StdoutSteps ==
  ASSUME NEW C, NEW s \in Seq(C), NEW S, << >> \in S
  PROVE  (\A k \in 1 .. Len(s) : \A x \in S : Seen(x, s[k]) \in S) => StdoutRuns(s, S)
<1>0. SUFFICES ASSUME \A k \in 1 .. Len(s) : \A x \in S : Seen(x, s[k]) \in S
      PROVE  StdoutRuns(s, S)
  OBVIOUS
<1> DEFINE n == Len(s)
           base == << >>
           step == [p \in (1 .. n) \X S |-> Seen(p[2], s[p[1]])]
           turn(f, t) == IF t = {} THEN base
                         ELSE Seen(f[t \ {Max(t)}], s[Max(t)])
           iter == CHOOSE iter : iter = [t \in SUBSET DOMAIN s |-> turn(iter, t)]
<1>1. DOMAIN s = 1 .. n /\ n \in Nat
  OBVIOUS
<1>a. Stdout(s) = iter[DOMAIN s]
  BY DEF Stdout, Seen, FoldLeft, MapThenFoldSet
<1>2. step \in [(1 .. n) \X S -> S] /\ base \in S
  BY <1>0
<1> HIDE DEF n, base
<1>3. \E h : h = [t \in SUBSET (1 .. n) |-> turn(h, t)]
  <2>1. PICK h : Folded(S, base, n, step, h)
    <3> HIDE DEF step
    <3>1. QED BY <1>1, <1>2, FoldIs
  <2> DEFINE g == [t \in SUBSET (1 .. n) |-> h[t]]
  <2>2. ASSUME NEW t \in SUBSET (1 .. n) PROVE g[t] = turn(g, t)
    BY <2>1 DEF Folded
  <2>3. g = [t \in SUBSET (1 .. n) |-> turn(g, t)]
    <3>1. g = [t \in SUBSET (1 .. n) |-> g[t]]
      OBVIOUS
    <3> HIDE DEF turn, g
    <3>2. QED BY <2>2, <3>1
  <2>4. QED BY <2>3
<1>4. iter = [t \in SUBSET (1 .. n) |-> turn(iter, t)]
  BY <1>1, <1>3
<1>5. \A t \in SUBSET (1 .. n) : iter[t] = turn(iter, t)
  <2> HIDE DEF turn, iter
  <2>1. QED BY <1>4
<1> HIDE DEF iter
<1>6. Iterates(iter, S, base, n, step)
  <2>1. iter[{}] = base
    BY <1>5
  <2>2. ASSUME NEW t \in SUBSET (1 .. n), t # {}, iter[t \ {Max(t)}] \in S
        PROVE  iter[t] = step[<<Max(t), iter[t \ {Max(t)}]>>]
    <3>1. Max(t) \in 1 .. n
      BY <1>1, <2>2, LastIn
    <3>2. QED BY <1>5, <2>2, <3>1
  <2>3. QED BY <2>1, <2>2 DEF Iterates
<1>7. PICK f : Trace(f, S, base, n, step) /\ iter[1 .. n] = f[n]
  <2> HIDE DEF step
  <2>1. HasTrace(iter, S, base, n, step)
    BY <1>1, <1>2, <1>6, TraceOf
  <2>2. QED BY <2>1 DEF HasTrace
<1>8. ASSUME NEW k \in 1 .. n PROVE f[k] = Seen(f[k - 1], s[k])
  <2>1. k - 1 \in 0 .. n
    BY <1>1
  <2>2. <<k, f[k - 1]>> \in (1 .. n) \X S
    BY <1>7, <2>1 DEF Trace
  <2>3. QED BY <1>7, <2>2 DEF Trace
<1>9. QED BY <1>1, <1>a, <1>7, <1>8 DEF StdoutRuns, Trace, n, base

----------------------------------------------------------------------------
(* The page *)

LEMMA Sizes ==
  /\ FCGI_MAX_LENGTH \in Nat /\ FCGI_MAX_LENGTH >= 1
  /\ Align \in Nat /\ Align >= 1 /\ Align <= FCGI_MAX_LENGTH
BY FcgiAssumption DEF FcgiAssumption

\* The padding makes a multiple of Align.
LEMMA Padded ==
  ASSUME NEW n \in Nat
  PROVE  /\ (-n) % Align \in Nat
         /\ (n + ((-n) % Align)) % Align = 0
<1> DEFINE a == Align
           q == (-n) \div a
           r == (-n) % a
           p == (n + r) \div a
           s == (n + r) % a
<1>1. a \in Nat /\ a >= 1 /\ -n \in Int
  BY Sizes
<1>2. q \in Int /\ r \in 0 .. a - 1 /\ -n = a * q + r
  BY <1>1
<1> HIDE DEF a, q
<1>3. r \in Nat /\ n + r \in Nat
  BY <1>1, <1>2
<1>4. p \in Int /\ s \in 0 .. a - 1 /\ n + r = a * p + s
  <2> HIDE DEF r
  <2>1. QED BY <1>1, <1>3
<1> HIDE DEF p, s, r
<1>5. s = a * (-q) - a * p
  <2>1. a * (-q) = -(a * q) /\ a * q \in Int /\ a * p \in Int
    BY <1>1, <1>2, <1>4
  <2>2. n + r = -(a * q)
    BY <1>1, <1>2, <1>3, <2>1
  <2>3. QED BY <1>4, <2>1, <2>2
<1> DEFINE m == (-q) - p
<1>6. s = a * m /\ m \in Int
  <2>1. a * ((-q) - p) = a * (-q) - a * p
    BY <1>1, <1>2, <1>4
  <2>2. QED BY <1>2, <1>4, <1>5, <2>1
<1> HIDE DEF m
<1>7. m = 0
  <2>1. ASSUME m >= 1 PROVE FALSE
    <3>1. a * m >= a * 1
      BY <1>1, <1>6, <2>1
    <3>2. QED BY <1>1, <1>4, <1>6, <3>1
  <2>2. ASSUME m <= -1 PROVE FALSE
    <3>1. a * m <= a * (-1)
      BY <1>1, <1>6, <2>2
    <3>2. QED BY <1>1, <1>4, <1>6, <3>1
  <2>3. QED BY <1>6, <2>1, <2>2
<1>8. s = 0
  BY <1>1, <1>6, <1>7
<1>9. QED BY <1>3, <1>8 DEF s, r, a

\* A record that nginx can read.
Readable(rec) ==
  /\ rec.content \in Seq(Nat) /\ Len(rec.content) <= FCGI_MAX_LENGTH
  /\ (Len(rec.content) + rec.padding) % Align = 0

Stdouts(content, n) == [type |-> "stdout", content |-> content, padding |-> (-n) % Align]

LEMMA StdoutReadable ==
  ASSUME NEW content \in Seq(Nat), NEW n \in Nat, Len(content) = n, n <= FCGI_MAX_LENGTH
  PROVE  Readable(Stdouts(content, n)) /\ Stdouts(content, n).content = content
         /\ Stdouts(content, n).type = "stdout"
<1>1. (n + ((-n) % Align)) % Align = 0
  BY Padded
<1>2. QED BY <1>1 DEF Readable, Stdouts

LEMMA EndsReadable ==
  /\ Readable(endStdout) /\ endStdout.type = "stdout" /\ endStdout.content = << >>
  /\ Readable(endRequest) /\ endRequest.type = "end" /\ endRequest.content # << >>
<1>1. 0 % Align = 0
  <2>1. 0 < Align /\ Align \in Nat
    BY Sizes
  <2>2. QED BY <2>1, WholePart
<1>2. Align % Align = 0
  <2>1. 0 < Align /\ Align \in Nat /\ Align + 0 = Align
    BY Sizes
  <2>2. (Align + 0) % Align = 0
    BY <2>1, WholePart
  <2>3. QED BY <2>1, <2>2
<1>3. Readable(endStdout) /\ endStdout.type = "stdout" /\ endStdout.content = << >>
  <2>1. Len(<< >>) = 0 /\ << >> \in Seq(Nat) /\ 0 + 0 = 0
    OBVIOUS
  <2>2. QED BY <1>1, <2>1, Sizes DEF Readable, endStdout
<1>4. Readable(endRequest) /\ endRequest.type = "end" /\ endRequest.content # << >>
  <2> DEFINE e == [k \in 1 .. Align |-> 0]
  <2>1. e \in Seq(Nat) /\ Len(e) = Align /\ Align + 0 = Align /\ e # << >>
    BY Sizes
  <2>2. endRequest.type = "end" /\ endRequest.content = e /\ endRequest.padding = 0
    BY DEF endRequest
  <2> HIDE DEF e
  <2>3. QED BY <1>2, <2>1, <2>2, Sizes DEF Readable
<1>5. QED BY <1>3, <1>4

\* chunks are readable stdout records with something in them that spell text.
Spells(chunks, text) ==
  /\ \A k \in 1 .. Len(chunks) :
       Readable(chunks[k]) /\ chunks[k].type = "stdout" /\ chunks[k].content # << >>
  /\ \E h : /\ h[0] = << >> /\ h[Len(chunks)] = text
            /\ \A k \in 1 .. Len(chunks) : h[k] = h[k - 1] \o chunks[k].content

\* What nginx sees of chunks that spell the text, and of the two records that
\* end the request.
LEMMA SpelledIsWhole ==
  ASSUME NEW C, NEW chunks \in Seq(C), NEW text \in Seq(Nat), Spells(chunks, text),
         endStdout \in C, endRequest \in C
  PROVE  LET records == chunks \o <<endStdout, endRequest>> IN
         /\ Stdout(records) = text
         /\ \A k \in DOMAIN records :
              /\ Readable(records[k])
              /\ records[k].content = << >> <=> k = Len(records) - 1
              /\ records[k].type = "end" <=> k = Len(records)
<1> DEFINE n == Len(chunks)
           ends == <<endStdout, endRequest>>
           records == chunks \o ends
           S == Seq(Nat)
<1>e. ends \in Seq(C) /\ Len(ends) = 2 /\ ends[1] = endStdout /\ ends[2] = endRequest
  OBVIOUS
<1> HIDE DEF ends
<1>f. Begins(chunks, records) /\ Behind(records, n, ends) /\ n \in Nat
  BY <1>e, Placed
<1>1. records \in Seq(C) /\ Len(records) = n + 2 /\ DOMAIN records = 1 .. n + 2 /\ n \in Nat
  <2>1. records \in Seq(C)
    BY <1>e
  <2>2. Len(records) = n + Len(ends)
    BY <1>e, Placed
  <2> HIDE DEF records
  <2>3. QED BY <1>e, <1>f, <2>1, <2>2
<1> HIDE DEF records
<1>c. \A k \in 1 .. n : records[k] = chunks[k]
  BY <1>f DEF Begins
<1>d. records[n + 1] = endStdout /\ records[n + 2] = endRequest
  BY <1>e, <1>f DEF Behind
<1>a. ASSUME NEW k, k = n + 1 PROVE records[k] = endStdout /\ k # n + 2
  BY <1>d, <1>f, <1>a
<1>b. ASSUME NEW k, k = n + 2 PROVE records[k] = endRequest /\ k # n + 1
  BY <1>d, <1>f, <1>b
<1>2. ASSUME NEW k \in 1 .. n + 2
      PROVE  /\ Readable(records[k])
             /\ records[k].content = << >> <=> k = n + 1
             /\ records[k].type = "end" <=> k = n + 2
  <2>1. CASE k \in 1 .. n
    <3>1. Readable(chunks[k]) /\ chunks[k].type = "stdout" /\ chunks[k].content # << >>
      BY <2>1 DEF Spells
    <3>2. k # n + 1 /\ k # n + 2 /\ records[k] = chunks[k]
      BY <1>1, <1>c, <2>1
    <3>3. QED BY <3>1, <3>2
  <2>2. CASE k = n + 1
    <3>1. k # n + 2 /\ records[k] = endStdout
      BY <1>a, <2>2
    <3>2. QED BY <2>2, <3>1, EndsReadable
  <2>3. CASE k = n + 2
    <3>1. k # n + 1 /\ records[k] = endRequest
      BY <1>b, <2>3
    <3>2. QED BY <2>3, <3>1, EndsReadable
  <2>4. k \in 1 .. n \/ k = n + 1 \/ k = n + 2
    BY <1>1
  <2>5. QED BY <2>1, <2>2, <2>3, <2>4
<1>3. Stdout(records) = text
  <2>1. << >> \in S
    OBVIOUS
  <2>2. \A k \in 1 .. Len(records) : \A x \in S : Seen(x, records[k]) \in S
    <3>1. ASSUME NEW k \in 1 .. Len(records), NEW x \in S PROVE Seen(x, records[k]) \in S
      <4>1. records[k].content \in Seq(Nat)
        BY <1>1, <1>2 DEF Readable
      <4>2. QED BY <4>1 DEF Seen
    <3>2. QED BY <3>1
  <2>3. PICK f : /\ f \in [0 .. Len(records) -> S] /\ f[0] = << >>
                 /\ \A k \in 1 .. Len(records) : f[k] = Seen(f[k - 1], records[k])
                 /\ Stdout(records) = f[Len(records)]
    <3> HIDE DEF S
    <3>1. StdoutRuns(records, S)
      BY <1>1, <2>1, <2>2, StdoutSteps
    <3>2. QED BY <3>1 DEF StdoutRuns
  <2>4. PICK h : /\ h[0] = << >> /\ h[n] = text
                 /\ \A k \in 1 .. n : h[k] = h[k - 1] \o chunks[k].content
    BY DEF Spells
  <2> DEFINE P == [k \in 0 .. n |-> {h[k]}]
  <2>5. f[0] \in P[0]
    BY <1>1, <2>3, <2>4
  <2>6. ASSUME NEW k \in 1 .. n, f[k - 1] \in P[k - 1] PROVE f[k] \in P[k]
    <3>1. P[k - 1] = {h[k - 1]} /\ P[k] = {h[k]} /\ k \in 1 .. Len(records)
      BY <1>1
    <3>2. records[k] = chunks[k] /\ chunks[k].type = "stdout"
      BY <1>c DEF Spells
    <3> HIDE DEF P
    <3>3. f[k] = f[k - 1] \o chunks[k].content
      BY <2>3, <3>1, <3>2 DEF Seen
    <3>4. QED BY <2>4, <2>6, <3>1, <3>3
  <2>7. f[n] = text
    <3>1. n \in 0 .. n /\ P[n] = {h[n]}
      BY <1>1
    <3> HIDE DEF P, n
    <3>2. \A k \in 0 .. n : f[k] \in P[k]
      BY <1>1, <2>5, <2>6, Reaches
    <3>3. QED BY <2>4, <3>1, <3>2
  <2>8. f[n + 1] = text
    <3>1. n + 1 \in 1 .. Len(records) /\ (n + 1) - 1 = n
      BY <1>1
    <3>2. f[n + 1] = Seen(f[n], endStdout)
      <4>1. f[n + 1] = Seen(f[(n + 1) - 1], records[n + 1])
        BY <2>3, <3>1
      <4>2. QED BY <1>a, <3>1, <4>1
    <3>3. f[n + 1] = f[n] \o << >>
      BY <3>2, EndsReadable DEF Seen
    <3>4. QED BY <2>7, <3>3
  <2>9. f[n + 2] = text
    <3>1. n + 2 \in 1 .. Len(records) /\ (n + 2) - 1 = n + 1
      BY <1>1
    <3>2. f[n + 2] = Seen(f[n + 1], endRequest)
      <4>1. f[n + 2] = Seen(f[(n + 2) - 1], records[n + 2])
        BY <2>3, <3>1
      <4>2. QED BY <1>b, <3>1, <4>1
    <3>3. QED BY <2>8, <3>2, EndsReadable DEF Seen
  <2>10. QED BY <1>1, <2>3, <2>9
<1>4. Len(records) - 1 = n + 1
  BY <1>1
<1>5. QED BY <1>1, <1>2, <1>3, <1>4 DEF records, ends

LEMMA Quotient ==
  ASSUME NEW n \in Nat, NEW m \in Nat, m >= 1
  PROVE  n \div m \in Nat /\ (n \div m) * m <= n /\ n - ((n \div m) * m) < m
<1> DEFINE q == n \div m
           r == n % m
<1>1. q \in Int /\ r \in 0 .. m - 1 /\ n = m * q + r
  OBVIOUS
<1> HIDE DEF q, r
<1>2. q >= 0
  <2>1. ASSUME q <= -1 PROVE FALSE
    <3>1. m * q <= m * (-1)
      BY <1>1, <2>1
    <3>2. QED BY <1>1, <3>1
  <2>2. QED BY <1>1, <2>1
<1>3. q * m = m * q /\ m * q \in Int
  BY <1>1
<1>4. QED BY <1>1, <1>2, <1>3 DEF q

LEMMA Pieces ==
  ASSUME NEW E, NEW s \in Seq(E), NEW a \in Nat, NEW b \in Nat, a <= b, b <= Len(s)
  PROVE  SubSeq(s, 1, a) \o SubSeq(s, a + 1, b) = SubSeq(s, 1, b)
<1> DEFINE x == SubSeq(s, 1, a)
           y == SubSeq(s, a + 1, b)
           z == SubSeq(s, 1, b)
<1>1. /\ x \in Seq(E) /\ Len(x) = a /\ \A k \in 1 .. a : x[k] = s[k]
  OBVIOUS
<1>2. /\ y \in Seq(E) /\ Len(y) = b - a /\ \A k \in 1 .. b - a : y[k] = s[a + k]
  BY Part
<1>3. /\ z \in Seq(E) /\ Len(z) = b /\ \A k \in 1 .. b : z[k] = s[k]
  OBVIOUS
<1> HIDE DEF x, y, z
<1>4. Begins(x, x \o y) /\ Behind(x \o y, Len(x), y)
  BY <1>1, <1>2, Placed
<1>5. x \o y \in Seq(E) /\ Len(x \o y) = b
  <2>1. x \o y \in Seq(E)
    BY <1>1, <1>2
  <2>2. Len(x \o y) = Len(x) + Len(y)
    BY <1>1, <1>2, Placed
  <2>3. QED BY <1>1, <1>2, <2>1, <2>2
<1>6. ASSUME NEW k \in 1 .. b PROVE (x \o y)[k] = z[k]
  <2>1. CASE k <= a
    <3>1. k \in 1 .. a
      BY <2>1
    <3>2. QED BY <1>1, <1>3, <1>4, <3>1 DEF Begins
  <2>2. CASE ~(k <= a)
    <3> DEFINE j == k - a
    <3>1. j \in 1 .. b - a /\ a + j = k
      BY <2>2
    <3> HIDE DEF j
    <3>2. (x \o y)[a + j] = y[j]
      BY <1>1, <1>2, <1>4, <3>1 DEF Behind
    <3>3. QED BY <1>2, <1>3, <3>1, <3>2
  <2>3. QED BY <2>1, <2>2
<1> DEFINE w == x \o y
<1>7. w = z
  <2>1. w \in Seq(E) /\ Len(w) = b /\ \A k \in 1 .. b : w[k] = z[k]
    BY <1>5, <1>6
  <2> HIDE DEF w
  <2>2. QED BY <1>3, <2>1, Alike
<1>8. QED BY <1>7 DEF w, x, y, z

Records == [type : {"stdout", "end"}, content : Seq(Nat), padding : Nat]

LEMMA RecordsMade ==
  /\ endStdout \in Records /\ endRequest \in Records
  /\ \A content \in Seq(Nat), n \in Nat : Stdouts(content, n) \in Records
<1>1. endStdout \in Records
  <2>1. << >> \in Seq(Nat)
    OBVIOUS
  <2>2. QED BY <2>1 DEF Records, endStdout
<1>2. endRequest \in Records
  <2>1. [k \in 1 .. Align |-> 0] \in Seq(Nat)
    BY Sizes
  <2>2. QED BY <2>1 DEF Records, endRequest
<1>3. ASSUME NEW content \in Seq(Nat), NEW n \in Nat PROVE Stdouts(content, n) \in Records
  <2>1. (-n) % Align \in Nat
    BY Padded
  <2>2. QED BY <2>1 DEF Records, Stdouts
<1>4. QED BY <1>1, <1>2, <1>3

LEMMA ShortSpells ==
  ASSUME NEW text \in Seq(Nat), text # << >>, Len(text) <= FCGI_MAX_LENGTH
  PROVE  LET c == <<Stdouts(text, Len(text))>> IN c \in Seq(Records) /\ Spells(c, text)
<1> DEFINE r == Stdouts(text, Len(text))
           c == <<r>>
           h == [k \in 0 .. 1 |-> IF k = 0 THEN << >> ELSE text]
<1>1. Len(text) \in Nat
  OBVIOUS
<1>2. r \in Records /\ Readable(r) /\ r.content = text /\ r.type = "stdout"
  BY <1>1, RecordsMade, StdoutReadable
<1> HIDE DEF r
<1>3. c \in Seq(Records) /\ Len(c) = 1 /\ c[1] = r
  BY <1>2
<1>4. h[0] = << >> /\ h[1] = text /\ << >> \o text = text
  OBVIOUS
<1> HIDE DEF c, h
<1>5. \A k \in 1 .. Len(c) : k = 1
  BY <1>3
<1>6. \A k \in 1 .. Len(c) : h[k] = h[k - 1] \o c[k].content
  <2>1. h[1] = h[0] \o c[1].content
    BY <1>2, <1>3, <1>4
  <2>2. ASSUME NEW k \in 1 .. Len(c) PROVE k = 1 /\ k - 1 = 0
    BY <1>5
  <2>3. QED BY <2>1, <2>2
<1>7. Spells(c, text)
  BY <1>2, <1>3, <1>4, <1>5, <1>6 DEF Spells
<1>8. QED BY <1>3, <1>7 DEF c, r

LEMMA LongSpells ==
  ASSUME NEW text \in Seq(Nat)
  PROVE  LET c == FullChunks(text) \o LastChunk(text) IN
         c \in Seq(Records) /\ Spells(c, text)
<1> DEFINE M == FCGI_MAX_LENGTH
           L == Len(text)
           F == Full(text)
           fc == FullChunks(text)
           rest == SubSeq(text, F * M + 1, L)
           lc == LastChunk(text)
           c == fc \o lc
           h == [k \in 0 .. Len(c) |-> IF k <= F THEN SubSeq(text, 1, k * M) ELSE text]
<1>1. M \in Nat /\ M >= 1 /\ L \in Nat
  BY Sizes
<1>2. F \in Nat /\ F * M <= L /\ L - F * M < M /\ F * M \in Nat
  <2>1. F \in Nat /\ F * M <= L /\ L - F * M < M
    BY <1>1, Quotient DEF Full
  <2> HIDE DEF F
  <2>2. QED BY <1>1, <2>1
<1>3. fc = [k \in 1 .. F |-> Chunk(text, k, M)]
  BY DEF FullChunks
<1> HIDE DEF F
<1>4. ASSUME NEW k \in 1 .. F
      PROVE  LET x == SubSeq(text, (k - 1) * M + 1, k * M) IN
             /\ Chunk(text, k, M) = Stdouts(x, M)
             /\ x \in Seq(Nat) /\ Len(x) = M
             /\ SubSeq(text, 1, (k - 1) * M) \o x = SubSeq(text, 1, k * M)
  <2> DEFINE a == (k - 1) * M
             b == k * M
             x == SubSeq(text, a + 1, b)
  <2>1. a \in Nat /\ b \in Nat /\ b = a + M /\ b <= L
    <3>1. k * M <= F * M
      BY <1>1, <1>2
    <3>2. (k - 1) * M = k * M - M /\ k * M \in Nat /\ k * M >= M
      <4>1. k * M >= 1 * M
        BY <1>1
      <4>2. QED BY <1>1, <4>1
    <3> HIDE DEF M, L
    <3>3. b = k * M /\ a = (k - 1) * M
      OBVIOUS
    <3> HIDE DEF a, b
    <3>4. b \in Nat /\ b >= M /\ b <= F * M /\ a = b - M
      BY <3>1, <3>2, <3>3
    <3> DEFINE e == F * M
    <3>5. e \in Nat /\ e <= L /\ b <= e
      BY <1>2, <3>4
    <3> HIDE DEF e
    <3>6. QED BY <1>1, <3>4, <3>5
  <2>2. Chunk(text, k, M) = Stdouts(x, M)
    BY DEF Chunk, Stdouts
  <2> HIDE DEF a, b, L, M
  <2>3. b - a = M /\ a <= b /\ b <= Len(text)
    BY <1>1, <2>1 DEF L
  <2>4. x \in Seq(Nat) /\ Len(x) = M
    BY <2>1, <2>3, Part
  <2>5. SubSeq(text, 1, a) \o x = SubSeq(text, 1, b)
    BY <2>1, <2>3, Pieces
  <2>6. QED BY <2>2, <2>4, <2>5 DEF a, b, M
<1>5. fc \in Seq(Records) /\ Len(fc) = F
  <2>1. \A k \in 1 .. F : Chunk(text, k, M) \in Records
    BY <1>1, <1>4, RecordsMade
  <2> HIDE DEF fc
  <2>2. QED BY <1>2, <1>3, <2>1
<1>6. ASSUME NEW k \in 1 .. F
      PROVE  /\ Readable(fc[k]) /\ fc[k].type = "stdout" /\ fc[k].content # << >>
             /\ SubSeq(text, 1, (k - 1) * M) \o fc[k].content = SubSeq(text, 1, k * M)
  <2> DEFINE x == SubSeq(text, (k - 1) * M + 1, k * M)
  <2>1. fc[k] = Stdouts(x, M) /\ x \in Seq(Nat) /\ Len(x) = M
        /\ SubSeq(text, 1, (k - 1) * M) \o x = SubSeq(text, 1, k * M)
    <3>1. fc[k] = Chunk(text, k, M)
      <4> HIDE DEF fc
      <4>1. QED BY <1>3
    <3> HIDE DEF fc
    <3>2. QED BY <1>4, <3>1
  <2> HIDE DEF x, fc
  <2>2. x # << >>
    BY <1>1, <2>1
  <2>3. Readable(Stdouts(x, M)) /\ Stdouts(x, M).content = x /\ Stdouts(x, M).type = "stdout"
    BY <1>1, <2>1, StdoutReadable
  <2>4. QED BY <2>1, <2>2, <2>3
<1> HIDE DEF fc
<1>7. CASE rest = << >>
  <2>1. lc = << >>
    BY <1>7 DEF LastChunk, F
  <2>2. c = fc
    <3> HIDE DEF lc
    <3>1. QED BY <1>5, <2>1, Nothing
  <2>3. F * M = L
    <3>1. rest \in Seq(Nat) /\ Len(rest) = L - F * M
      <4> DEFINE o == F * M
      <4>1. o \in Nat /\ o <= Len(text)
        BY <1>2
      <4> HIDE DEF o
      <4>2. SubSeq(text, o + 1, Len(text)) \in Seq(Nat) /\ Len(SubSeq(text, o + 1, Len(text))) = Len(text) - o
        BY <4>1, Rest
      <4>3. QED BY <4>2 DEF o
    <3> HIDE DEF rest
    <3>2. Len(rest) = 0
      BY <1>7
    <3> DEFINE o == F * M
    <3>3. o \in Nat /\ Len(rest) = L - o
      BY <1>2, <3>1
    <3> HIDE DEF o
    <3>4. o = L
      BY <1>1, <3>2, <3>3
    <3>5. QED BY <3>4 DEF o
  <2>4. ASSUME NEW k \in 0 .. F PROVE h[k] = SubSeq(text, 1, k * M)
    <3>1. k \in 0 .. Len(c) /\ k <= F
      <4> HIDE DEF c
      <4>1. QED BY <1>2, <1>5, <2>2
    <3> HIDE DEF c
    <3>2. QED BY <3>1
  <2>5. h[0] = << >> /\ h[F] = text
    <3>1. 0 \in 0 .. F /\ F \in 0 .. F /\ 0 * M = 0
      BY <1>1, <1>2
    <3>2. SubSeq(text, 1, 0) = << >> /\ SubSeq(text, 1, L) = text
      OBVIOUS
    <3> HIDE DEF h, L
    <3>3. QED BY <2>3, <2>4, <3>1, <3>2
  <2>6. ASSUME NEW k \in 1 .. F PROVE h[k] = h[k - 1] \o fc[k].content
    <3>1. k - 1 \in 0 .. F /\ k \in 0 .. F
      BY <1>2
    <3> HIDE DEF h
    <3>2. QED BY <1>6, <2>4, <3>1
  <2>7. Spells(fc, text)
    <3> HIDE DEF h
    <3>1. QED BY <1>5, <1>6, <2>5, <2>6 DEF Spells
  <2>8. QED BY <1>5, <2>2, <2>7 DEF fc, lc
<1>8. CASE rest # << >>
  <2> DEFINE r == Stdouts(rest, Len(rest))
             o == F * M
  <2>1. lc = <<r>>
    BY <1>8 DEF LastChunk, Stdouts, F
  <2>2. o \in Nat /\ o <= L /\ L - o < M
    BY <1>2
  <2>3. rest \in Seq(Nat) /\ Len(rest) = L - o
    <3> HIDE DEF o
    <3>1. QED BY <2>2, Rest DEF o
  <2>4. SubSeq(text, 1, o) \o rest = text
    <3>1. SubSeq(text, 1, o) \o SubSeq(text, o + 1, L) = SubSeq(text, 1, L)
      <4>1. L <= Len(text)
        BY <1>1
      <4> HIDE DEF o, L
      <4>2. L \in Nat /\ o \in Nat /\ o <= L /\ L <= Len(text)
        BY <1>1, <2>2, <4>1
      <4>3. QED BY <4>2, Pieces
    <3>2. SubSeq(text, 1, L) = text
      OBVIOUS
    <3>3. QED BY <3>1, <3>2
  <2> HIDE DEF rest, o
  <2>5. r \in Records /\ Readable(r) /\ r.content = rest /\ r.type = "stdout"
    <3>1. Len(rest) \in Nat /\ Len(rest) <= M
      BY <1>1, <2>2, <2>3
    <3>2. QED BY <2>3, <3>1, RecordsMade, StdoutReadable
  <2> HIDE DEF r
  <2>6. lc \in Seq(Records) /\ Len(lc) = 1 /\ lc[1] = r
    BY <2>1, <2>5
  <2> HIDE DEF lc
  <2>7. Begins(fc, c) /\ Behind(c, F, lc)
    BY <1>5, <2>6, Placed
  <2>8. c \in Seq(Records) /\ Len(c) = F + 1
    <3>1. c \in Seq(Records)
      BY <1>5, <2>6
    <3>2. Len(c) = Len(fc) + Len(lc)
      BY <1>5, <2>6, Placed
    <3> HIDE DEF c
    <3>3. QED BY <1>5, <2>6, <3>1, <3>2
  <2>9. ASSUME NEW k \in 0 .. F PROVE h[k] = SubSeq(text, 1, k * M)
    <3>1. k \in 0 .. Len(c) /\ k <= F
      <4> HIDE DEF c
      <4>1. QED BY <1>2, <2>8
    <3> HIDE DEF c
    <3>2. QED BY <3>1
  <2>10. h[F + 1] = text
    <3>1. F + 1 \in 0 .. Len(c) /\ ~(F + 1 <= F)
      <4> HIDE DEF c
      <4>1. QED BY <1>2, <2>8
    <3> HIDE DEF c
    <3>2. QED BY <3>1
  <2>11. h[0] = << >>
    <3>1. 0 \in 0 .. F /\ 0 * M = 0 /\ SubSeq(text, 1, 0) = << >>
      BY <1>1, <1>2
    <3> HIDE DEF h
    <3>2. QED BY <2>9, <3>1
  <2> HIDE DEF c, h
  <2>12. ASSUME NEW k \in 1 .. F
         PROVE  c[k] = fc[k] /\ h[k] = h[k - 1] \o fc[k].content
    <3>1. k - 1 \in 0 .. F /\ k \in 0 .. F
      BY <1>2
    <3>2. c[k] = fc[k]
      BY <1>5, <2>7 DEF Begins
    <3>3. QED BY <1>6, <2>9, <3>1, <3>2
  <2>13. c[F + 1] = r /\ h[F + 1] = h[(F + 1) - 1] \o c[F + 1].content
    <3>1. c[F + 1] = r
      BY <2>6, <2>7 DEF Behind
    <3>2. (F + 1) - 1 = F /\ F \in 0 .. F
      BY <1>2
    <3>3. h[F] = SubSeq(text, 1, o)
      BY <2>9, <3>2 DEF o
    <3>4. QED BY <2>4, <2>5, <2>10, <3>1, <3>2, <3>3
  <2>14. ASSUME NEW k \in 1 .. Len(c)
         PROVE  /\ Readable(c[k]) /\ c[k].type = "stdout" /\ c[k].content # << >>
                /\ h[k] = h[k - 1] \o c[k].content
    <3>1. k \in 1 .. F \/ k = F + 1
      BY <1>2, <2>8
    <3>2. CASE k \in 1 .. F
      BY <1>6, <2>12, <3>2
    <3>3. CASE k = F + 1
      BY <1>8, <2>5, <2>13, <3>3
    <3>4. QED BY <3>1, <3>2, <3>3
  <2>15. Spells(c, text)
    BY <2>8, <2>10, <2>11, <2>14 DEF Spells
  <2>16. QED BY <2>8, <2>15 DEF c, fc, lc
<1>9. QED BY <1>7, <1>8

\* What nginx is to get of a page.
Page(out) == IF out = << >> THEN EmptyResult ELSE out

\* Whatever the page, its records can be read and spell it, and end it once.
LEMMA RespondsWhole ==
  ASSUME NEW out \in Seq(Nat)
  PROVE  LET records == respond(out) IN
         /\ Stdout(records) = Page(out)
         /\ \A k \in DOMAIN records :
              /\ Readable(records[k])
              /\ records[k].content = << >> <=> k = Len(records) - 1
              /\ records[k].type = "end" <=> k = Len(records)
<1> DEFINE text == Page(out)
           c == IF Len(text) <= FCGI_MAX_LENGTH THEN <<Stdouts(text, Len(text))>>
                ELSE FullChunks(text) \o LastChunk(text)
<1>1. text \in Seq(Nat) /\ text # << >>
  BY DEF Page, EmptyResult
<1>2. respond(out) = c \o <<endStdout, endRequest>>
  BY DEF respond, Stdouts, Page
<1> HIDE DEF text
<1>3. c \in Seq(Records) /\ Spells(c, text)
  <2>1. CASE Len(text) <= FCGI_MAX_LENGTH
    BY <1>1, <2>1, ShortSpells
  <2>2. CASE ~(Len(text) <= FCGI_MAX_LENGTH)
    BY <1>1, <2>2, LongSpells
  <2>3. QED BY <2>1, <2>2
<1> HIDE DEF c
<1>4. endStdout \in Records /\ endRequest \in Records
  BY RecordsMade
<1>5. QED BY <1>1, <1>2, <1>3, <1>4, SpelledIsWhole DEF text

----------------------------------------------------------------------------
(* The invariant: what nginx has sent and the gateway holds, phase by      *)
(* phase, are the streams that the browser's forms make.                   *)

Codec(got, map, in, stream, close) ==
  [gotRequest_ |-> got, params_ |-> map, stdin_ |-> in, paramsStream_ |-> stream,
   bWaitClose |-> close]

CodecIs(c) ==
  c = Codec(c.gotRequest_, c.params_, c.stdin_, c.paramsStream_, c.bWaitClose)

Streams(q) == {ParamStream(q, type) : type \in {<< >>, Standard}}

TypeOK ==
  /\ CodecIs(codec) /\ codec.gotRequest_ \in BOOLEAN /\ codec.bWaitClose \in BOOLEAN
  /\ codec.stdin_ \in BufferOf(Char) /\ codec.paramsStream_ \in BufferOf(Char)
  /\ typed \in Form \X Form /\ post \in Seq(Char)
  /\ sending \in {"none", "begin", "params", "endOfParams", "stdin", "endOfStdin"}
  /\ \E S : asked \in Seq(S)

Fresh(c) == Holds(c.stdin_, << >>) /\ Holds(c.paramsStream_, << >>) /\ c.params_ = NoParams

\* No request is answered, and none given up, before all of it is there.
NotYet ==
  sending # "none" => /\ ~codec.gotRequest_ /\ ~codec.bWaitClose /\ asked = << >>
                      /\ typed[2] \in QueryForms

\* A request finds nothing of the one before it.
Cleaned == sending = "begin" \/ (sending = "none" /\ ~codec.gotRequest_) => Fresh(codec)

Beginning ==
  sending = "begin" => params \in Streams(typed[2]) /\ post = FormData(typed[1])

ReadingParams ==
  sending \in {"params", "endOfParams"} =>
    /\ codec.params_ = NoParams /\ Content(codec.stdin_) = << >> /\ post = FormData(typed[1])
    /\ params \in Seq(Char)
    /\ Content(codec.paramsStream_) \o params \in Streams(typed[2])
    /\ sending = "endOfParams" => params = << >>

ReadingBody ==
  sending \in {"stdin", "endOfStdin"} =>
    /\ Value(codec.params_, QUERY_STRING) = FormData(typed[2])
    /\ Content(codec.stdin_) \o post = FormData(typed[1])
    /\ sending = "endOfStdin" => post = << >>

AskedFirst == codec.gotRequest_ => asked # << >>

PageMade == page = NoPage \/ (page \in Seq(Nat) /\ reply = respond(page))

FcgiInv ==
  /\ TypeOK /\ NotYet /\ Cleaned /\ Beginning /\ ReadingParams /\ ReadingBody
  /\ AskedFirst /\ AskedAsTyped /\ NothingGivenUp /\ PageMade

LEMMA FormsAre == QueryForms \subseteq Form /\ PostForms \subseteq Form
BY FcgiAssumption DEF FcgiAssumption, Form

LEMMA FormDataIs ==
  ASSUME NEW pairs \in Form
  PROVE  FormData(pairs) \in Seq(Char)
BY FormBlocks

LEMMA StreamIs ==
  ASSUME NEW q \in QueryForms, NEW s \in Streams(q)
  PROVE  s \in Seq(Char) /\ s # << >>
<1>1. PICK type \in {<< >>, Standard} : s = ParamStream(q, type)
  BY DEF Streams
<1> DEFINE first == Param(QUERY_STRING, FormData(q))
           t == IF type = << >> THEN << >> ELSE Param(CONTENT_TYPE, type)
<1>2. first \in Seq(Char) /\ Len(first) >= 2
  BY Sent, ParamIs
<1>3. t \in Seq(Char)
  <2>1. CASE type = << >>
    BY <2>1
  <2>2. CASE type # << >>
    <3>1. type = Standard
      BY <2>2
    <3>2. Param(CONTENT_TYPE, type) \in Seq(Char)
      BY <3>1, Sent, ParamIs
    <3>3. QED BY <2>2, <3>2
  <2>3. QED BY <2>1, <2>2
<1>4. s = first \o t
  BY <1>1 DEF ParamStream
<1> HIDE DEF first, t
<1>5. s \in Seq(Char) /\ Len(s) = Len(first) + Len(t) /\ Len(t) \in Nat
  BY <1>2, <1>3, <1>4
<1>6. QED BY <1>2, <1>5

LEMMA ZeroIsChar == 0 \in Char
BY Characters DEF Char

LEMMA NothingHeld ==
  ASSUME NEW b \in BufferOf(Char), b.r = b.w
  PROVE  Holds(b, << >>)
<1>1. Content(b) \in Seq(Char) /\ Len(Content(b)) = b.w - b.r
  BY ContentIs
<1>2. b.w - b.r = 0
  BY Fields
<1>3. Content(b) = << >>
  BY <1>1, <1>2
<1>4. QED BY <1>3 DEF Holds

LEMMA AllRetrieved ==
  ASSUME NEW d, NEW r, NEW w
  PROVE  retrieveAll([data |-> d, r |-> r, w |-> w])
           = [data |-> d, r |-> kCheapPrepend, w |-> kCheapPrepend]
<1> DEFINE b == [data |-> d, r |-> r, w |-> w]
           c == retrieveAll(b)
           k == kCheapPrepend
<1>1. c = [b EXCEPT !.r = k, !.w = k]
  BY DEF retrieveAll
<1> HIDE DEF c, k
<1>2. c = [data |-> d, r |-> k, w |-> k]
  BY <1>1
<1>3. QED BY <1>2 DEF c, k

LEMMA RetrievesAll ==
  ASSUME NEW b \in BufferOf(Char)
  PROVE  Holds(retrieveAll(b), << >>)
<1> DEFINE a == [data |-> b.data, r |-> kCheapPrepend, w |-> kCheapPrepend]
<1>1. retrieveAll(b) = a
  <2> DEFINE d == b.data
             r == b.r
             w == b.w
  <2>1. b = [data |-> d, r |-> r, w |-> w]
    BY DEF BufferOf
  <2> HIDE DEF d, r, w
  <2>2. retrieveAll(b) = [data |-> d, r |-> kCheapPrepend, w |-> kCheapPrepend]
    BY <2>1, AllRetrieved
  <2>3. QED BY <2>2 DEF d
<1>2. a \in BufferOf(Char)
  BY Fields, BufferMade
<1>3. Holds(a, << >>)
  <2>1. a.r = a.w
    OBVIOUS
  <2> HIDE DEF a
  <2>2. QED BY <1>2, <2>1, NothingHeld
<1>4. QED BY <1>1, <1>3

LEMMA NewHoldsNothing == Holds(NewBuffer, << >>)
<1> DEFINE n == kCheapPrepend + kInitialSize
           d == [k \in 1 .. n |-> 0]
           a == [data |-> d, r |-> kCheapPrepend, w |-> kCheapPrepend]
<1>1. kCheapPrepend \in Nat /\ n \in Nat /\ kCheapPrepend <= n
  BY BufferAssumption DEF BufferAssumption
<1>2. d \in Seq(Char) /\ Len(d) = n
  BY <1>1, ZeroIsChar
<1>3. NewBuffer = a
  BY DEF NewBuffer
<1> HIDE DEF d, n
<1>4. a \in BufferOf(Char)
  BY <1>1, <1>2, BufferMade
<1>5. a.r = a.w
  OBVIOUS
<1> HIDE DEF a
<1>6. QED BY <1>3, <1>4, <1>5, NothingHeld

LEMMA LeastOfTwo ==
  ASSUME NEW a \in Nat, NEW b \in Nat
  PROVE  Min({a, b}) \in Nat /\ Min({a, b}) <= b
<1>1. \E x \in {a, b} : \A y \in {a, b} : x <= y
  <2>1. CASE a <= b
    BY <2>1
  <2>2. CASE ~(a <= b)
    BY <2>2
  <2>3. QED BY <2>1, <2>2
<1>2. Min({a, b}) \in {a, b} /\ \A y \in {a, b} : Min({a, b}) <= y
  BY <1>1 DEF Min
<1>3. QED BY <1>2

\* One record more of a stream: what is held and what is still to come make
\* the stream as before.
LEMMA OneRecord ==
  ASSUME NEW b \in BufferOf(Char), NEW bytes \in Seq(Char), NEW n \in Cuts(bytes)
  PROVE  LET a == append(b, SubSeq(bytes, 1, n))
             rest == SubSeq(bytes, n + 1, Len(bytes))
         IN  /\ a \in BufferOf(Char) /\ rest \in Seq(Char)
             /\ Content(a) \o rest = Content(b) \o bytes
             /\ n = Len(bytes) => rest = << >>
<1> DEFINE x == SubSeq(bytes, 1, n)
           y == SubSeq(bytes, n + 1, Len(bytes))
           a == append(b, x)
           c == Content(b)
<1>1. n \in Nat /\ n <= Len(bytes) /\ Len(bytes) \in Nat
  <2>1. PICK m \in Piece : n = Min({m, Len(bytes)})
    BY DEF Cuts
  <2>2. m \in Nat /\ Len(bytes) \in Nat
    BY FcgiAssumption DEF FcgiAssumption
  <2>3. QED BY <2>1, <2>2, LeastOfTwo
<1>2. x \in Seq(Char)
  BY <1>1
<1>3. y \in Seq(Char) /\ Len(y) = Len(bytes) - n
  BY <1>1, Rest
<1>4. x \o y = bytes
  <2> DEFINE l == Len(bytes)
  <2>a. l \in Nat /\ n \in Nat /\ n <= l /\ l <= Len(bytes)
    BY <1>1
  <2>b. SubSeq(bytes, 1, n) \o SubSeq(bytes, n + 1, l) = SubSeq(bytes, 1, l)
    <3> HIDE DEF l
    <3>1. QED BY <2>a, Pieces
  <2>1. x \o y = SubSeq(bytes, 1, Len(bytes))
    BY <2>b
  <2>2. SubSeq(bytes, 1, Len(bytes)) = bytes
    OBVIOUS
  <2>3. QED BY <2>1, <2>2
<1> HIDE DEF x, y
<1>5. a \in BufferOf(Char) /\ Content(a) = c \o x
  BY <1>2, ZeroIsChar, AppendIsConcatenation
<1>6. c \in Seq(Char)
  BY ContentIs
<1> HIDE DEF a, c
<1>7. (c \o x) \o y = c \o (x \o y)
  BY <1>2, <1>3, <1>6
<1>8. n = Len(bytes) => y = << >>
  BY <1>1, <1>3
<1>9. QED BY <1>3, <1>4, <1>5, <1>7, <1>8 DEF a, c, x, y

----------------------------------------------------------------------------
(* Every action keeps it. *)

LEMMA FcgiInitInv == FcgiInit => FcgiInv
<1> SUFFICES ASSUME FcgiInit PROVE FcgiInv
  OBVIOUS
<1>1. Fresh(Idle)
  BY NewHoldsNothing DEF Fresh, Idle
<1>2. CodecIs(Idle) /\ Idle.gotRequest_ = FALSE /\ Idle.bWaitClose = FALSE
  BY DEF CodecIs, Codec, Idle
<1>3. << >> \in Form /\ << >> \in Seq(Char)
  BY DEF Form
<1>4. codec = Idle /\ sending = "none" /\ asked = << >> /\ page = NoPage
      /\ post = << >> /\ typed = <<<< >>, << >>>>
  BY DEF FcgiInit
<1> HIDE DEF FcgiInit
<1>5. TypeOK
  <2>1. codec.stdin_ \in BufferOf(Char) /\ codec.paramsStream_ \in BufferOf(Char)
    BY <1>1, <1>4 DEF Fresh, Holds
  <2>2. typed \in Form \X Form
    BY <1>3, <1>4
  <2>3. asked \in Seq({})
    BY <1>4
  <2>4. QED BY <1>2, <1>3, <1>4, <2>1, <2>2, <2>3 DEF TypeOK
<1>6. NotYet /\ Beginning /\ ReadingParams /\ ReadingBody
  BY <1>4 DEF NotYet, Beginning, ReadingParams, ReadingBody
<1>7. Cleaned
  BY <1>1, <1>4 DEF Cleaned
<1>8. AskedFirst /\ AskedAsTyped /\ NothingGivenUp /\ PageMade
  BY <1>2, <1>4 DEF AskedFirst, AskedAsTyped, NothingGivenUp, PageMade
<1>9. QED BY <1>5, <1>6, <1>7, <1>8 DEF FcgiInv

\* A request finds a new codec or one that was cleared.
LEMMA RequestOK == FcgiInv /\ Request => FcgiInv'
<1> SUFFICES ASSUME FcgiInv, Request PROVE FcgiInv'
  OBVIOUS
<1>1. PICK q \in QueryForms, p \in PostForms, type \in {<< >>, Standard} :
        /\ typed' = <<p, q>> /\ post' = FormData(p) /\ params' = ParamStream(q, type)
  BY DEF Request
<1>2. /\ sending = "none" /\ ~codec.gotRequest_ /\ sending' = "begin"
      /\ codec' = IF codec.bWaitClose THEN Idle ELSE codec
      /\ asked' = << >> /\ page' = NoPage /\ reply' = << >>
  BY DEF Request
<1>3. Fresh(codec) /\ CodecIs(codec) /\ codec.bWaitClose \in BOOLEAN
  BY <1>2 DEF FcgiInv, Cleaned, TypeOK
<1>4. Fresh(Idle) /\ CodecIs(Idle) /\ Idle.gotRequest_ = FALSE /\ Idle.bWaitClose = FALSE
  BY NewHoldsNothing DEF Fresh, Idle, CodecIs, Codec
<1>5. /\ Fresh(codec') /\ CodecIs(codec')
      /\ codec'.gotRequest_ = FALSE /\ codec'.bWaitClose = FALSE
  <2>1. CASE codec.bWaitClose
    BY <1>2, <1>4, <2>1
  <2>2. CASE ~codec.bWaitClose
    <3>1. codec' = codec /\ codec.gotRequest_ = FALSE
      BY <1>2, <2>2 DEF FcgiInv, TypeOK
    <3>2. QED BY <1>3, <2>2, <3>1
  <2>3. QED BY <2>1, <2>2
<1>6. p \in Form /\ q \in Form /\ FormData(p) \in Seq(Char)
  BY FormsAre, FormDataIs
<1>7. TypeOK'
  <2>1. codec'.stdin_ \in BufferOf(Char) /\ codec'.paramsStream_ \in BufferOf(Char)
    BY <1>5 DEF Fresh, Holds
  <2>2. typed' \in Form \X Form /\ post' \in Seq(Char)
    BY <1>1, <1>6
  <2>3. asked' \in Seq({})
    BY <1>2
  <2>4. QED BY <1>2, <1>5, <2>1, <2>2, <2>3 DEF TypeOK
<1>8. NotYet' /\ Beginning'
  <2>1. typed'[2] = q /\ typed'[1] = p
    BY <1>1
  <2>2. params' \in Streams(q)
    BY <1>1 DEF Streams
  <2>3. QED BY <1>1, <1>2, <1>5, <2>1, <2>2 DEF NotYet, Beginning
<1>9. Cleaned' /\ ReadingParams' /\ ReadingBody'
  BY <1>2, <1>5 DEF Cleaned, ReadingParams, ReadingBody
<1>10. AskedFirst' /\ AskedAsTyped' /\ NothingGivenUp' /\ PageMade'
  BY <1>2, <1>5 DEF AskedFirst, AskedAsTyped, NothingGivenUp, PageMade
<1>11. QED BY <1>7, <1>8, <1>9, <1>10 DEF FcgiInv

LEMMA onBeginRequestOK == FcgiInv /\ onBeginRequest => FcgiInv'
<1> SUFFICES ASSUME FcgiInv, onBeginRequest PROVE FcgiInv'
  OBVIOUS
<1>1. /\ sending = "begin"
      /\ sending' = IF params = << >> THEN "endOfParams" ELSE "params"
      /\ typed' = typed /\ params' = params /\ post' = post /\ codec' = codec
      /\ asked' = asked /\ page' = page /\ reply' = reply
  BY DEF onBeginRequest
<1>2. /\ Fresh(codec) /\ params \in Streams(typed[2]) /\ post = FormData(typed[1])
      /\ ~codec.gotRequest_ /\ ~codec.bWaitClose /\ asked = << >> /\ typed[2] \in QueryForms
  BY <1>1 DEF FcgiInv, Cleaned, Beginning, NotYet
<1>3. params \in Seq(Char) /\ params # << >>
  BY <1>2, StreamIs
<1>4. sending' = "params"
  BY <1>1, <1>3
<1>5. TypeOK'
  BY <1>1, <1>4 DEF FcgiInv, TypeOK
<1>6. NotYet' /\ Cleaned' /\ Beginning' /\ ReadingBody'
  BY <1>1, <1>2, <1>4 DEF NotYet, Cleaned, Beginning, ReadingBody
<1>7. ReadingParams'
  <2>1. << >> \o params = params
    BY <1>3
  <2>2. /\ codec.params_ = NoParams /\ Content(codec.stdin_) = << >>
        /\ Content(codec.paramsStream_) = << >>
    BY <1>2 DEF Fresh, Holds
  <2>3. QED BY <1>1, <1>2, <1>3, <1>4, <2>1, <2>2 DEF ReadingParams
<1>8. AskedFirst' /\ AskedAsTyped' /\ NothingGivenUp' /\ PageMade'
  BY <1>1 DEF FcgiInv, AskedFirst, AskedAsTyped, NothingGivenUp, PageMade
<1>9. QED BY <1>5, <1>6, <1>7, <1>8 DEF FcgiInv

LEMMA onParamsOK == FcgiInv /\ onParams => FcgiInv'
<1> SUFFICES ASSUME FcgiInv, onParams PROVE FcgiInv'
  OBVIOUS
<1>1. PICK n \in Cuts(params) :
        /\ params' = SubSeq(params, n + 1, Len(params))
        /\ codec' = [codec EXCEPT !.paramsStream_ = append(@, SubSeq(params, 1, n))]
        /\ sending' = IF n = Len(params) THEN "endOfParams" ELSE "params"
  BY DEF onParams
<1>2. /\ sending = "params" /\ typed' = typed /\ post' = post
      /\ asked' = asked /\ page' = page /\ reply' = reply
  BY DEF onParams
<1>3. /\ codec.params_ = NoParams /\ Content(codec.stdin_) = << >> /\ post = FormData(typed[1])
      /\ params \in Seq(Char)
      /\ Content(codec.paramsStream_) \o params \in Streams(typed[2])
  BY <1>2 DEF FcgiInv, ReadingParams
<1>4. /\ CodecIs(codec) /\ codec.stdin_ \in BufferOf(Char) /\ codec.paramsStream_ \in BufferOf(Char)
      /\ ~codec.gotRequest_ /\ ~codec.bWaitClose /\ asked = << >> /\ typed[2] \in QueryForms
      /\ codec.gotRequest_ \in BOOLEAN /\ codec.bWaitClose \in BOOLEAN
  BY <1>2 DEF FcgiInv, TypeOK, NotYet
<1> DEFINE b == codec.paramsStream_
           a == append(b, SubSeq(params, 1, n))
<1>5. /\ a \in BufferOf(Char) /\ params' \in Seq(Char)
      /\ Content(a) \o params' = Content(b) \o params
      /\ n = Len(params) => params' = << >>
  BY <1>1, <1>3, <1>4, OneRecord
<1>6. /\ codec'.paramsStream_ = a /\ codec'.stdin_ = codec.stdin_
      /\ codec'.params_ = codec.params_ /\ codec'.gotRequest_ = codec.gotRequest_
      /\ codec'.bWaitClose = codec.bWaitClose /\ CodecIs(codec')
  <2> HIDE DEF a
  <2>1. codec' = Codec(codec.gotRequest_, codec.params_, codec.stdin_, a, codec.bWaitClose)
    BY <1>1, <1>4 DEF a, b, CodecIs, Codec
  <2>2. QED BY <2>1 DEF CodecIs, Codec
<1> HIDE DEF a, b
<1>7. sending' \in {"params", "endOfParams"} /\ (sending' = "endOfParams" => params' = << >>)
  BY <1>1, <1>5
<1>8. TypeOK'
  BY <1>2, <1>4, <1>5, <1>6, <1>7 DEF FcgiInv, TypeOK
<1>9. NotYet' /\ Cleaned' /\ Beginning' /\ ReadingBody'
  BY <1>2, <1>4, <1>6, <1>7 DEF NotYet, Cleaned, Beginning, ReadingBody
<1>10. ReadingParams'
  BY <1>2, <1>3, <1>5, <1>6, <1>7 DEF ReadingParams, b
<1>11. AskedFirst' /\ AskedAsTyped' /\ NothingGivenUp' /\ PageMade'
  BY <1>2, <1>4, <1>6 DEF FcgiInv, AskedFirst, AskedAsTyped, NothingGivenUp, PageMade
<1>12. QED BY <1>8, <1>9, <1>10, <1>11 DEF FcgiInv

\* The stream is whole, so that its parameters are all read.
LEMMA onEndOfParamsOK == FcgiInv /\ onEndOfParams => FcgiInv'
<1> SUFFICES ASSUME FcgiInv, onEndOfParams PROVE FcgiInv'
  OBVIOUS
<1>1. /\ sending = "endOfParams"
      /\ codec' = [codec EXCEPT !.paramsStream_ = parseAllParams(codec).buf,
                                !.params_ = parseAllParams(codec).map,
                                !.bWaitClose = ~parseAllParams(codec).ok]
      /\ sending' = IF post = << >> THEN "endOfStdin" ELSE "stdin"
      /\ typed' = typed /\ post' = post /\ asked' = asked /\ page' = page /\ reply' = reply
  BY DEF onEndOfParams
<1>2. /\ codec.params_ = NoParams /\ Content(codec.stdin_) = << >> /\ post = FormData(typed[1])
      /\ params = << >>
      /\ Content(codec.paramsStream_) \o params \in Streams(typed[2])
  BY <1>1 DEF FcgiInv, ReadingParams
<1>3. /\ CodecIs(codec) /\ codec.stdin_ \in BufferOf(Char) /\ codec.paramsStream_ \in BufferOf(Char)
      /\ ~codec.gotRequest_ /\ asked = << >> /\ typed[2] \in QueryForms
      /\ codec.gotRequest_ \in BOOLEAN /\ post \in Seq(Char)
  BY <1>1 DEF FcgiInv, TypeOK, NotYet
<1> DEFINE q == typed[2]
<1>4. PICK type \in {<< >>, Standard} : Holds(codec.paramsStream_, ParamStream(q, type))
  <2> DEFINE c == Content(codec.paramsStream_)
  <2>1. c \in Seq(Char)
    BY <1>3, ContentIs
  <2> HIDE DEF c
  <2>2. c \o << >> = c
    BY <2>1
  <2>3. c \in Streams(q)
    BY <1>2, <2>2 DEF c
  <2>4. QED BY <1>3, <2>3 DEF c, Streams, Holds
<1>5. PICK b, map : /\ parseAllParams(codec) = Parsing(TRUE, b, map)
                    /\ b \in BufferOf(Char) /\ Value(map, QUERY_STRING) = FormData(q)
  <2>1. q \in QueryForms
    BY <1>3
  <2> HIDE DEF q
  <2>2. QED BY <1>2, <1>4, <2>1, ParsesStream
<1>6. /\ codec'.paramsStream_ = b /\ codec'.stdin_ = codec.stdin_
      /\ codec'.params_ = map /\ codec'.gotRequest_ = codec.gotRequest_
      /\ codec'.bWaitClose = FALSE /\ CodecIs(codec')
  <2>1. /\ parseAllParams(codec).buf = b /\ parseAllParams(codec).map = map
        /\ parseAllParams(codec).ok = TRUE
    BY <1>5 DEF Parsing
  <2>2. codec' = [codec EXCEPT !.paramsStream_ = b, !.params_ = map, !.bWaitClose = FALSE]
    BY <1>1, <2>1
  <2>3. codec' = Codec(codec.gotRequest_, map, codec.stdin_, b, FALSE)
    BY <1>3, <2>2 DEF CodecIs, Codec
  <2>4. QED BY <2>3 DEF CodecIs, Codec
<1>7. sending' \in {"stdin", "endOfStdin"} /\ (sending' = "endOfStdin" => post' = << >>)
  BY <1>1
<1>8. TypeOK'
  BY <1>1, <1>3, <1>5, <1>6, <1>7 DEF FcgiInv, TypeOK
<1>9. NotYet' /\ Cleaned' /\ Beginning' /\ ReadingParams'
  BY <1>1, <1>3, <1>6, <1>7 DEF NotYet, Cleaned, Beginning, ReadingParams
<1>10. ReadingBody'
  <2>1. << >> \o post = post
    BY <1>3
  <2>2. QED BY <1>1, <1>2, <1>5, <1>6, <1>7, <2>1 DEF ReadingBody
<1>11. AskedFirst' /\ AskedAsTyped' /\ NothingGivenUp' /\ PageMade'
  BY <1>1, <1>3, <1>6 DEF FcgiInv, AskedFirst, AskedAsTyped, NothingGivenUp, PageMade
<1>12. QED BY <1>8, <1>9, <1>10, <1>11 DEF FcgiInv

LEMMA onStdinOK == FcgiInv /\ onStdin => FcgiInv'
<1> SUFFICES ASSUME FcgiInv, onStdin PROVE FcgiInv'
  OBVIOUS
<1>1. PICK n \in Cuts(post) :
        /\ post' = SubSeq(post, n + 1, Len(post))
        /\ codec' = [codec EXCEPT !.stdin_ = append(@, SubSeq(post, 1, n))]
        /\ sending' = IF n = Len(post) THEN "endOfStdin" ELSE "stdin"
  BY DEF onStdin
<1>2. /\ sending = "stdin" /\ typed' = typed
      /\ asked' = asked /\ page' = page /\ reply' = reply
  BY DEF onStdin
<1>3. /\ Value(codec.params_, QUERY_STRING) = FormData(typed[2])
      /\ Content(codec.stdin_) \o post = FormData(typed[1])
  BY <1>2 DEF FcgiInv, ReadingBody
<1>4. /\ CodecIs(codec) /\ codec.stdin_ \in BufferOf(Char) /\ codec.paramsStream_ \in BufferOf(Char)
      /\ ~codec.gotRequest_ /\ ~codec.bWaitClose /\ asked = << >> /\ typed[2] \in QueryForms
      /\ codec.gotRequest_ \in BOOLEAN /\ codec.bWaitClose \in BOOLEAN /\ post \in Seq(Char)
  BY <1>2 DEF FcgiInv, TypeOK, NotYet
<1> DEFINE b == codec.stdin_
           a == append(b, SubSeq(post, 1, n))
<1>5. /\ a \in BufferOf(Char) /\ post' \in Seq(Char)
      /\ Content(a) \o post' = Content(b) \o post
      /\ n = Len(post) => post' = << >>
  BY <1>1, <1>4, OneRecord
<1>6. /\ codec'.stdin_ = a /\ codec'.paramsStream_ = codec.paramsStream_
      /\ codec'.params_ = codec.params_ /\ codec'.gotRequest_ = codec.gotRequest_
      /\ codec'.bWaitClose = codec.bWaitClose /\ CodecIs(codec')
  <2> HIDE DEF a
  <2>1. codec' = Codec(codec.gotRequest_, codec.params_, a, codec.paramsStream_, codec.bWaitClose)
    BY <1>1, <1>4 DEF a, b, CodecIs, Codec
  <2>2. QED BY <2>1 DEF CodecIs, Codec
<1> HIDE DEF a, b
<1>7. sending' \in {"stdin", "endOfStdin"} /\ (sending' = "endOfStdin" => post' = << >>)
  BY <1>1, <1>5
<1>8. TypeOK'
  BY <1>2, <1>4, <1>5, <1>6, <1>7 DEF FcgiInv, TypeOK
<1>9. NotYet' /\ Cleaned' /\ Beginning' /\ ReadingParams'
  BY <1>2, <1>4, <1>6, <1>7 DEF NotYet, Cleaned, Beginning, ReadingParams
<1>10. ReadingBody'
  BY <1>2, <1>3, <1>5, <1>6, <1>7 DEF ReadingBody, b
<1>11. AskedFirst' /\ AskedAsTyped' /\ NothingGivenUp' /\ PageMade'
  BY <1>2, <1>4, <1>6 DEF FcgiInv, AskedFirst, AskedAsTyped, NothingGivenUp, PageMade
<1>12. QED BY <1>8, <1>9, <1>10, <1>11 DEF FcgiInv

\* The body is whole: the first question has what was typed.
LEMMA onEndOfStdinOK == FcgiInv /\ onEndOfStdin => FcgiInv'
<1> SUFFICES ASSUME FcgiInv, onEndOfStdin PROVE FcgiInv'
  OBVIOUS
<1> DEFINE map == qmap(Content(codec.stdin_), Value(codec.params_, QUERY_STRING))
<1>1. /\ sending = "endOfStdin" /\ sending' = "none"
      /\ codec' = [codec EXCEPT !.gotRequest_ = TRUE, !.stdin_ = retrieveAll(@)]
      /\ asked' = Append(asked, map)
      /\ typed' = typed /\ post' = post /\ page' = page /\ reply' = reply
  BY DEF onEndOfStdin, onRequest
<1>2. /\ Value(codec.params_, QUERY_STRING) = FormData(typed[2])
      /\ Content(codec.stdin_) \o post = FormData(typed[1]) /\ post = << >>
  BY <1>1 DEF FcgiInv, ReadingBody
<1>3. /\ CodecIs(codec) /\ codec.stdin_ \in BufferOf(Char) /\ codec.paramsStream_ \in BufferOf(Char)
      /\ ~codec.bWaitClose /\ asked = << >> /\ typed \in Form \X Form
      /\ codec.bWaitClose \in BOOLEAN
  BY <1>1 DEF FcgiInv, TypeOK, NotYet
<1>4. map = Typed(typed[1] \o typed[2])
  <2> DEFINE c == Content(codec.stdin_)
  <2>1. c \in Seq(Char)
    BY <1>3, ContentIs
  <2> HIDE DEF c
  <2>2. c \o << >> = c
    BY <2>1
  <2>3. c = FormData(typed[1])
    BY <1>2, <2>2 DEF c
  <2>4. typed[1] \in Form /\ typed[2] \in Form
    BY <1>3
  <2>5. QED BY <1>2, <2>3, <2>4, QmapIsTyped DEF c
<1> HIDE DEF map
<1>5. asked' = <<map>> /\ asked' \in Seq({map}) /\ asked' # << >> /\ asked'[1] = map
  BY <1>1, <1>3
<1>6. Holds(retrieveAll(codec.stdin_), << >>)
  BY <1>3, RetrievesAll
<1>7. /\ codec'.stdin_ = retrieveAll(codec.stdin_) /\ codec'.paramsStream_ = codec.paramsStream_
      /\ codec'.gotRequest_ = TRUE /\ codec'.bWaitClose = codec.bWaitClose /\ CodecIs(codec')
  <2> DEFINE a == retrieveAll(codec.stdin_)
  <2> HIDE DEF a
  <2>1. codec' = Codec(TRUE, codec.params_, a, codec.paramsStream_, codec.bWaitClose)
    BY <1>1, <1>3 DEF a, CodecIs, Codec
  <2>2. QED BY <2>1 DEF a, CodecIs, Codec
<1>8. TypeOK'
  BY <1>1, <1>3, <1>5, <1>6, <1>7 DEF FcgiInv, TypeOK, Holds
<1>9. NotYet' /\ Cleaned' /\ Beginning' /\ ReadingParams' /\ ReadingBody'
  BY <1>1, <1>7 DEF NotYet, Cleaned, Beginning, ReadingParams, ReadingBody
<1>10. AskedFirst' /\ NothingGivenUp' /\ PageMade'
  BY <1>1, <1>3, <1>5, <1>7 DEF FcgiInv, AskedFirst, NothingGivenUp, PageMade
<1>11. AskedAsTyped'
  BY <1>1, <1>4, <1>5 DEF AskedAsTyped
<1>12. QED BY <1>8, <1>9, <1>10, <1>11 DEF FcgiInv

\* What clears the codec.
LEMMA ClearedIs ==
  ASSUME NEW c, CodecIs(c), c.stdin_ \in BufferOf(Char), c.paramsStream_ \in BufferOf(Char)
  PROVE  /\ Fresh(Cleared(c)) /\ CodecIs(Cleared(c)) /\ Cleared(c).gotRequest_ = FALSE
         /\ Cleared(c).bWaitClose = c.bWaitClose
<1> DEFINE a == retrieveAll(c.stdin_)
           b == retrieveAll(c.paramsStream_)
<1>1. Holds(a, << >>) /\ Holds(b, << >>)
  BY RetrievesAll
<1> HIDE DEF a, b
<1>2. Cleared(c) = Codec(FALSE, NoParams, a, b, c.bWaitClose)
  <2> DEFINE d == Cleared(c)
  <2>1. d = [c EXCEPT !.gotRequest_ = FALSE, !.params_ = NoParams,
                      !.stdin_ = a, !.paramsStream_ = b]
    BY DEF Cleared, a, b
  <2> HIDE DEF d
  <2>2. d = Codec(FALSE, NoParams, a, b, c.bWaitClose)
    BY <2>1 DEF CodecIs, Codec
  <2>3. QED BY <2>2 DEF d
<1>3. QED BY <1>1, <1>2 DEF Fresh, CodecIs, Codec

\* An abort asks once more, which leaves the first question as it is.
LEMMA onAbortOK == FcgiInv /\ onAbort => FcgiInv'
<1> SUFFICES ASSUME FcgiInv, onAbort PROVE FcgiInv'
  OBVIOUS
<1> DEFINE map == qmap(Content(codec.stdin_), Value(codec.params_, QUERY_STRING))
<1>1. /\ sending = "none" /\ codec.gotRequest_ /\ sending' = "none"
      /\ codec' = [Cleared(codec) EXCEPT !.bWaitClose = TRUE]
      /\ asked' = Append(asked, map)
      /\ typed' = typed /\ post' = post /\ page' = page /\ reply' = reply
  BY DEF onAbort, onRequest, Pending
<1> HIDE DEF map
<1>2. /\ CodecIs(codec) /\ codec.stdin_ \in BufferOf(Char) /\ codec.paramsStream_ \in BufferOf(Char)
      /\ asked # << >>
  BY <1>1 DEF FcgiInv, TypeOK, AskedFirst
<1>3. PICK S : asked \in Seq(S)
  BY DEF FcgiInv, TypeOK
<1>4. /\ asked' \in Seq(S \cup {map}) /\ asked' # << >> /\ Len(asked') > 1
      /\ asked'[1] = asked[1]
  <2>1. asked \in Seq(S \cup {map}) /\ Len(asked) \in Nat /\ Len(asked) >= 1
    BY <1>2, <1>3
  <2>2. QED BY <1>1, <2>1
<1> DEFINE d == Cleared(codec)
<1>5. Fresh(d) /\ CodecIs(d) /\ d.gotRequest_ = FALSE
  BY <1>2, ClearedIs
<1> HIDE DEF d
<1>6. /\ codec'.stdin_ = d.stdin_ /\ codec'.paramsStream_ = d.paramsStream_
      /\ codec'.params_ = d.params_
      /\ codec'.gotRequest_ = FALSE /\ codec'.bWaitClose = TRUE /\ CodecIs(codec')
  <2>1. codec' = Codec(d.gotRequest_, d.params_, d.stdin_, d.paramsStream_, TRUE)
    BY <1>1, <1>5 DEF d, CodecIs, Codec
  <2>2. QED BY <1>5, <2>1 DEF CodecIs, Codec
<1>7. Fresh(codec')
  BY <1>5, <1>6 DEF Fresh
<1>8. TypeOK'
  BY <1>1, <1>4, <1>6, <1>7 DEF FcgiInv, TypeOK, Fresh, Holds
<1>9. NotYet' /\ Cleaned' /\ Beginning' /\ ReadingParams' /\ ReadingBody'
  BY <1>1, <1>7 DEF NotYet, Cleaned, Beginning, ReadingParams, ReadingBody
<1>10. AskedFirst' /\ NothingGivenUp' /\ PageMade'
  BY <1>1, <1>4 DEF FcgiInv, AskedFirst, NothingGivenUp, PageMade
<1>11. AskedAsTyped'
  BY <1>1, <1>2, <1>4 DEF FcgiInv, AskedAsTyped
<1>12. QED BY <1>8, <1>9, <1>10, <1>11 DEF FcgiInv

LEMMA AnswerOK == FcgiInv /\ Answer => FcgiInv'
<1> SUFFICES ASSUME FcgiInv, Answer PROVE FcgiInv'
  OBVIOUS
<1>1. PICK n \in PageLength : page' = [k \in 1 .. n |-> k] /\ reply' = respond([k \in 1 .. n |-> k])
  BY DEF Answer
<1>2. /\ sending = "none" /\ codec.gotRequest_ /\ sending' = sending
      /\ codec' = Cleared(codec) /\ typed' = typed /\ post' = post /\ asked' = asked
  BY DEF Answer, ResetConnStatus
<1>3. /\ CodecIs(codec) /\ codec.stdin_ \in BufferOf(Char) /\ codec.paramsStream_ \in BufferOf(Char)
      /\ asked # << >> /\ codec.bWaitClose \in BOOLEAN
  BY <1>2 DEF FcgiInv, TypeOK, AskedFirst
<1>4. /\ Fresh(codec') /\ CodecIs(codec') /\ codec'.gotRequest_ = FALSE
      /\ codec'.bWaitClose = codec.bWaitClose
  BY <1>2, <1>3, ClearedIs
<1>5. page' \in Seq(Nat) /\ reply' = respond(page')
  <2>1. n \in Nat
    BY FcgiAssumption DEF FcgiAssumption
  <2>2. [k \in 1 .. n |-> k] \in Seq(Nat)
    BY <2>1
  <2>3. QED BY <1>1, <2>2
<1>6. TypeOK'
  BY <1>2, <1>3, <1>4 DEF FcgiInv, TypeOK, Fresh, Holds
<1>7. NotYet' /\ Cleaned' /\ Beginning' /\ ReadingParams' /\ ReadingBody'
  BY <1>2, <1>4 DEF NotYet, Cleaned, Beginning, ReadingParams, ReadingBody
<1>8. AskedFirst' /\ AskedAsTyped' /\ NothingGivenUp'
  BY <1>2, <1>3, <1>4 DEF FcgiInv, AskedFirst, AskedAsTyped, NothingGivenUp
<1>9. PageMade'
  BY <1>5 DEF PageMade
<1>10. QED BY <1>6, <1>7, <1>8, <1>9 DEF FcgiInv

LEMMA FcgiStutterOK == FcgiInv /\ UNCHANGED vars => FcgiInv'
BY DEF FcgiInv, vars, TypeOK, NotYet, Cleaned, Beginning, ReadingParams, ReadingBody,
       AskedFirst, AskedAsTyped, NothingGivenUp, PageMade

LEMMA FcgiInvHolds == FcgiSpec => []FcgiInv
<1>1. FcgiInit => FcgiInv
  BY FcgiInitInv
<1>2. FcgiInv /\ [FcgiNext]_vars => FcgiInv'
  <2> SUFFICES ASSUME FcgiInv, [FcgiNext]_vars PROVE FcgiInv'
    OBVIOUS
  <2>1. CASE Request         BY <2>1, RequestOK
  <2>2. CASE onBeginRequest  BY <2>2, onBeginRequestOK
  <2>3. CASE onParams        BY <2>3, onParamsOK
  <2>4. CASE onEndOfParams   BY <2>4, onEndOfParamsOK
  <2>5. CASE onStdin         BY <2>5, onStdinOK
  <2>6. CASE onEndOfStdin    BY <2>6, onEndOfStdinOK
  <2>7. CASE onAbort         BY <2>7, onAbortOK
  <2>8. CASE Answer          BY <2>8, AnswerOK
  <2>9. CASE UNCHANGED vars  BY <2>9, FcgiStutterOK
  <2>10. QED
    BY <2>1, <2>2, <2>3, <2>4, <2>5, <2>6, <2>7, <2>8, <2>9 DEF FcgiNext
<1>3. QED BY <1>1, <1>2, PTL DEF FcgiSpec

----------------------------------------------------------------------------
(* What it says of the code. *)

\* Whatever the forms, the characters, the sizes of the buffers and the cuts
\* of the streams are, and whatever was on the connection before, the first
\* question that onRequest composes for a request has the parameters its
\* browser typed.
THEOREM QuestionsAreAsTyped == FcgiSpec => []AskedAsTyped
<1>1. FcgiInv => AskedAsTyped
  BY DEF FcgiInv
<1>2. QED BY <1>1, FcgiInvHolds, PTL

\* No request that nginx encodes is given up by parseAllParams.
THEOREM NoneIsGivenUp == FcgiSpec => []NothingGivenUp
<1>1. FcgiInv => NothingGivenUp
  BY DEF FcgiInv
<1>2. QED BY <1>1, FcgiInvHolds, PTL

\* stdin_ and paramsStream_ stay well-formed buffers, and with what nginx still
\* has to send they are the streams of the request.
THEOREM BuffersHoldTheStreams == FcgiSpec => []BuffersHold
<1>1. FcgiInv => BuffersHold
  <2> SUFFICES ASSUME FcgiInv PROVE BuffersHold
    OBVIOUS
  <2>1. codec.stdin_ \in BufferOf(Char) /\ codec.paramsStream_ \in BufferOf(Char)
    BY DEF FcgiInv, TypeOK
  <2>2. ASSUME sending \in {"params", "endOfParams"}
        PROVE  \E q \in QueryForms, type \in {<< >>, Standard} :
                 Content(codec.paramsStream_) \o params = ParamStream(q, type)
    <3>1. typed[2] \in QueryForms
      BY <2>2 DEF FcgiInv, NotYet
    <3>2. Content(codec.paramsStream_) \o params \in Streams(typed[2])
      BY <2>2 DEF FcgiInv, ReadingParams
    <3>3. QED BY <3>1, <3>2 DEF Streams
  <2>3. ASSUME sending \in {"stdin", "endOfStdin"}
        PROVE  Content(codec.stdin_) \o post = FormData(typed[1])
    BY <2>3 DEF FcgiInv, ReadingBody
  <2>4. QED BY <2>1, <2>2, <2>3 DEF BuffersHold
<1>2. QED BY <1>1, FcgiInvHolds, PTL

\* However long the page is, what respond writes is the page, whole and in
\* records that nginx can read, and ended once.
THEOREM PagesAreWhole == FcgiSpec => []PageIsWhole
<1>1. FcgiInv => PageIsWhole
  <2> SUFFICES ASSUME FcgiInv, page # NoPage PROVE PageIsWhole
    BY DEF PageIsWhole
  <2>1. page \in Seq(Nat) /\ reply = respond(page)
    BY DEF FcgiInv, PageMade
  <2>2. /\ Stdout(reply) = Page(page)
        /\ \A k \in DOMAIN reply :
             /\ Readable(reply[k])
             /\ reply[k].content = << >> <=> k = Len(reply) - 1
             /\ reply[k].type = "end" <=> k = Len(reply)
    BY <2>1, RespondsWhole
  <2>3. QED BY <2>2 DEF PageIsWhole, Page, Readable
<1>2. QED BY <1>1, FcgiInvHolds, PTL
=============================================================================
