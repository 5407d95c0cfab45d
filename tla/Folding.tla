------------------------------ MODULE Folding ------------------------------
(***************************************************************************)
(* Folds.  The fold of a step over a sequence is the last of a row of      *)
(* states, each a step from the one before (Trace), and what every step    *)
(* keeps holds of them all (Reaches).  The operators of CgiForm, FcgiCodec *)
(* and ProtoWire are such folds.  Each gets its row in a lemma of one      *)
(* pattern, since a lemma with the step as a parameter is not one the      *)
(* provers can be given.                                                   *)
(***************************************************************************)
EXTENDS Integers, SequencesExt, TLAPS, WellFoundedInduction

\* Every set of natural numbers has a least one.
LEMMA LeastOf ==
  ASSUME NEW T \in SUBSET Nat, T # {}
  PROVE  \E j \in T : \A k \in T : j <= k
<1>1. PICK j \in T : \A k \in T : ~(<<k, j>> \in OpToRel(<, Nat))
  BY WFMin, NatLessThanWellFounded
<1>2. \A k \in T : ~(k < j)
  BY <1>1, Zenon DEF OpToRel
<1>3. QED BY <1>2

LEMMA LastOf ==
  ASSUME NEW k \in Nat, NEW s \in SUBSET (1 .. k), k \in s
  PROVE  Max(s) = k
<1>1. k \in Int /\ \A y \in s : k >= y
  OBVIOUS
<1>2. \A x \in s : (\A y \in s : x >= y) => x = k
  OBVIOUS
<1>3. QED BY <1>1, <1>2 DEF Max

\* h folds a step over the positions 1 .. n, as FoldLeft does.
Folds(step, base, n, h) ==
  h = [s \in SUBSET (1 .. n) |-> IF s = {} THEN base
                                 ELSE step[<<Max(s), h[s \ {Max(s)}]>>]]

\* The next position joins a fold.
LEMMA FoldGrows ==
  ASSUME NEW S, NEW base \in S, NEW n \in Nat, NEW step \in [(1 .. n) \X S -> S],
         NEW k \in 1 .. n,
         NEW g \in [SUBSET (1 .. k - 1) -> S], Folds(step, base, k - 1, g)
  PROVE  \E h \in [SUBSET (1 .. k) -> S] : Folds(step, base, k, h)
<1> DEFINE h == [s \in SUBSET (1 .. k) |->
                   IF k \in s THEN step[<<k, g[s \ {k}]>>] ELSE g[s]]
<1>1. ASSUME NEW s \in SUBSET (1 .. k)
      PROVE  /\ h[s] \in S
             /\ h[s] = IF s = {} THEN base ELSE step[<<Max(s), h[s \ {Max(s)}]>>]
  <2>1. CASE k \in s
    <3>1. Max(s) = k
      BY <2>1, LastOf
    <3>2. s \ {k} \in SUBSET (1 .. k - 1) /\ s \ {k} \in SUBSET (1 .. k)
      OBVIOUS
    <3>3. h[s \ {k}] = g[s \ {k}] /\ g[s \ {k}] \in S
      BY <3>2
    <3>4. h[s] = step[<<k, g[s \ {k}]>>]
      BY <2>1
    <3>5. <<k, g[s \ {k}]>> \in (1 .. n) \X S
      BY <3>3
    <3> HIDE DEF h
    <3>6. QED BY <3>1, <3>3, <3>4, <3>5, <2>1
  <2>2. CASE k \notin s
    <3>1. s \in SUBSET (1 .. k - 1)
      BY <2>2
    <3>2. g[s] = IF s = {} THEN base ELSE step[<<Max(s), g[s \ {Max(s)}]>>]
      <4> DEFINE e(t) == IF t = {} THEN base ELSE step[<<Max(t), g[t \ {Max(t)}]>>]
      <4>1. g = [t \in SUBSET (1 .. k - 1) |-> e(t)]
        BY DEF Folds
      <4> HIDE DEF e
      <4>2. g[s] = e(s)
        BY <4>1, <3>1
      <4>3. QED BY <4>2 DEF e
    <3>3. h[s] = g[s] /\ g[s] \in S
      BY <3>1, <2>2
    <3>4. s \ {Max(s)} \in SUBSET (1 .. k - 1) /\ k \notin s \ {Max(s)}
          /\ s \ {Max(s)} \in SUBSET (1 .. k)
      BY <3>1, <2>2
    <3>5. h[s \ {Max(s)}] = g[s \ {Max(s)}]
      BY <3>4
    <3> HIDE DEF h
    <3>6. QED BY <3>2, <3>3, <3>5
  <2>3. QED BY <2>1, <2>2
<1>2. h = [s \in SUBSET (1 .. k) |-> h[s]]
  OBVIOUS
<1> HIDE DEF h
<1>3. h \in [SUBSET (1 .. k) -> S]
  BY <1>1, <1>2
<1> DEFINE e(s) == IF s = {} THEN base ELSE step[<<Max(s), h[s \ {Max(s)}]>>]
<1>4. \A s \in SUBSET (1 .. k) : h[s] = e(s)
  BY <1>1
<1>5. h = [s \in SUBSET (1 .. k) |-> e(s)]
  <2> HIDE DEF e
  <2>1. QED BY <1>2, <1>4
<1>6. Folds(step, base, k, h)
  BY <1>5 DEF Folds
<1>7. QED BY <1>3, <1>6

\* Every step that keeps to a set can be folded.
LEMMA FoldExists ==
  ASSUME NEW S, NEW base \in S, NEW n \in Nat, NEW step \in [(1 .. n) \X S -> S]
  PROVE  \E h \in [SUBSET (1 .. n) -> S] : Folds(step, base, n, h)
<1> DEFINE Good(k) == \E h \in [SUBSET (1 .. k) -> S] : Folds(step, base, k, h)
           T == {k \in 0 .. n : ~Good(k)}
<1>1. ASSUME T # {} PROVE FALSE
  <2>1. T \in SUBSET Nat
    OBVIOUS
  <2>2. PICK k \in T : \A j \in T : k <= j
    <3> HIDE DEF T
    <3>1. QED BY <1>1, <2>1, LeastOf
  <2>3. k \in 0 .. n /\ ~Good(k)
    OBVIOUS
  <2>4. \A j \in 0 .. n : j < k => Good(j)
    <3>1. \A j \in 0 .. n : j \in T \/ Good(j)
      OBVIOUS
    <3> HIDE DEF T, Good
    <3>2. QED BY <2>2, <2>3, <3>1
  <2>5. k # 0
    <3>1. ASSUME k = 0 PROVE FALSE
      <4> DEFINE h == [s \in SUBSET (1 .. 0) |-> base]
      <4>1. \A s \in SUBSET (1 .. 0) : s = {}
        OBVIOUS
      <4>2. h \in [SUBSET (1 .. 0) -> S]
        OBVIOUS
      <4>3. Folds(step, base, 0, h)
        BY <4>1 DEF Folds
      <4>4. QED BY <4>2, <4>3, <2>3, <3>1
    <3>2. QED BY <3>1
  <2>6. k - 1 \in 0 .. n /\ k - 1 < k /\ k \in 1 .. n
    <3> HIDE DEF T, Good
    <3>1. QED BY <2>3, <2>5
  <2>7. Good(k - 1)
    <3> HIDE DEF T, Good
    <3>1. QED BY <2>4, <2>6
  <2>8. Good(k)
    BY <2>7, <2>6, FoldGrows
  <2>9. QED BY <2>3, <2>8
<1>2. QED
  <2>1. n \in 0 .. n
    OBVIOUS
  <2> HIDE DEF Good
  <2>2. n \in T \/ Good(n)
    BY <2>1
  <2>3. Good(n)
    <3> HIDE DEF T
    <3>1. QED BY <2>2, <1>1
  <2>4. QED BY <2>3 DEF Good

\* A set of positions has a last one.
LEMMA LastIn ==
  ASSUME NEW n \in Nat, NEW t \in SUBSET (1 .. n), t # {}
  PROVE  Max(t) \in t
<1> DEFINE U == {k \in 0 .. n : \A x \in t : x <= k}
<1>1. U \in SUBSET Nat /\ n \in U
  OBVIOUS
<1>2. PICK k \in U : \A j \in U : k <= j
  <2> HIDE DEF U
  <2>1. QED BY <1>1, LeastOf
<1>3. k \in 0 .. n /\ \A x \in t : x <= k
  BY <1>2
<1>4. k \in t
  <2>1. ASSUME k \notin t PROVE FALSE
    <3>1. k # 0
      <4>1. PICK x \in t : TRUE
        OBVIOUS
      <4>2. x >= 1 /\ x <= k
        BY <1>3
      <4>3. QED BY <4>2
    <3>2. k - 1 \in 0 .. n /\ ~(k <= k - 1)
      BY <1>3, <3>1
    <3>3. \A x \in t : x <= k - 1
      BY <1>3, <2>1, <3>2
    <3>4. k - 1 \in U
      BY <3>2, <3>3
    <3> HIDE DEF U
    <3>5. QED BY <1>2, <3>2, <3>4
  <2>2. QED BY <2>1
<1>5. t \in SUBSET (1 .. k) /\ k \in Nat
  BY <1>3
<1>6. QED BY <1>4, <1>5, LastOf

Folded(S, base, n, step, h) ==
  \A t \in SUBSET (1 .. n) :
    /\ t = {} => h[t] = base
    /\ t # {} => /\ Max(t) \in 1 .. n /\ h[t \ {Max(t)}] \in S
                 /\ h[t] = step[<<Max(t), h[t \ {Max(t)}]>>]

\* Every step that keeps to a set can be folded, one position after the other.
LEMMA FoldIs ==
  ASSUME NEW S, NEW base \in S, NEW n \in Nat, NEW step \in [(1 .. n) \X S -> S]
  PROVE  \E h : Folded(S, base, n, step, h)
<1>1. PICK h \in [SUBSET (1 .. n) -> S] : Folds(step, base, n, h)
  BY FoldExists
<1> DEFINE e(s) == IF s = {} THEN base ELSE step[<<Max(s), h[s \ {Max(s)}]>>]
<1>2. h = [s \in SUBSET (1 .. n) |-> e(s)]
  BY <1>1 DEF Folds
<1>3. ASSUME NEW t \in SUBSET (1 .. n) PROVE h[t] = e(t)
  <2> HIDE DEF e
  <2>1. QED BY <1>2
<1>4. ASSUME NEW t \in SUBSET (1 .. n), t # {}
      PROVE  Max(t) \in 1 .. n /\ h[t \ {Max(t)}] \in S
  <2>1. Max(t) \in t
    BY <1>4, LastIn
  <2>2. QED BY <2>1
<1>5. QED BY <1>3, <1>4 DEF Folded

\* The last position of a prefix, and what is before it.
LEMMA PrefixLast ==
  ASSUME NEW n \in Nat, NEW k \in 1 .. n
  PROVE  /\ 1 .. k \in SUBSET (1 .. n) /\ 1 .. k # {} /\ Max(1 .. k) = k
         /\ (1 .. k) \ {k} = 1 .. k - 1
<1>1. 1 .. k \in SUBSET (1 .. k) /\ k \in 1 .. k
  OBVIOUS
<1>2. Max(1 .. k) = k
  BY <1>1, LastOf
<1>3. QED BY <1>2

\* What holds at the start and goes from one step to the next holds at all.
LEMMA Reaches ==
  ASSUME NEW n \in Nat, NEW f, NEW P, f[0] \in P[0],
         \A k \in 1 .. n : f[k - 1] \in P[k - 1] => f[k] \in P[k]
  PROVE  \A k \in 0 .. n : f[k] \in P[k]
<1> DEFINE T == {k \in 0 .. n : f[k] \notin P[k]}
<1>1. ASSUME T # {} PROVE FALSE
  <2>1. T \in SUBSET Nat
    OBVIOUS
  <2>2. PICK k \in T : \A j \in T : k <= j
    <3> HIDE DEF T
    <3>1. QED BY <1>1, <2>1, LeastOf
  <2>3. k \in 0 .. n /\ f[k] \notin P[k]
    OBVIOUS
  <2>4. k # 0
    BY <2>3
  <2>5. k - 1 \in 0 .. n /\ k - 1 < k /\ k \in 1 .. n
    BY <2>3, <2>4
  <2>6. k - 1 \notin T
    <3> HIDE DEF T
    <3>1. QED BY <2>2, <2>5
  <2>7. QED BY <2>3, <2>5, <2>6
<1>2. QED BY <1>1

\* f has the values of a fold after each position.
Trace(f, S, base, n, step) ==
  /\ f \in [0 .. n -> S] /\ f[0] = base
  /\ \A k \in 1 .. n : f[k] = step[<<k, f[k - 1]>>]

\* f meets the recursion of a fold, as long as it keeps to S.
Iterates(f, S, base, n, step) ==
  /\ f[{}] = base
  /\ \A t \in SUBSET (1 .. n) : t # {} /\ f[t \ {Max(t)}] \in S =>
       f[t] = step[<<Max(t), f[t \ {Max(t)}]>>]

\* iter's values at the prefixes are such an f.
HasTrace(iter, S, base, n, step) ==
  \E f : Trace(f, S, base, n, step) /\ iter[1 .. n] = f[n]

\* A fold of the library is a function on the subsets of its positions, of
\* which the prefixes matter.
LEMMA TraceOf ==
  ASSUME NEW S, NEW base \in S, NEW n \in Nat, NEW step \in [(1 .. n) \X S -> S],
         NEW iter, Iterates(iter, S, base, n, step)
  PROVE  HasTrace(iter, S, base, n, step)
<1> DEFINE f == [k \in 0 .. n |-> iter[1 .. k]]
           P == [k \in 0 .. n |-> S]
<1>1. f[0] = base
  <2>1. 1 .. 0 = {}
    OBVIOUS
  <2>2. QED BY <2>1 DEF Iterates
<1>2. ASSUME NEW k \in 1 .. n, f[k - 1] \in S
      PROVE  f[k] = step[<<k, f[k - 1]>>] /\ f[k] \in S
  <2>1. k - 1 \in 0 .. n /\ k \in 0 .. n
    OBVIOUS
  <2>2. f[k] = iter[1 .. k] /\ f[k - 1] = iter[1 .. k - 1]
    BY <2>1
  <2> HIDE DEF f
  <2>3. iter[1 .. k] = step[<<k, iter[1 .. k - 1]>>]
    BY <1>2, <2>2, PrefixLast DEF Iterates
  <2>4. <<k, f[k - 1]>> \in (1 .. n) \X S
    BY <1>2
  <2>5. QED BY <2>2, <2>3, <2>4
<1>3. \A k \in 0 .. n : f[k] \in P[k]
  <2>1. f[0] \in P[0]
    BY <1>1
  <2>2. \A k \in 1 .. n : f[k - 1] \in P[k - 1] => f[k] \in P[k]
    <3>1. \A k \in 1 .. n : P[k - 1] = S /\ P[k] = S
      OBVIOUS
    <3> HIDE DEF f, P
    <3>2. QED BY <1>2, <3>1
  <2> HIDE DEF f, P
  <2>3. QED BY <2>1, <2>2, Reaches
<1>4. \A k \in 0 .. n : f[k] \in S
  BY <1>3
<1>5. f \in [0 .. n -> S]
  BY <1>4
<1>6. \A k \in 1 .. n : f[k] = step[<<k, f[k - 1]>>]
  <2>1. \A k \in 1 .. n : k - 1 \in 0 .. n
    OBVIOUS
  <2> HIDE DEF f
  <2>2. QED BY <1>2, <1>4, <2>1
<1>7. iter[1 .. n] = f[n]
  OBVIOUS
<1> HIDE DEF f
<1>8. QED BY <1>1, <1>5, <1>6, <1>7 DEF Trace, HasTrace
=============================================================================
