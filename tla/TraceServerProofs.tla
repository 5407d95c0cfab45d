------------------------- MODULE TraceServerProofs -------------------------
(***************************************************************************)
(* The trace server, for every set of descriptors, sessions, names, texts  *)
(* and limits: first its safety, then, under the same invariant, that it   *)
(* implements the mailboxes of LogMailboxes, step by step.                 *)
(***************************************************************************)
EXTENDS TraceServerMailboxes, SequenceTheorems, FiniteSetTheorems, WellFoundedInduction, TLAPS

----------------------------------------------------------------------------
(* The stored logs: what the operators of CfgLogs return, for every window *)
(* and every bound.                                                        *)

\* A new configuration starts with a sound, empty window.
LEMMA EmptyWindowOK == WindowOK(EmptyWindow) /\ Unread(EmptyWindow) = << >>
BY MaxPreserveAssumption DEF WindowOK, EmptyWindow, LogWindow, Unread

\* The type and the length of a part of a sequence.
LEMMA SubSeqType ==
  ASSUME NEW S, NEW s \in Seq(S), NEW m \in Nat, NEW n \in Nat,
         1 <= m, n <= Len(s)
  PROVE  /\ SubSeq(s, m, n) \in Seq(S)
         /\ Len(SubSeq(s, m, n)) = IF m <= n THEN n - m + 1 ELSE 0
         /\ \A i \in 1 .. n - m + 1 : SubSeq(s, m, n)[i] = s[m + i - 1]
<1>1. \A i \in m .. n : s[i] \in S
  OBVIOUS
<1>2. QED BY <1>1, SubSeqProperties

\* What was appended is the last element of every suffix.
LEMMA SuffixOfAppend ==
  ASSUME NEW S, NEW s \in Seq(S), NEW t \in S, NEW i \in 1 .. Len(s) + 1
  PROVE  SubSeq(Append(s, t), i, Len(s) + 1) = Append(SubSeq(s, i, Len(s)), t)
<1> DEFINE a == Append(s, t)
           l == SubSeq(a, i, Len(s) + 1)
           p == SubSeq(s, i, Len(s))
           r == Append(p, t)
           d == Len(s) - i + 1
<1>1. /\ Len(s) \in Nat /\ d \in Nat /\ i \in Nat /\ 1 <= i
      /\ a \in Seq(S) /\ Len(a) = Len(s) + 1
      /\ a[Len(s) + 1] = t /\ \A j \in 1 .. Len(s) : a[j] = s[j]
  BY AppendProperties
<1> HIDE DEF a
<1>2. /\ l \in Seq(S) /\ Len(l) = d + 1
      /\ \A j \in 1 .. d + 1 : l[j] = a[i + j - 1]
  BY <1>1, SubSeqType
<1>3. /\ p \in Seq(S) /\ Len(p) = d
      /\ \A j \in 1 .. d : p[j] = s[i + j - 1]
  BY <1>1, SubSeqType
<1> HIDE DEF p
<1>4. /\ r \in Seq(S) /\ Len(r) = d + 1 /\ r[d + 1] = t
      /\ \A j \in 1 .. d : r[j] = p[j]
  <2>1. /\ Append(p, t) \in Seq(S) /\ Len(Append(p, t)) = Len(p) + 1
        /\ Append(p, t)[Len(p) + 1] = t
        /\ \A j \in 1 .. Len(p) : Append(p, t)[j] = p[j]
    BY <1>3, AppendProperties
  <2>2. QED BY <1>1, <1>3, <2>1
<1> HIDE DEF l, r
<1>5. \A j \in 1 .. d + 1 : l[j] = r[j]
  <2> TAKE j \in 1 .. d + 1
  <2>1. CASE j = d + 1
    BY <1>1, <1>2, <1>4, <2>1
  <2>2. CASE j # d + 1
    <3>1. j \in 1 .. d /\ i + j - 1 \in 1 .. Len(s)
      BY <1>1, <2>2
    <3>2. QED BY <1>1, <1>2, <1>3, <1>4, <3>1
  <2>3. QED BY <2>1, <2>2
<1>6. l = r
  BY <1>2, <1>4, <1>5, SeqEqual
<1>7. QED BY <1>6 DEF l, r, a, p

\* The fields of a sound window have their types.
LEMMA WindowFields ==
  ASSUME NEW w, WindowOK(w)
  PROVE  /\ w.logs \in Seq(Text) /\ w.log_idx \in Nat /\ Len(w.logs) \in Nat
         /\ w.log_idx <= Len(w.logs) /\ Len(w.logs) <= MaxPreserveLogs
         /\ w = [logs |-> w.logs, log_idx |-> w.log_idx]
BY DEF WindowOK, LogWindow

\* The unread part of a sound window is a sequence of texts.
LEMMA UnreadType ==
  ASSUME NEW w, WindowOK(w)
  PROVE  /\ Unread(w) \in Seq(Text)
         /\ Len(Unread(w)) = Len(w.logs) - w.log_idx
         /\ Len(Unread(w)) \in Nat
BY WindowFields, SubSeqType DEF Unread

\* Dropping what was fetched keeps the window sound and loses nothing unread.
LEMMA MakeRoomOK ==
  ASSUME NEW w, WindowOK(w)
  PROVE  /\ WindowOK(MakeRoom(w))
         /\ Unread(MakeRoom(w)) = Unread(w)
<1> DEFINE u == Unread(w)
           m == [logs |-> u, log_idx |-> 0]
<1>1. CASE Full(w)
  <2>1. MakeRoom(w) = m
    BY <1>1 DEF MakeRoom
  <2>2. u \in Seq(Text) /\ Len(u) \in Nat /\ Len(u) <= MaxPreserveLogs
    BY WindowFields, UnreadType, MaxPreserveAssumption
  <2> HIDE DEF u
  <2>3. m.logs = u /\ m.log_idx = 0 /\ m \in LogWindow
    BY <2>2 DEF LogWindow
  <2> HIDE DEF m
  <2>4. WindowOK(m)
    BY <2>2, <2>3 DEF WindowOK
  <2>5. Unread(m) = u
    BY <2>2, <2>3, SubSeqFull DEF Unread
  <2>6. QED BY <2>1, <2>4, <2>5 DEF u
<1>2. CASE ~Full(w)
  BY <1>2 DEF MakeRoom
<1>3. QED BY <1>1, <1>2

\* A window is overloaded exactly when its unread logs alone fill it.
LEMMA OverloadedIffUnreadFull ==
  ASSUME NEW w, WindowOK(w)
  PROVE  Overloaded(w) <=> Len(Unread(w)) >= MaxPreserveLogs
<1>1. CASE Full(w)
  <2>1. MakeRoom(w).logs = Unread(w)
    BY <1>1 DEF MakeRoom
  <2>2. QED BY <2>1 DEF Overloaded, Full
<1>2. CASE ~Full(w)
  BY <1>2, WindowFields, UnreadType, MaxPreserveAssumption
     DEF Overloaded, MakeRoom, Full
<1>3. QED BY <1>1, <1>2

\* The storing assignment replaces the vector and leaves the cursor.
LEMMA ReplaceLogs ==
  ASSUME NEW m \in LogWindow, NEW l
  PROVE  [m EXCEPT !.logs = l] = [logs |-> l, log_idx |-> m.log_idx]
BY DEF LogWindow

\* Storing a text keeps the window sound; it appends to the unread logs, or
\* leaves them alone when they fill the window.
LEMMA OfferOK ==
  ASSUME NEW w, WindowOK(w), NEW t \in Text
  PROVE  /\ WindowOK(Offer(w, t))
         /\ Unread(Offer(w, t)) = IF Len(Unread(w)) >= MaxPreserveLogs
                                  THEN Unread(w)
                                  ELSE Append(Unread(w), t)
<1> DEFINE m == MakeRoom(w)
<1>1. WindowOK(m) /\ Unread(m) = Unread(w)
  BY MakeRoomOK
<1>2. CASE Overloaded(w)
  BY <1>1, <1>2, OverloadedIffUnreadFull DEF Offer
<1>3. CASE ~Overloaded(w)
  <2> DEFINE o == [m EXCEPT !.logs = Append(@, t)]
  <2>1. Offer(w, t) = o /\ ~Full(m)
    BY <1>3 DEF Offer, Overloaded
  <2>2. /\ m.logs \in Seq(Text) /\ m.log_idx \in Nat /\ Len(m.logs) \in Nat
        /\ m.log_idx <= Len(m.logs) /\ Len(m.logs) < MaxPreserveLogs
        /\ m \in LogWindow
    BY <1>1, <2>1, WindowFields, MaxPreserveAssumption
       DEF Full, WindowOK
  <2> HIDE DEF m
  <2>3. o = [logs |-> Append(m.logs, t), log_idx |-> m.log_idx]
    BY <2>2, ReplaceLogs
  <2> HIDE DEF o
  <2>4. /\ o.logs = Append(m.logs, t) /\ o.log_idx = m.log_idx
        /\ Append(m.logs, t) \in Seq(Text)
        /\ Len(Append(m.logs, t)) = Len(m.logs) + 1
    BY <2>2, <2>3, AppendProperties
  <2>5. WindowOK(o)
    <3>1. o \in LogWindow
      BY <2>2, <2>3, <2>4 DEF LogWindow
    <3>2. QED BY <2>2, <2>4, <3>1, MaxPreserveAssumption DEF WindowOK
  <2>6. Unread(o) = Append(Unread(m), t)
    <3>1. Unread(o) = SubSeq(Append(m.logs, t), m.log_idx + 1, Len(m.logs) + 1)
      BY <2>4 DEF Unread
    <3>2. Unread(m) = SubSeq(m.logs, m.log_idx + 1, Len(m.logs))
      BY DEF Unread
    <3>3. m.log_idx + 1 \in 1 .. Len(m.logs) + 1
      BY <2>2
    <3>4. QED BY <2>2, <3>1, <3>2, <3>3, SuffixOfAppend
  <2>7. ~(Len(Unread(w)) >= MaxPreserveLogs)
    BY <1>3, OverloadedIffUnreadFull
  <2>8. QED BY <1>1, <2>1, <2>5, <2>6, <2>7
<1>4. QED BY <1>2, <1>3

\* A fetch takes a prefix of the unread logs, leaves the rest, in order, and
\* keeps the window sound: no log is fetched twice and none is skipped.
LEMMA FetchOK ==
  ASSUME NEW w, WindowOK(w), NEW n \in Nat
  PROVE  /\ WindowOK(AfterFetch(w, n))
         /\ Fetched(w, n) \in Seq(Text)
         /\ Len(Fetched(w, n)) <= n
         /\ Fetched(w, n) \o Unread(AfterFetch(w, n)) = Unread(w)
<1> DEFINE a == Available(w, n)
           f == [logs |-> w.logs, log_idx |-> w.log_idx + a]
<1>1. /\ w.logs \in Seq(Text) /\ w.log_idx \in Nat /\ Len(w.logs) \in Nat
      /\ w.log_idx <= Len(w.logs) /\ Len(w.logs) <= MaxPreserveLogs
      /\ w = [logs |-> w.logs, log_idx |-> w.log_idx]
  BY WindowFields
<1>2. a \in Nat /\ a <= n /\ w.log_idx + a <= Len(w.logs)
  BY <1>1 DEF Available, Lesser
<1>3. AfterFetch(w, n) = f
  BY <1>1 DEF AfterFetch
<1>4. Fetched(w, n) = SubSeq(w.logs, w.log_idx + 1, w.log_idx + a)
  BY DEF Fetched
<1> HIDE DEF a
<1>5. f.logs = w.logs /\ f.log_idx = w.log_idx + a /\ f \in LogWindow
  BY <1>1, <1>2 DEF LogWindow
<1> HIDE DEF f
<1>6. WindowOK(f)
  BY <1>1, <1>2, <1>5 DEF WindowOK
<1>7. Fetched(w, n) \in Seq(Text) /\ Len(Fetched(w, n)) <= n
  <2> DEFINE i == w.log_idx + 1
             k == w.log_idx + a
  <2>1. i \in Nat /\ k \in Nat /\ 1 <= i /\ k <= Len(w.logs) /\ k - i + 1 = a
    BY <1>1, <1>2
  <2> HIDE DEF i, k
  <2>2. /\ SubSeq(w.logs, i, k) \in Seq(Text)
        /\ Len(SubSeq(w.logs, i, k)) = IF i <= k THEN k - i + 1 ELSE 0
    BY <1>1, <2>1, SubSeqType
  <2>3. Len(SubSeq(w.logs, i, k)) <= n
    BY <1>2, <2>1, <2>2
  <2>4. QED BY <1>4, <2>2, <2>3 DEF i, k
<1>8. Fetched(w, n) \o Unread(f) = Unread(w)
  <2>1. Unread(f) = SubSeq(w.logs, w.log_idx + a + 1, Len(w.logs))
    BY <1>5 DEF Unread
  <2>2. Unread(w) = SubSeq(w.logs, w.log_idx + 1, Len(w.logs))
    BY DEF Unread
  <2> DEFINE i == w.log_idx + 1
             k == w.log_idx + a
  <2>3. i \in 1 .. Len(w.logs) + 1 /\ k \in i - 1 .. Len(w.logs) /\ Len(w.logs) \in k .. Len(w.logs)
    BY <1>1, <1>2
  <2>4. SubSeq(w.logs, i, k) \o SubSeq(w.logs, k + 1, Len(w.logs))
          = SubSeq(w.logs, i, Len(w.logs))
    BY <1>1, <2>3, ConcatAdjacentSubSeq
  <2>5. QED BY <1>4, <2>1, <2>2, <2>4
<1>9. QED BY <1>3, <1>6, <1>7, <1>8

----------------------------------------------------------------------------
(* The server *)

SoundCFG == {c \in CFG : WindowOK(c.win)}

(***************************************************************************)
(* TypeOK is not inductive: a fetch moves log_idx by Len(logs) - log_idx,  *)
(* a number only if the cursor lies inside the vector.  Sound adds that.   *)
(***************************************************************************)
Sound == IsPartial(sessions, Session, [cfgs : Seq(SoundCFG), age : Nat])

\* What InOrder returns is a sequence of elements of the set, ascending.
LEMMA InOrderOK ==
  ASSUME NEW S
  PROVE  /\ InOrder(S) \in Seq(S)
         /\ Len(InOrder(S)) \in Nat
         /\ DOMAIN InOrder(S) = 1 .. Len(InOrder(S))
         /\ \A i \in 1 .. Len(InOrder(S)) : InOrder(S)[i] \in S
         /\ \A i, j \in 1 .. Len(InOrder(S)) :
              i < j => Before(InOrder(S)[i], InOrder(S)[j])
<1>1. CASE IsFiniteSet(S) /\ Orderings(S) # {}
  <2> DEFINE n == Cardinality(S)
  <2>1. n \in Nat
    BY <1>1, FS_CardinalityType
  <2>2. InOrder(S) \in Orderings(S)
    BY <1>1 DEF InOrder
  <2>3. /\ InOrder(S) \in [1 .. n -> S]
        /\ \A i, j \in 1 .. n : i < j => Before(InOrder(S)[i], InOrder(S)[j])
    BY <2>2 DEF Orderings
  <2> HIDE DEF n
  <2>4. InOrder(S) \in Seq(S) /\ Len(InOrder(S)) = n
    BY <2>1, <2>3
  <2>5. QED BY <2>1, <2>3, <2>4
<1>2. CASE ~(IsFiniteSet(S) /\ Orderings(S) # {})
  BY <1>2 DEF InOrder
<1>3. QED BY <1>1, <1>2

\* Some configuration is the first to have a property.
LEMMA FirstOf ==
  ASSUME NEW T \in SUBSET Nat, T # {}
  PROVE  \E j \in T : \A k \in T : j <= k
<1>1. PICK j \in T : \A k \in T : ~(<<k, j>> \in OpToRel(<, Nat))
  BY WFMin, NatLessThanWellFounded
<1>2. \A k \in T : ~(k < j)
  BY <1>1, Zenon DEF OpToRel
<1>3. QED BY <1>2

\* A set of positions has a first one.
LEMMA FirstPosition ==
  ASSUME NEW S \in SUBSET (Nat \X Nat), S # {}
  PROVE  \E x \in S : \A y \in S \ {x} : Before(x, y)
<1> DEFINE A == {k[1] : k \in S}
<1>1. A \in SUBSET Nat /\ A # {}
  OBVIOUS
<1>2. PICK a \in A : \A b \in A : a <= b
  BY <1>1, FirstOf
<1> DEFINE B == {k[2] : k \in {l \in S : l[1] = a}}
<1>3. B \in SUBSET Nat /\ B # {}
  BY <1>2
<1>4. PICK b \in B : \A c \in B : b <= c
  BY <1>3, FirstOf
<1>5. PICK x \in S : x[1] = a /\ x[2] = b
  BY <1>4
<1>6. ASSUME NEW y \in S \ {x} PROVE Before(x, y)
  <2>1. x = <<x[1], x[2]>> /\ y = <<y[1], y[2]>> /\ x # y
        /\ x[1] \in Nat /\ x[2] \in Nat /\ y[1] \in Nat /\ y[2] \in Nat
    BY <1>5, <1>6
  <2>2. a <= y[1]
    BY <1>2
  <2>3. y[1] = a => b <= y[2]
    BY <1>4
  <2>4. QED BY <1>5, <2>1, <2>2, <2>3 DEF Before
<1>7. QED BY <1>6

(***************************************************************************)
(* Every finite set of positions can be ordered: the smallest that could   *)
(* not would be ordered by its first position and the order of the rest.   *)
(***************************************************************************)
LEMMA OrderingsExist ==
  ASSUME NEW R \in SUBSET (Nat \X Nat), IsFiniteSet(R)
  PROVE  Orderings(R) # {}
<1> DEFINE Bad(S) == IsFiniteSet(S) /\ Orderings(S) = {}
           T == {n \in Nat : \E S \in SUBSET (Nat \X Nat) : Cardinality(S) = n /\ Bad(S)}
<1> SUFFICES ASSUME T # {} PROVE FALSE
  BY FS_CardinalityType
<1>1. PICK n \in T : \A k \in T : n <= k
  BY FirstOf
<1>2. PICK S \in SUBSET (Nat \X Nat) : Cardinality(S) = n /\ Bad(S)
  BY <1>1
<1>3. n \in Nat
  BY <1>1
<1>4. CASE S = {}
  <2>1. n = 0
    BY <1>2, <1>4, FS_EmptySet
  <2>2. [i \in 1 .. 0 |-> 0] \in Orderings(S)
    BY <1>2, <2>1 DEF Orderings
  <2>3. QED BY <1>2, <2>2
<1>5. CASE S # {}
  <2>1. PICK x \in S : \A y \in S \ {x} : Before(x, y)
    BY <1>5, FirstPosition
  <2> DEFINE Q == S \ {x}
  <2>2. IsFiniteSet(Q) /\ Cardinality(Q) = n - 1 /\ n - 1 \in Nat
    <3>1. IsFiniteSet(S) /\ Cardinality(S) = n
      BY <1>2
    <3>2. IsFiniteSet(Q) /\ Cardinality(Q) = n - 1
      BY <3>1, FS_RemoveElement
    <3>3. Cardinality(Q) \in Nat
      BY <3>2, FS_CardinalityType
    <3>4. QED BY <3>2, <3>3
  <2>3. Q \in SUBSET (Nat \X Nat)
    OBVIOUS
  <2>4. ~Bad(Q)
    <3> HIDE DEF Bad, Q
    <3>1. Bad(Q) => n - 1 \in T
      BY <2>2, <2>3
    <3>2. n - 1 \notin T
      BY <1>1, <1>3
    <3>3. QED BY <3>1, <3>2
  <2>5. PICK f \in Orderings(Q) : TRUE
    BY <2>2, <2>4
  <2>6. /\ f \in [1 .. n - 1 -> Q]
        /\ \A i, j \in 1 .. n - 1 : i < j => Before(f[i], f[j])
    BY <2>2, <2>5 DEF Orderings
  <2> DEFINE g == [i \in 1 .. n |-> IF i = 1 THEN x ELSE f[i - 1]]
  <2>7. g \in [1 .. n -> S]
    BY <1>3, <2>6
  <2>8. ASSUME NEW i \in 1 .. n, NEW j \in 1 .. n, i < j
        PROVE  Before(g[i], g[j])
    <3>1. j - 1 \in 1 .. n - 1 /\ g[j] = f[j - 1] /\ g[j] \in S \ {x}
      BY <1>3, <2>6, <2>8
    <3>2. CASE i = 1
      <4>1. g[i] = x
        BY <3>2
      <4> HIDE DEF g
      <4>2. QED BY <2>1, <3>1, <4>1
    <3>3. CASE i # 1
      <4>1. i - 1 \in 1 .. n - 1 /\ g[i] = f[i - 1] /\ i - 1 < j - 1
        BY <1>3, <2>8, <3>3
      <4> HIDE DEF g
      <4>2. QED BY <2>6, <3>1, <4>1
    <3>4. QED BY <3>2, <3>3
  <2>9. g \in Orderings(S)
    <3> HIDE DEF g
    <3>1. QED BY <1>2, <2>7, <2>8 DEF Orderings
  <2>10. QED BY <1>2, <2>9
<1>6. QED BY <1>4, <1>5

\* A walk of a finite set of positions leaves none out.
LEMMA InOrderCovers ==
  ASSUME NEW S \in SUBSET (Nat \X Nat), IsFiniteSet(S)
  PROVE  \A k \in S : \E i \in 1 .. Len(InOrder(S)) : InOrder(S)[i] = k
<1> DEFINE n == Cardinality(S)
           f == InOrder(S)
<1>1. n \in Nat /\ f \in Orderings(S)
  BY OrderingsExist, FS_CardinalityType DEF InOrder
<1>2. /\ f \in [1 .. n -> S]
      /\ \A i, j \in 1 .. n : i < j => Before(f[i], f[j])
  BY <1>1 DEF Orderings
<1> HIDE DEF f
<1>3. f \in Injection(1 .. n, S)
  <2>1. \A k \in S : ~Before(k, k)
    BY DEF Before
  <2>2. ASSUME NEW i \in 1 .. n, NEW j \in 1 .. n, f[i] = f[j] PROVE i = j
    <3>1. f[i] \in S /\ f[j] \in S
      BY <1>2
    <3> HIDE DEF n
    <3>2. ~(i < j) /\ ~(j < i)
      BY <1>2, <2>1, <2>2, <3>1
    <3>3. QED BY <1>1, <3>2
  <2>3. QED BY <1>2, <2>2 DEF Injection, IsInjective
<1>4. Cardinality(1 .. n) = n
  <2>1. 1 \in Int /\ n \in Int
    BY <1>1
  <2> HIDE DEF n
  <2>2. QED BY <1>1, <2>1, FS_Interval
<1>5. f \in Surjection(1 .. n, S)
  BY <1>3, <1>4, FS_Injection
<1>6. Len(f) = n
  BY <1>1, <1>2
<1>7. QED BY <1>5, <1>6 DEF Surjection, f

\* A position of Positions(S) names a configuration of a session of S.
LEMMA PositionsOK ==
  ASSUME NEW S, NEW k \in Positions(S)
  PROVE  k[1] \in S /\ k[2] \in 1 .. Len(sessions[k[1]].cfgs) /\ k = <<k[1], k[2]>>
BY DEF Positions

\* The sessions the state holds, and the configurations in them, are sound.
LEMMA SoundSession ==
  ASSUME Sound, NEW s \in DOMAIN sessions
  PROVE  /\ sessions[s].cfgs \in Seq(SoundCFG) /\ sessions[s].age \in Nat
         /\ Len(sessions[s].cfgs) \in Nat
         /\ \A i \in 1 .. Len(sessions[s].cfgs) : sessions[s].cfgs[i] \in SoundCFG
         /\ sessions[s] \in [cfgs : Seq(SoundCFG), age : Nat]
         /\ s \in Session
BY DEF Sound, IsPartial

LEMMA SoundAt ==
  ASSUME Sound, NEW S \in SUBSET DOMAIN sessions, NEW k \in Positions(S)
  PROVE  CfgAt(k) \in SoundCFG /\ k[1] \in DOMAIN sessions /\ k[1] \in Session
BY PositionsOK, SoundSession DEF CfgAt

\* Replacing the window of a configuration by a sound one.
LEMMA ReplaceWin ==
  ASSUME NEW c \in SoundCFG, NEW w, WindowOK(w)
  PROVE  /\ [c EXCEPT !.win = w] \in SoundCFG
         /\ [c EXCEPT !.win = w].gns_name = c.gns_name
         /\ [c EXCEPT !.win = w].ip_port = c.ip_port
BY DEF SoundCFG, CFG, WindowOK

\* An upload keeps every configuration of the session sound, and changes
\* neither their number nor their selectors.
LEMMA StoredOK ==
  ASSUME NEW cfgs \in Seq(SoundCFG), NEW gns, NEW ip, NEW t \in Text
  PROVE  /\ Stored(cfgs, gns, ip, t) \in Seq(SoundCFG)
         /\ Len(Stored(cfgs, gns, ip, t)) = Len(cfgs)
         /\ \A i \in 1 .. Len(cfgs) :
              /\ Stored(cfgs, gns, ip, t)[i].gns_name = cfgs[i].gns_name
              /\ Stored(cfgs, gns, ip, t)[i].ip_port = cfgs[i].ip_port
<1> DEFINE st == Stored(cfgs, gns, ip, t)
<1>1. \A i \in 1 .. Len(cfgs) : /\ st[i] \in SoundCFG
                                /\ st[i].gns_name = cfgs[i].gns_name
                                /\ st[i].ip_port = cfgs[i].ip_port
  <2> SUFFICES ASSUME NEW i \in 1 .. Len(cfgs)
               PROVE  /\ st[i] \in SoundCFG
                      /\ st[i].gns_name = cfgs[i].gns_name
                      /\ st[i].ip_port = cfgs[i].ip_port
    OBVIOUS
  <2> DEFINE c == cfgs[i]
             w == AfterBoth(c, gns, ip, t)
  <2>1. c \in SoundCFG /\ WindowOK(c.win)
    BY DEF SoundCFG
  <2>2. WindowOK(AfterAddr(c, ip, t))
    BY <2>1, OfferOK DEF AfterAddr
  <2>3. WindowOK(w)
    BY <2>2, OfferOK DEF AfterBoth
  <2>4. st[i] = c \/ st[i] = [c EXCEPT !.win = w]
    BY DEF Stored
  <2> HIDE DEF c, w, st
  <2> DEFINE d == [c EXCEPT !.win = w]
  <2>d. d \in SoundCFG /\ d.gns_name = c.gns_name /\ d.ip_port = c.ip_port
    BY <2>1, <2>3, ReplaceWin
  <2> HIDE DEF d
  <2>5. st[i] \in SoundCFG /\ st[i].gns_name = c.gns_name /\ st[i].ip_port = c.ip_port
    BY <2>1, <2>4, <2>d DEF d
  <2>6. QED BY <2>5 DEF c
<1>2. st \in Seq(SoundCFG) /\ Len(st) = Len(cfgs)
  <2>1. st \in [1 .. Len(cfgs) -> SoundCFG]
    BY <1>1 DEF Stored
  <2>2. QED BY <2>1
<1>3. QED BY <1>1, <1>2

\* The share of a configuration of a session that has some is a number.
LEMMA ShareOK ==
  ASSUME NEW cfgs, Len(cfgs) \in Nat \ {0}
  PROVE  Share(cfgs) \in Nat
BY ServerAssumption DEF Share

\* A fetch does the same, and what it hands out are texts.
LEMMA RemainingOK ==
  ASSUME NEW cfgs \in Seq(SoundCFG), cfgs # << >>
  PROVE  /\ Remaining(cfgs) \in Seq(SoundCFG)
         /\ Len(Remaining(cfgs)) = Len(cfgs)
         /\ \A i \in 1 .. Len(cfgs) :
              /\ Remaining(cfgs)[i].gns_name = cfgs[i].gns_name
              /\ Remaining(cfgs)[i].ip_port = cfgs[i].ip_port
         /\ LogTexts(cfgs) \in Seq(LogText)
<1> DEFINE r == Remaining(cfgs)
           l == LogTexts(cfgs)
           n == Share(cfgs)
<1>1. Len(cfgs) \in Nat \ {0}
  OBVIOUS
<1>2. n \in Nat
  BY <1>1, ShareOK
<1>3. \A i \in 1 .. Len(cfgs) : /\ r[i] \in SoundCFG
                                /\ r[i].gns_name = cfgs[i].gns_name
                                /\ r[i].ip_port = cfgs[i].ip_port
                                /\ l[i] \in LogText
  <2> SUFFICES ASSUME NEW i \in 1 .. Len(cfgs)
               PROVE  /\ r[i] \in SoundCFG
                      /\ r[i].gns_name = cfgs[i].gns_name
                      /\ r[i].ip_port = cfgs[i].ip_port
                      /\ l[i] \in LogText
    OBVIOUS
  <2> DEFINE c == cfgs[i]
             w == AfterFetch(c.win, n)
  <2>1. c \in SoundCFG /\ WindowOK(c.win) /\ c \in CFG
    BY DEF SoundCFG
  <2>2. WindowOK(w) /\ Fetched(c.win, n) \in Seq(Text)
    BY <1>2, <2>1, FetchOK
  <2>3. r[i] = [c EXCEPT !.win = w]
    BY DEF Remaining
  <2>4. l[i] = [gns_name |-> c.gns_name, ip_port |-> c.ip_port,
                text |-> Fetched(c.win, n)]
    BY DEF LogTexts
  <2> HIDE DEF c, w, n, r, l
  <2>5. r[i] \in SoundCFG /\ r[i].gns_name = c.gns_name /\ r[i].ip_port = c.ip_port
    BY <2>1, <2>2, <2>3, ReplaceWin
  <2>6. l[i] \in LogText
    BY <2>1, <2>2, <2>4 DEF LogText, CFG
  <2>7. QED BY <2>5, <2>6 DEF c
<1>4. r \in Seq(SoundCFG) /\ Len(r) = Len(cfgs)
  <2>1. r \in [1 .. Len(cfgs) -> SoundCFG]
    BY <1>3 DEF Remaining
  <2>2. QED BY <1>1, <2>1
<1>5. l \in Seq(LogText)
  <2>1. l \in [1 .. Len(cfgs) -> LogText]
    BY <1>3 DEF LogTexts
  <2>2. QED BY <1>1, <2>1
<1>6. QED BY <1>3, <1>4, <1>5

\* A request keeps some of the configurations and appends a new, empty one.
LEMMA NewCfgsOK ==
  ASSUME Sound, NEW s \in DOMAIN sessions,
         NEW gns \in Gns \cup {NoName}, NEW ip \in IpPort \cup {NoName},
         NEW p \in Param
  PROVE  LET cfgs == NewCfgs(s, gns, ip, p)
             o == InOrder(Kept(s, gns, ip))
         IN /\ cfgs \in Seq(SoundCFG)
            /\ Len(o) \in Nat /\ Len(cfgs) = Len(o) + 1
            /\ \A i \in 1 .. Len(o) : o[i] \in Kept(s, gns, ip) /\ cfgs[i] = CfgAt(o[i])
            /\ cfgs[Len(o) + 1] = [gns_name |-> gns, ip_port |-> ip, p |-> p,
                                   win |-> EmptyWindow]
<1> DEFINE o == InOrder(Kept(s, gns, ip))
           c == [gns_name |-> gns, ip_port |-> ip, p |-> p, win |-> EmptyWindow]
           f == [i \in DOMAIN o |-> CfgAt(o[i])]
<1>1. c \in SoundCFG
  BY EmptyWindowOK DEF SoundCFG, CFG, WindowOK
<1>2. /\ Len(o) \in Nat /\ DOMAIN o = 1 .. Len(o)
      /\ \A i \in 1 .. Len(o) : o[i] \in Kept(s, gns, ip)
  BY InOrderOK
<1>3. \A k \in Kept(s, gns, ip) : CfgAt(k) \in SoundCFG
  BY SoundAt DEF Kept
<1>4. NewCfgs(s, gns, ip, p) = Append(f, c)
  BY DEF NewCfgs
<1> HIDE DEF o, c
<1>5. f \in Seq(SoundCFG) /\ Len(f) = Len(o)
  <2>1. f \in [1 .. Len(o) -> SoundCFG]
    BY <1>2, <1>3
  <2>2. QED BY <1>2, <2>1
<1>6. \A i \in 1 .. Len(o) : f[i] = CfgAt(o[i])
  BY <1>2
<1> HIDE DEF f
<1>7. /\ Append(f, c) \in Seq(SoundCFG) /\ Len(Append(f, c)) = Len(o) + 1
      /\ \A i \in 1 .. Len(o) : Append(f, c)[i] = CfgAt(o[i])
      /\ Append(f, c)[Len(o) + 1] = c
  BY <1>1, <1>2, <1>5, <1>6, AppendProperties
<1>8. QED BY <1>2, <1>4, <1>7 DEF o, c

----------------------------------------------------------------------------
(* What is sent are messages *)

Out == [Fd -> Seq(Msg)]
Tables == [Fd -> {"none", "open", "null"}]

LEMMA NothingOK == Nothing \in Out
BY DEF Nothing, Out

LEMMA ToOK ==
  ASSUME NEW fd \in Fd, NEW m \in Msg
  PROVE  To(fd, m) \in Out
<1>1. <<m>> \in Seq(Msg)
  OBVIOUS
<1>2. QED BY <1>1, NothingOK DEF To, Out

LEMMA BothOK ==
  ASSUME NEW a \in Out, NEW b \in Out
  PROVE  Both(a, b) \in Out
BY DEF Both, Out

LEMMA SendMsgOK ==
  ASSUME NEW out \in Out, conns \in Tables, SendMsg(out)
  PROVE  conns' \in Tables /\ sent' \in Out
BY DEF SendMsg, Out, Tables

LEMMA RepliesOK ==
  ASSUME NEW s \in Session, NEW p \in Param, NEW tag \in Tag, NEW ok \in BOOLEAN,
         NEW ids \in SUBSET Session, NEW logs \in Seq(LogText)
  PROVE  /\ CfgInfoReq(s, p) \in Msg /\ ClearSessionReq(s) \in Msg
         /\ HeartBeat \in Msg /\ LoginResp(tag, ids) \in Msg
         /\ SetConfResp(tag, ok) \in Msg /\ GetLogResp(tag, ok, logs) \in Msg
<1>1. CfgInfoReq(s, p) \in [id : {"CFG_INFO_REQ"}, session : Session, p : Param]
  BY DEF CfgInfoReq
<1>2. ClearSessionReq(s) \in [id : {"CLEAR_SESSION_REQ"}, session : Session]
  BY DEF ClearSessionReq
<1>3. HeartBeat \in [id : {"HEARTBEAT_MSG"}]
  BY DEF HeartBeat
<1>4. LoginResp(tag, ids) \in [id : {"LOGIN_RESP"}, tag : Tag, session : SUBSET Session]
  BY DEF LoginResp
<1>5. SetConfResp(tag, ok) \in [id : {"SET_CONF_RESP"}, tag : Tag, ok : BOOLEAN]
  BY DEF SetConfResp
<1>6. GetLogResp(tag, ok, logs) \in
        [id : {"GET_LOG_RESP"}, tag : Tag, ok : BOOLEAN, logs : Seq(LogText)]
  BY DEF GetLogResp
<1>7. QED BY <1>1, <1>2, <1>3, <1>4, <1>5, <1>6 DEF Msg

\* A sequence of messages built by walking positions in order.
LEMMA WalkOK ==
  ASSUME NEW S, NEW f, f = [i \in DOMAIN InOrder(S) |-> f[i]],
         \A i \in 1 .. Len(InOrder(S)) : f[i] \in Msg
  PROVE  f \in Seq(Msg)
<1> DEFINE o == InOrder(S)
<1>1. Len(o) \in Nat /\ DOMAIN o = 1 .. Len(o)
  BY InOrderOK
<1> HIDE DEF o
<1>2. f \in [1 .. Len(o) -> Msg]
  BY <1>1 DEF o
<1>3. QED BY <1>1, <1>2

----------------------------------------------------------------------------
(* The inductive invariant *)

OtherTypes ==
  /\ status \in {"up", "SIGFPE", "SIGSEGV", "killed"}
  /\ conns \in Tables
  /\ IsPartial(cliInfo, Fd, CLIENT_INFO)
  /\ DOMAIN sessions \subseteq issued /\ issued \subseteq Session
  /\ untilCheck \in 0 .. CheckInterval
  /\ sent \in Out

IInv == Sound /\ OtherTypes

LEMMA IInvImplies == IInv => TypeOK /\ WindowsSound
<1> SUFFICES ASSUME IInv PROVE TypeOK /\ WindowsSound
  OBVIOUS
<1>1. WindowsSound
  BY SoundSession DEF WindowsSound, SoundCFG, IInv
<1>2. IsPartial(sessions, Session, SESSION_INFO)
  <2>1. Seq(SoundCFG) \subseteq Seq(CFG)
    BY DEF SoundCFG
  <2>2. [cfgs : Seq(SoundCFG), age : Nat] \subseteq SESSION_INFO
    BY <2>1 DEF SESSION_INFO
  <2>3. QED BY <2>2 DEF IInv, Sound, IsPartial
<1>3. QED BY <1>1, <1>2 DEF IInv, OtherTypes, TypeOK, Tables, Out

LEMMA IInvInit == Init => IInv
BY ServerAssumption, NothingOK
   DEF Init, IInv, Sound, OtherTypes, IsPartial, NoEntries, Tables

LEMMA DieOK ==
  ASSUME IInv, NEW cause \in {"SIGFPE", "SIGSEGV", "killed"}, Die(cause)
  PROVE  IInv'
BY ServerAssumption, NothingOK
   DEF Die, IInv, Sound, OtherTypes, IsPartial, NoEntries, Tables, Out, Nothing

\* Handlers that leave the sessions alone.
LEMMA ConnectionStepOK ==
  ASSUME IInv, NEW fd \in Fd, AllocateConnection(fd) \/ ReleaseConnection(fd)
  PROVE  IInv'
<1>1. Sound'
  BY DEF IInv, Sound, IsPartial, AllocateConnection, ReleaseConnection
<1>2. conns' \in Tables
  BY DEF IInv, OtherTypes, Tables, AllocateConnection, ReleaseConnection
<1>3. IsPartial(cliInfo', Fd, CLIENT_INFO)
  BY DEF IInv, OtherTypes, IsPartial, AllocateConnection, ReleaseConnection, Without
<1>4. sent' \in Out
  BY NothingOK DEF AllocateConnection, ReleaseConnection, Out, Nothing
<1>5. QED
  BY <1>1, <1>2, <1>3, <1>4
     DEF IInv, OtherTypes, AllocateConnection, ReleaseConnection

LEMMA CheckFDOK ==
  ASSUME IInv, NEW idle \in SUBSET Fd, CheckFDExpireTime(idle)
  PROVE  IInv'
<1>1. CASE \E fd \in Fd : conns[fd] = "null"
  BY <1>1, DieOK DEF CheckFDExpireTime
<1>2. CASE ~\E fd \in Fd : conns[fd] = "null"
  <2>1. conns' \in Tables
    BY <1>2 DEF IInv, OtherTypes, Tables, CheckFDExpireTime
  <2>2. sent' \in Out
    BY <1>2, NothingOK DEF CheckFDExpireTime, Out, Nothing
  <2>3. QED
    BY <1>2, <2>1, <2>2
       DEF IInv, Sound, OtherTypes, IsPartial, CheckFDExpireTime
<1>3. QED BY <1>1, <1>2

LEMMA UpdateClientInfoOK ==
  ASSUME IInv, NEW fd \in Fd, NEW gns \in Gns, NEW ip \in IpPort,
         UpdateClientInfo(fd, gns, ip)
  PROVE  IInv'
<1> DEFINE S == {k \in Positions(DOMAIN sessions) : CfgAt(k).gns_name = gns}
           o == InOrder(S)
           m == [i \in DOMAIN o |-> CfgInfoReq(o[i][1], CfgAt(o[i]).p)]
           out == [Nothing EXCEPT ![fd] = m]
<1>1. m \in Seq(Msg)
  <2>1. \A k \in S : CfgInfoReq(k[1], CfgAt(k).p) \in Msg
    <3> SUFFICES ASSUME NEW k \in S PROVE CfgInfoReq(k[1], CfgAt(k).p) \in Msg
      OBVIOUS
    <3>1. k[1] \in Session /\ CfgAt(k).p \in Param
      BY SoundAt DEF IInv, SoundCFG, CFG
    <3>2. QED BY <3>1 DEF CfgInfoReq, Msg
  <2>2. \A i \in 1 .. Len(o) : m[i] \in Msg
    BY <2>1, InOrderOK
  <2> HIDE DEF S
  <2>3. QED BY <2>2, WalkOK
<1> HIDE DEF m
<1>2. out \in Out
  BY <1>1, NothingOK DEF Out
<1>3. SendMsg(out)
  BY DEF UpdateClientInfo, m
<1> HIDE DEF out
<1>4. conns' \in Tables /\ sent' \in Out
  BY <1>2, <1>3, SendMsgOK DEF IInv, OtherTypes
<1>5. IsPartial(cliInfo', Fd, CLIENT_INFO)
  BY DEF IInv, OtherTypes, IsPartial, UpdateClientInfo, CLIENT_INFO
<1>6. Sound'
  BY DEF IInv, Sound, IsPartial, UpdateClientInfo
<1>7. QED BY <1>4, <1>5, <1>6 DEF IInv, OtherTypes, UpdateClientInfo

\* One session replaced by a sound one.
LEMMA ReplaceSession ==
  ASSUME Sound, NEW s \in DOMAIN sessions,
         NEW r \in [cfgs : Seq(SoundCFG), age : Nat],
         sessions' = [sessions EXCEPT ![s] = r]
  PROVE  Sound' /\ DOMAIN sessions' = DOMAIN sessions
BY DEF Sound, IsPartial

LEMMA SaveLogOK ==
  ASSUME IInv, NEW fd \in Fd, NEW s \in issued, NEW gns \in Gns, NEW ip \in IpPort,
         NEW t \in Text, SaveLog(fd, s, gns, ip, t)
  PROVE  IInv'
<1> USE DEF IInv
<1>1. CASE s \in DOMAIN sessions
  <2> DEFINE r == WithLog(s, gns, ip, t)
  <2>1. sessions' = [sessions EXCEPT ![s] = r]
    BY <1>1 DEF SaveLog
  <2>2. /\ sessions[s] \in [cfgs : Seq(SoundCFG), age : Nat]
        /\ Stored(sessions[s].cfgs, gns, ip, t) \in Seq(SoundCFG)
    BY <1>1, SoundSession, StoredOK
  <2>3. r \in [cfgs : Seq(SoundCFG), age : Nat]
    BY <2>2 DEF WithLog
  <2> HIDE DEF r
  <2>4. Sound' /\ DOMAIN sessions' = DOMAIN sessions
    BY <1>1, <2>1, <2>3, ReplaceSession
  <2>5. conns' \in Tables /\ sent' \in Out
    BY <1>1, NothingOK, SendMsgOK DEF SaveLog, OtherTypes
  <2>6. QED BY <2>4, <2>5 DEF OtherTypes, SaveLog
<1>2. CASE s \notin DOMAIN sessions
  <2>1. s \in Session
    BY DEF OtherTypes
  <2>2. ClearSessionReq(s) \in Msg
    BY <2>1 DEF ClearSessionReq, Msg
  <2>3. conns' \in Tables /\ sent' \in Out
    BY <1>2, <2>2, ToOK, SendMsgOK DEF SaveLog, OtherTypes
  <2>4. QED BY <1>2, <2>3 DEF OtherTypes, SaveLog, Sound
<1>3. QED BY <1>1, <1>2

LEMMA HeartBeatOK ==
  ASSUME IInv, NEW fd \in Fd, SendBackHeartBeat(fd)
  PROVE  IInv'
<1>1. HeartBeat \in Msg
  BY DEF HeartBeat, Msg
<1>2. conns' \in Tables /\ sent' \in Out
  BY <1>1, ToOK, SendMsgOK DEF SendBackHeartBeat, IInv, OtherTypes
<1>3. QED BY <1>2 DEF IInv, Sound, OtherTypes, SendBackHeartBeat

LEMMA LoginOK ==
  ASSUME IInv, NEW fd \in Fd, NEW tag \in Tag, NEW ok \in BOOLEAN,
         LoginLogic(fd, tag, ok)
  PROVE  IInv'
<1> USE DEF IInv
<1>1. CASE ok
  <2>1. PICK s \in Session \ issued :
          /\ issued' = issued \cup {s}
          /\ sessions' = [r \in DOMAIN sessions \cup {s} |->
                            IF r = s THEN [cfgs |-> << >>, age |-> 0]
                                     ELSE sessions[r]]
          /\ SendMsg(To(fd, LoginResp(tag, {s})))
    BY <1>1 DEF LoginLogic
  <2>2. Sound'
    BY <2>1 DEF Sound, IsPartial
  <2>3. LoginResp(tag, {s}) \in Msg
    BY DEF LoginResp, Msg
  <2>4. conns' \in Tables /\ sent' \in Out
    BY <2>1, <2>3, ToOK, SendMsgOK DEF OtherTypes
  <2>5. QED BY <2>1, <2>2, <2>4 DEF OtherTypes, LoginLogic
<1>2. CASE ~ok
  <2>1. LoginResp(tag, {}) \in Msg
    BY DEF LoginResp, Msg
  <2>2. conns' \in Tables /\ sent' \in Out
    BY <1>2, <2>1, ToOK, SendMsgOK DEF OtherTypes, LoginLogic
  <2>3. QED BY <1>2, <2>2 DEF Sound, OtherTypes, LoginLogic
<1>3. QED BY <1>1, <1>2

\* What SetConfig sends to the clients.
LEMMA CfgInfoOK ==
  ASSUME NEW s \in Session, NEW cfgs \in Seq(SoundCFG),
         NEW gns \in Gns \cup {NoName}, NEW ip \in IpPort \cup {NoName}
  PROVE  SendCfgInfo2Clients(s, cfgs, gns, ip) \in Out
<1> DEFINE S(fd) == {k \in {s} \X (1 .. Len(cfgs)) :
                       IF ip # NoName
                       THEN cfgs[k[2]].ip_port = ip /\ fd \in GetFdByIPPort(ip) /\ fd > 0
                       ELSE cfgs[k[2]].gns_name = gns /\ fd \in GetFdByGns(gns)}
           m(fd) == [i \in DOMAIN InOrder(S(fd)) |->
                       CfgInfoReq(s, cfgs[InOrder(S(fd))[i][2]].p)]
<1>1. ASSUME NEW fd \in Fd PROVE m(fd) \in Seq(Msg)
  <2>1. \A k \in S(fd) : CfgInfoReq(s, cfgs[k[2]].p) \in Msg
    <3> SUFFICES ASSUME NEW k \in S(fd) PROVE CfgInfoReq(s, cfgs[k[2]].p) \in Msg
      OBVIOUS
    <3>1. k[2] \in 1 .. Len(cfgs)
      OBVIOUS
    <3>2. cfgs[k[2]].p \in Param
      BY <3>1 DEF SoundCFG, CFG
    <3>3. QED BY <3>2 DEF CfgInfoReq, Msg
  <2> DEFINE T == S(fd)
             f == m(fd)
  <2> HIDE DEF S
  <2>2. \A i \in 1 .. Len(InOrder(T)) : InOrder(T)[i] \in T /\ i \in DOMAIN InOrder(T)
    BY InOrderOK
  <2>3. \A i \in 1 .. Len(InOrder(T)) : f[i] \in Msg
    BY <2>1, <2>2
  <2>4. f = [i \in DOMAIN InOrder(T) |-> f[i]]
    OBVIOUS
  <2> HIDE DEF m, T, f
  <2>5. f \in Seq(Msg)
    BY <2>3, <2>4, WalkOK
  <2>6. QED BY <2>5 DEF f
<1>2. SendCfgInfo2Clients(s, cfgs, gns, ip) = [fd \in Fd |-> m(fd)]
  BY DEF SendCfgInfo2Clients
<1> HIDE DEF m
<1>3. QED BY <1>1, <1>2 DEF Out

LEMMA SetConfigOK ==
  ASSUME IInv, NEW fd \in Fd, NEW tag \in Tag, NEW s \in issued,
         NEW gns \in Gns \cup {NoName}, NEW ip \in IpPort \cup {NoName},
         NEW p \in Param, SetConfig(fd, tag, s, gns, ip, p)
  PROVE  IInv'
<1> USE DEF IInv
<1>1. CASE s \in DOMAIN sessions
  <2> DEFINE cfgs == NewCfgs(s, gns, ip, p)
             r == [cfgs |-> cfgs, age |-> 0]
             a == SendCfgInfo2Clients(s, cfgs, gns, ip)
             b == To(fd, SetConfResp(tag, TRUE))
  <2>1. sessions' = [sessions EXCEPT ![s] = r] /\ SendMsg(Both(a, b))
    BY <1>1 DEF SetConfig
  <2>2. cfgs \in Seq(SoundCFG) /\ s \in Session
    BY <1>1, NewCfgsOK, SoundSession
  <2> HIDE DEF cfgs
  <2>3. Sound' /\ DOMAIN sessions' = DOMAIN sessions
    BY <1>1, <2>1, <2>2, ReplaceSession
  <2>4. SetConfResp(tag, TRUE) \in Msg
    BY DEF SetConfResp, Msg
  <2>5. a \in Out /\ b \in Out
    BY <2>2, <2>4, CfgInfoOK, ToOK
  <2> HIDE DEF a, b
  <2>6. conns' \in Tables /\ sent' \in Out
    BY <2>1, <2>5, BothOK, SendMsgOK DEF OtherTypes
  <2>7. QED BY <2>3, <2>6 DEF OtherTypes, SetConfig
<1>2. CASE s \notin DOMAIN sessions
  <2>1. SetConfResp(tag, FALSE) \in Msg
    BY DEF SetConfResp, Msg
  <2>2. conns' \in Tables /\ sent' \in Out
    BY <1>2, <2>1, ToOK, SendMsgOK DEF OtherTypes, SetConfig
  <2>3. QED BY <1>2, <2>2 DEF Sound, OtherTypes, SetConfig
<1>3. QED BY <1>1, <1>2

LEMMA GetLogOK ==
  ASSUME IInv, NEW fd \in Fd, NEW tag \in Tag, NEW s \in issued, GetLog(fd, tag, s)
  PROVE  IInv'
<1> USE DEF IInv
<1>1. CASE s \notin DOMAIN sessions
  <2>1. GetLogResp(tag, FALSE, << >>) \in Msg
    <3>1. << >> \in Seq(LogText)
      OBVIOUS
    <3>2. QED BY <3>1 DEF GetLogResp, Msg
  <2>2. conns' \in Tables /\ sent' \in Out
    BY <1>1, <2>1, ToOK, SendMsgOK DEF OtherTypes, GetLog
  <2>3. QED BY <1>1, <2>2 DEF Sound, OtherTypes, GetLog
<1>2. CASE s \in DOMAIN sessions /\ sessions[s].cfgs = << >>
  BY <1>2, DieOK DEF GetLog
<1>3. CASE s \in DOMAIN sessions /\ sessions[s].cfgs # << >>
  <2> DEFINE cfgs == sessions[s].cfgs
             r == [cfgs |-> Remaining(cfgs), age |-> 0]
             m == GetLogResp(tag, TRUE, LogTexts(cfgs))
  <2>1. sessions' = [sessions EXCEPT ![s] = r] /\ SendMsg(To(fd, m))
    BY <1>3 DEF GetLog
  <2>2. cfgs \in Seq(SoundCFG)
    BY <1>3, SoundSession
  <2>3. Remaining(cfgs) \in Seq(SoundCFG) /\ LogTexts(cfgs) \in Seq(LogText)
    BY <1>3, <2>2, RemainingOK
  <2>4. m \in Msg
    BY <2>3 DEF GetLogResp, Msg
  <2> HIDE DEF cfgs, m
  <2>5. Sound' /\ DOMAIN sessions' = DOMAIN sessions
    BY <1>3, <2>1, <2>3, ReplaceSession
  <2>6. conns' \in Tables /\ sent' \in Out
    BY <2>1, <2>4, ToOK, SendMsgOK DEF OtherTypes
  <2>7. QED BY <1>3, <2>5, <2>6 DEF OtherTypes, GetLog
<1>4. QED BY <1>1, <1>2, <1>3

LEMMA CheckSessionOK ==
  ASSUME IInv, CheckSessionExpireTime
  PROVE  IInv'
<1> USE DEF IInv
<1> DEFINE S(fd) == {k \in Positions(Expired) : fd \in Informed(CfgAt(k))}
           m(fd) == [i \in DOMAIN InOrder(S(fd)) |->
                       ClearSessionReq(InOrder(S(fd))[i][1])]
           out == [fd \in Fd |-> m(fd)]
<1>1. ASSUME NEW fd \in Fd PROVE m(fd) \in Seq(Msg)
  <2>1. \A k \in S(fd) : ClearSessionReq(k[1]) \in Msg
    <3> SUFFICES ASSUME NEW k \in S(fd) PROVE ClearSessionReq(k[1]) \in Msg
      OBVIOUS
    <3>1. k[1] \in Session
      BY SoundAt DEF Expired
    <3>2. QED BY <3>1 DEF ClearSessionReq, Msg
  <2> DEFINE T == S(fd)
             f == m(fd)
  <2> HIDE DEF S
  <2>2. \A i \in 1 .. Len(InOrder(T)) : InOrder(T)[i] \in T /\ i \in DOMAIN InOrder(T)
    BY InOrderOK
  <2>3. \A i \in 1 .. Len(InOrder(T)) : f[i] \in Msg
    BY <2>1, <2>2
  <2>4. f = [i \in DOMAIN InOrder(T) |-> f[i]]
    OBVIOUS
  <2> HIDE DEF m, T, f
  <2>5. f \in Seq(Msg)
    BY <2>3, <2>4, WalkOK
  <2>6. QED BY <2>5 DEF f
<1>2. SendMsg(out)
  BY DEF CheckSessionExpireTime
<1> HIDE DEF m
<1>3. out \in Out
  BY <1>1 DEF Out
<1> HIDE DEF out
<1>4. conns' \in Tables /\ sent' \in Out
  BY <1>2, <1>3, SendMsgOK DEF OtherTypes
<1>5. Sound' /\ DOMAIN sessions' \subseteq DOMAIN sessions
  BY DEF Sound, IsPartial, CheckSessionExpireTime, Unexpired
<1>6. QED
  BY <1>4, <1>5, ServerAssumption DEF OtherTypes, CheckSessionExpireTime

LEMMA TickOK ==
  ASSUME IInv, Tick
  PROVE  IInv'
<1> USE DEF IInv
<1>1. Sound' /\ DOMAIN sessions' = DOMAIN sessions
  <2>1. \A s \in DOMAIN sessions :
          [sessions[s] EXCEPT !.age = @ + 1] \in [cfgs : Seq(SoundCFG), age : Nat]
    BY SoundSession
  <2>2. QED BY <2>1 DEF Sound, IsPartial, Tick
<1>2. sent' \in Out
  BY NothingOK DEF Tick, Out, Nothing
<1>3. QED BY <1>1, <1>2, ServerAssumption DEF OtherTypes, Tick

LEMMA RestartOK ==
  ASSUME IInv, Restart
  PROVE  IInv'
<1>1. sent' \in Out
  BY NothingOK DEF Restart, Out, Nothing
<1>2. QED BY <1>1 DEF IInv, Sound, OtherTypes, Restart

LEMMA IInvNext == IInv /\ [Next]_vars => IInv'
<1> SUFFICES ASSUME IInv, [Next]_vars PROVE IInv'
  OBVIOUS
<1>1. CASE ConnStep
  BY <1>1, ConnectionStepOK DEF ConnStep
<1>2. CASE ClientMsg
  BY <1>2, UpdateClientInfoOK, SaveLogOK DEF ClientMsg
<1>3. CASE CgiMsg
  BY <1>3, LoginOK, GetLogOK, SetConfigOK DEF CgiMsg
<1>4. CASE \E fd \in Fd : SendBackHeartBeat(fd)
  BY <1>4, HeartBeatOK
<1>5. CASE TimerStep
  BY <1>5, CheckSessionOK, CheckFDOK DEF TimerStep
<1>6. CASE Tick
  BY <1>6, TickOK
<1>7. CASE Kill
  BY <1>7, DieOK DEF Kill
<1>8. CASE Restart
  BY <1>8, RestartOK
<1>9. CASE UNCHANGED vars
  BY <1>9 DEF vars, IInv, Sound, OtherTypes
<1>10. QED
  BY <1>1, <1>2, <1>3, <1>4, <1>5, <1>6, <1>7, <1>8, <1>9 DEF Next

THEOREM Invariance == Spec => []IInv
BY IInvInit, IInvNext, PTL DEF Spec

\* Every reachable state of the server has its types.
THEOREM TypeCorrect == Spec => []TypeOK
<1>1. IInv => TypeOK
  BY IInvImplies
<1>2. QED BY <1>1, Invariance, PTL

\* No sequence of uploads, fetches and reconfigurations moves log_idx out of
\* its vector or lets a vector outgrow maxPerserveLogs.
THEOREM WindowsAreSound == Spec => []WindowsSound
<1>1. IInv => WindowsSound
  BY IInvImplies
<1>2. QED BY <1>1, Invariance, PTL

----------------------------------------------------------------------------
(* No two configurations of a session share a selector *)

Distinct(cfgs) ==
  \A i, j \in 1 .. Len(cfgs) :
    i # j => /\ cfgs[i].gns_name = cfgs[j].gns_name => cfgs[i].gns_name = NoName
             /\ cfgs[i].ip_port = cfgs[j].ip_port => cfgs[i].ip_port = NoName

LEMMA SameSelectors ==
  ASSUME NEW a, NEW b, Distinct(a), Len(b) = Len(a),
         \A i \in 1 .. Len(a) : /\ b[i].gns_name = a[i].gns_name
                                /\ b[i].ip_port = a[i].ip_port
  PROVE  Distinct(b)
BY DEF Distinct

\* The erasing loop of SetConfig removes all that the new one would repeat.
LEMMA NewCfgsDistinct ==
  ASSUME Sound, NEW s \in DOMAIN sessions, Distinct(sessions[s].cfgs),
         NEW gns \in Gns \cup {NoName}, NEW ip \in IpPort \cup {NoName},
         NEW p \in Param
  PROVE  Distinct(NewCfgs(s, gns, ip, p))
<1> DEFINE cfgs == NewCfgs(s, gns, ip, p)
           K == Kept(s, gns, ip)
           o == InOrder(K)
           n == Len(o)
           c == [gns_name |-> gns, ip_port |-> ip, p |-> p, win |-> EmptyWindow]
<1>1. /\ n \in Nat /\ Len(cfgs) = n + 1 /\ cfgs[n + 1] = c
      /\ \A i \in 1 .. n : o[i] \in K
      /\ \A i \in 1 .. n : cfgs[i] = CfgAt(o[i])
  BY NewCfgsOK
<1>2. \A i, j \in 1 .. n : i < j => Before(o[i], o[j])
  BY InOrderOK
<1>3. \A k \in K :
        /\ k[1] = s /\ k[2] \in 1 .. Len(sessions[s].cfgs)
        /\ CfgAt(k) = sessions[s].cfgs[k[2]]
        /\ ip = NoName \/ CfgAt(k).ip_port # ip
        /\ gns = NoName \/ CfgAt(k).gns_name # gns
  BY PositionsOK DEF Kept, CfgAt
<1>4. n \in Nat /\ Len(sessions[s].cfgs) \in Nat /\ s \in Int
  <2>1. n \in Nat
    BY <1>1
  <2>2. s \in Session /\ Len(sessions[s].cfgs) \in Nat
    BY SoundSession
  <2>3. QED BY <2>1, <2>2, ServerAssumption
<1>5. cfgs[n + 1].gns_name = gns /\ cfgs[n + 1].ip_port = ip
  BY <1>1
<1> HIDE DEF cfgs, K, o, n, c
<1> DEFINE P(i) == o[i][2]
<1>6. \A i \in 1 .. n : /\ o[i][1] = s /\ P(i) \in 1 .. Len(sessions[s].cfgs)
                        /\ cfgs[i] = sessions[s].cfgs[P(i)]
                        /\ ip = NoName \/ cfgs[i].ip_port # ip
                        /\ gns = NoName \/ cfgs[i].gns_name # gns
  <2> SUFFICES ASSUME NEW i \in 1 .. n
               PROVE  /\ o[i][1] = s /\ P(i) \in 1 .. Len(sessions[s].cfgs)
                      /\ cfgs[i] = sessions[s].cfgs[P(i)]
                      /\ ip = NoName \/ cfgs[i].ip_port # ip
                      /\ gns = NoName \/ cfgs[i].gns_name # gns
    OBVIOUS
  <2>1. o[i] \in K /\ cfgs[i] = CfgAt(o[i])
    BY <1>1
  <2>2. PICK k \in K : k = o[i]
    BY <2>1
  <2>3. /\ k[1] = s /\ k[2] \in 1 .. Len(sessions[s].cfgs)
        /\ CfgAt(k) = sessions[s].cfgs[k[2]]
        /\ ip = NoName \/ CfgAt(k).ip_port # ip
        /\ gns = NoName \/ CfgAt(k).gns_name # gns
    BY <1>3, <2>2
  <2>4. cfgs[i] = CfgAt(k) /\ P(i) = k[2] /\ o[i][1] = k[1]
    BY <2>1, <2>2
  <2> HIDE DEF P
  <2>5. QED BY <2>3, <2>4
<1>7. \A i, j \in 1 .. n : i # j => P(i) # P(j)
  <2> SUFFICES ASSUME NEW i \in 1 .. n, NEW j \in 1 .. n, i < j
               PROVE  P(i) # P(j)
    BY <1>4
  <2>1. Before(o[i], o[j])
    BY <1>2
  <2>2. o[i][1] = s /\ o[j][1] = s /\ P(i) \in Int /\ P(j) \in Int
    BY <1>4, <1>6
  <2>3. P(i) < P(j)
    BY <1>4, <2>1, <2>2 DEF Before
  <2>4. QED BY <2>2, <2>3
<1> HIDE DEF P
<1> SUFFICES ASSUME NEW i \in 1 .. n + 1, NEW j \in 1 .. n + 1, i # j
             PROVE  /\ cfgs[i].gns_name = cfgs[j].gns_name => cfgs[i].gns_name = NoName
                    /\ cfgs[i].ip_port = cfgs[j].ip_port => cfgs[i].ip_port = NoName
  BY <1>1 DEF Distinct, cfgs
<1>9. CASE i \in 1 .. n /\ j \in 1 .. n
  <2>1. /\ P(i) \in 1 .. Len(sessions[s].cfgs) /\ P(j) \in 1 .. Len(sessions[s].cfgs)
        /\ P(i) # P(j)
        /\ cfgs[i] = sessions[s].cfgs[P(i)] /\ cfgs[j] = sessions[s].cfgs[P(j)]
    BY <1>6, <1>7, <1>9
  <2>2. QED BY <2>1 DEF Distinct
<1>10. CASE i = n + 1 /\ j \in 1 .. n
  BY <1>5, <1>6, <1>10
<1>11. CASE j = n + 1 /\ i \in 1 .. n
  BY <1>5, <1>6, <1>11
<1>12. QED BY <1>4, <1>9, <1>10, <1>11

AllDistinct == \A s \in DOMAIN sessions : Distinct(sessions[s].cfgs)

LEMMA DistinctNext == IInv /\ AllDistinct /\ [Next]_vars => AllDistinct'
<1> SUFFICES ASSUME IInv, AllDistinct, [Next]_vars PROVE AllDistinct'
  OBVIOUS
<1> USE DEF AllDistinct
<1>1. CASE UNCHANGED sessions
  BY <1>1
<1>2. ASSUME NEW cause, Die(cause) PROVE AllDistinct'
  BY <1>2 DEF Die, NoEntries
<1>3. ASSUME NEW s \in DOMAIN sessions, NEW r,
             sessions' = [sessions EXCEPT ![s] = r], Distinct(r.cfgs)
      PROVE  AllDistinct'
  <2>1. DOMAIN sessions' = DOMAIN sessions
    BY <1>3
  <2>2. \A q \in DOMAIN sessions :
          sessions'[q] = IF q = s THEN r ELSE sessions[q]
    BY <1>3
  <2>3. QED BY <1>3, <2>1, <2>2
<1>4. ASSUME NEW fd \in Fd, NEW s \in issued, NEW gns \in Gns, NEW ip \in IpPort,
             NEW t \in Text, SaveLog(fd, s, gns, ip, t)
      PROVE  AllDistinct'
  <2>1. CASE s \in DOMAIN sessions
    <3> DEFINE st == Stored(sessions[s].cfgs, gns, ip, t)
               r == WithLog(s, gns, ip, t)
    <3>1. sessions' = [sessions EXCEPT ![s] = r]
      BY <1>4, <2>1 DEF SaveLog
    <3>2. Distinct(st)
      BY <2>1, SoundSession, StoredOK, SameSelectors DEF IInv
    <3>3. r.cfgs = st
      BY <2>1, SoundSession DEF IInv, WithLog
    <3>4. QED BY <1>3, <2>1, <3>1, <3>2, <3>3
  <2>2. CASE s \notin DOMAIN sessions
    BY <1>1, <1>4, <2>2 DEF SaveLog
  <2>3. QED BY <2>1, <2>2
<1>5. ASSUME NEW fd \in Fd, NEW tag \in Tag, NEW ok \in BOOLEAN,
             LoginLogic(fd, tag, ok)
      PROVE  AllDistinct'
  <2>1. CASE ok
    <3>1. PICK s \in Session \ issued :
            sessions' = [r \in DOMAIN sessions \cup {s} |->
                          IF r = s THEN [cfgs |-> << >>, age |-> 0] ELSE sessions[r]]
      BY <1>5, <2>1 DEF LoginLogic
    <3>2. Distinct(<< >>)
      BY DEF Distinct
    <3>3. \A r \in DOMAIN sessions' :
            \/ sessions'[r].cfgs = << >>
            \/ r \in DOMAIN sessions /\ sessions'[r] = sessions[r]
      BY <3>1
    <3>4. QED BY <3>2, <3>3
  <2>2. CASE ~ok
    BY <1>1, <1>5, <2>2 DEF LoginLogic
  <2>3. QED BY <2>1, <2>2
<1>6. ASSUME NEW fd \in Fd, NEW tag \in Tag, NEW s \in issued, GetLog(fd, tag, s)
      PROVE  AllDistinct'
  <2>1. CASE s \in DOMAIN sessions /\ sessions[s].cfgs # << >>
    <3> DEFINE rest == Remaining(sessions[s].cfgs)
               r == [cfgs |-> rest, age |-> 0]
    <3>1. sessions' = [sessions EXCEPT ![s] = r]
      BY <1>6, <2>1 DEF GetLog
    <3>2. Distinct(rest)
      BY <2>1, SoundSession, RemainingOK, SameSelectors DEF IInv
    <3>3. r.cfgs = rest
      OBVIOUS
    <3>4. QED BY <1>3, <2>1, <3>1, <3>2, <3>3
  <2>2. CASE ~(s \in DOMAIN sessions /\ sessions[s].cfgs # << >>)
    BY <1>1, <1>2, <1>6, <2>2 DEF GetLog
  <2>3. QED BY <2>1, <2>2
<1>7. ASSUME NEW fd \in Fd, NEW tag \in Tag, NEW s \in issued,
             NEW gns \in Gns \cup {NoName}, NEW ip \in IpPort \cup {NoName},
             NEW p \in Param, SetConfig(fd, tag, s, gns, ip, p)
      PROVE  AllDistinct'
  <2>1. CASE s \in DOMAIN sessions
    <3> DEFINE cfgs == NewCfgs(s, gns, ip, p)
               r == [cfgs |-> cfgs, age |-> 0]
    <3>1. sessions' = [sessions EXCEPT ![s] = r]
      BY <1>7, <2>1 DEF SetConfig
    <3>2. Distinct(cfgs)
      BY <2>1, NewCfgsDistinct DEF IInv
    <3>3. r.cfgs = cfgs
      OBVIOUS
    <3>4. QED BY <1>3, <2>1, <3>1, <3>2, <3>3
  <2>2. CASE s \notin DOMAIN sessions
    BY <1>1, <1>7, <2>2 DEF SetConfig
  <2>3. QED BY <2>1, <2>2
<1>8. CASE CheckSessionExpireTime
  BY <1>8 DEF CheckSessionExpireTime, Unexpired
<1>9. CASE Tick
  BY <1>9, SoundSession DEF Tick, IInv
<1>10. CASE ConnStep \/ \E fd \in Fd : SendBackHeartBeat(fd)
  BY <1>1, <1>10
     DEF ConnStep, AllocateConnection, ReleaseConnection, SendBackHeartBeat
<1>11. ASSUME NEW idle \in SUBSET Fd, CheckFDExpireTime(idle) PROVE AllDistinct'
  BY <1>1, <1>2, <1>11 DEF CheckFDExpireTime
<1>12. ASSUME NEW fd \in Fd, NEW gns \in Gns, NEW ip \in IpPort,
              UpdateClientInfo(fd, gns, ip)
       PROVE  AllDistinct'
  BY <1>1, <1>12 DEF UpdateClientInfo
<1>13. CASE Kill \/ Restart \/ UNCHANGED vars
  BY <1>1, <1>2, <1>13 DEF Kill, Restart, vars
<1>14. QED
  BY <1>4, <1>5, <1>6, <1>7, <1>8, <1>9, <1>10, <1>11, <1>12, <1>13
     DEF Next, ClientMsg, CgiMsg, TimerStep

\* However a session is reconfigured, each service name and each address
\* selects at most one of its configurations.
THEOREM SelectorsAreDistinct == Spec => []SelectorsDistinct
<1>1. Init => AllDistinct
  BY DEF Init, AllDistinct, NoEntries
<1>2. AllDistinct => SelectorsDistinct
  BY DEF AllDistinct, Distinct, SelectorsDistinct
<1>3. QED BY <1>1, <1>2, DistinctNext, Invariance, PTL DEF Spec

----------------------------------------------------------------------------
(* Ages *)

LEMMA AgesNext == IInv /\ SessionAgeBound /\ [Next]_vars => SessionAgeBound'
<1> SUFFICES ASSUME IInv, SessionAgeBound, [Next]_vars PROVE SessionAgeBound'
  OBVIOUS
<1> USE DEF SessionAgeBound
<1>1. /\ untilCheck \in Nat /\ untilCheck <= CheckInterval
      /\ SessionExpire \in Nat /\ CheckInterval \in Nat
  BY ServerAssumption DEF IInv, OtherTypes
<1>2. ASSUME untilCheck' = untilCheck,
             \A s \in DOMAIN sessions' :
               \/ s \in DOMAIN sessions /\ sessions'[s].age = sessions[s].age
               \/ sessions'[s].age = 0
      PROVE  SessionAgeBound'
  BY <1>1, <1>2
<1>3. ASSUME NEW cause, Die(cause) PROVE SessionAgeBound'
  BY <1>3 DEF Die, NoEntries
<1>4. ASSUME UNCHANGED <<sessions, untilCheck>> PROVE SessionAgeBound'
  BY <1>4
<1>5. ASSUME NEW fd \in Fd, NEW s \in issued, NEW gns \in Gns, NEW ip \in IpPort,
             NEW t \in Text, SaveLog(fd, s, gns, ip, t)
      PROVE  SessionAgeBound'
  <2>1. CASE s \in DOMAIN sessions
    <3> DEFINE r == WithLog(s, gns, ip, t)
    <3>1. sessions' = [sessions EXCEPT ![s] = r] /\ untilCheck' = untilCheck
      BY <1>5, <2>1 DEF SaveLog
    <3>2. r.age = sessions[s].age
      BY <2>1, SoundSession DEF IInv, WithLog
    <3> HIDE DEF r
    <3>3. QED BY <1>2, <2>1, <3>1, <3>2
  <2>2. CASE s \notin DOMAIN sessions
    BY <1>4, <1>5, <2>2 DEF SaveLog
  <2>3. QED BY <2>1, <2>2
<1>6. ASSUME NEW fd \in Fd, NEW tag \in Tag, NEW ok \in BOOLEAN,
             LoginLogic(fd, tag, ok)
      PROVE  SessionAgeBound'
  <2>1. CASE ok
    <3>1. PICK s \in Session \ issued :
            sessions' = [r \in DOMAIN sessions \cup {s} |->
                          IF r = s THEN [cfgs |-> << >>, age |-> 0] ELSE sessions[r]]
      BY <1>6, <2>1 DEF LoginLogic
    <3>2. untilCheck' = untilCheck
      BY <1>6 DEF LoginLogic
    <3>3. QED BY <1>2, <3>1, <3>2
  <2>2. CASE ~ok
    BY <1>4, <1>6, <2>2 DEF LoginLogic
  <2>3. QED BY <2>1, <2>2
<1>7. ASSUME NEW fd \in Fd, NEW tag \in Tag, NEW s \in issued, GetLog(fd, tag, s)
      PROVE  SessionAgeBound'
  <2>1. CASE s \in DOMAIN sessions /\ sessions[s].cfgs # << >>
    <3> DEFINE r == [cfgs |-> Remaining(sessions[s].cfgs), age |-> 0]
    <3>1. sessions' = [sessions EXCEPT ![s] = r] /\ untilCheck' = untilCheck
      BY <1>7, <2>1 DEF GetLog
    <3>2. r.age = 0
      OBVIOUS
    <3> HIDE DEF r
    <3>3. QED BY <1>2, <2>1, <3>1, <3>2
  <2>2. CASE ~(s \in DOMAIN sessions /\ sessions[s].cfgs # << >>)
    BY <1>3, <1>4, <1>7, <2>2 DEF GetLog
  <2>3. QED BY <2>1, <2>2
<1>8. ASSUME NEW fd \in Fd, NEW tag \in Tag, NEW s \in issued,
             NEW gns \in Gns \cup {NoName}, NEW ip \in IpPort \cup {NoName},
             NEW p \in Param, SetConfig(fd, tag, s, gns, ip, p)
      PROVE  SessionAgeBound'
  <2>1. CASE s \in DOMAIN sessions
    <3> DEFINE r == [cfgs |-> NewCfgs(s, gns, ip, p), age |-> 0]
    <3>1. sessions' = [sessions EXCEPT ![s] = r] /\ untilCheck' = untilCheck
      BY <1>8, <2>1 DEF SetConfig
    <3>2. r.age = 0
      OBVIOUS
    <3> HIDE DEF r
    <3>3. QED BY <1>2, <2>1, <3>1, <3>2
  <2>2. CASE s \notin DOMAIN sessions
    BY <1>4, <1>8, <2>2 DEF SetConfig
  <2>3. QED BY <2>1, <2>2
<1>9. CASE CheckSessionExpireTime
  <2>1. \A s \in DOMAIN sessions' :
          s \in DOMAIN sessions \ Expired /\ sessions'[s] = sessions[s]
    BY <1>9 DEF CheckSessionExpireTime, Unexpired
  <2>2. \A s \in DOMAIN sessions \ Expired : sessions[s].age <= SessionExpire
    BY <1>1, SoundSession DEF Expired, IInv
  <2>3. untilCheck' = CheckInterval
    BY <1>9 DEF CheckSessionExpireTime
  <2>4. QED BY <1>1, <2>1, <2>2, <2>3
<1>10. CASE Tick
  <2>1. untilCheck' = untilCheck - 1 /\ DOMAIN sessions' = DOMAIN sessions
    BY <1>10 DEF Tick
  <2>2. ASSUME NEW s \in DOMAIN sessions
        PROVE  sessions[s].age \in Nat /\ sessions'[s].age = sessions[s].age + 1
    <3>1. sessions[s] \in [cfgs : Seq(SoundCFG), age : Nat]
      BY SoundSession DEF IInv
    <3>2. sessions'[s] = [sessions[s] EXCEPT !.age = @ + 1]
      BY <1>10 DEF Tick
    <3>3. QED BY <3>1, <3>2
  <2>3. QED BY <1>1, <2>1, <2>2
<1>11. CASE ConnStep \/ \E fd \in Fd : SendBackHeartBeat(fd)
  BY <1>4, <1>11
     DEF ConnStep, AllocateConnection, ReleaseConnection, SendBackHeartBeat
<1>12. ASSUME NEW idle \in SUBSET Fd, CheckFDExpireTime(idle) PROVE SessionAgeBound'
  BY <1>3, <1>4, <1>12 DEF CheckFDExpireTime
<1>13. ASSUME NEW fd \in Fd, NEW gns \in Gns, NEW ip \in IpPort,
              UpdateClientInfo(fd, gns, ip)
       PROVE  SessionAgeBound'
  BY <1>4, <1>13 DEF UpdateClientInfo
<1>14. CASE Kill \/ Restart \/ UNCHANGED vars
  BY <1>3, <1>4, <1>14 DEF Kill, Restart, vars
<1>15. QED
  BY <1>5, <1>6, <1>7, <1>8, <1>9, <1>10, <1>11, <1>12, <1>13, <1>14
     DEF Next, ClientMsg, CgiMsg, TimerStep

\* For every expiry time and check interval, an unused session is gone one
\* check after its expiry.
THEOREM SessionAgesBounded == Spec => []SessionAgeBound
<1>1. Init => SessionAgeBound
  BY DEF Init, SessionAgeBound, NoEntries
<1>2. QED BY <1>1, AgesNext, Invariance, PTL DEF Spec

----------------------------------------------------------------------------
(***************************************************************************)
(* What the server tells its clients is true, and whom it tells.  Both     *)
(* invariants rest on what InOrder walks: a message is composed for a      *)
(* position of a set, so that whatever holds of the set's elements holds   *)
(* of the message, and a descriptor nothing is composed for gets nothing.  *)
(***************************************************************************)

\* With the sessions of `live' alive, the messages of q are true.
Truthful(q, live) ==
  \A i \in 1 .. Len(q) :
    /\ q[i].id = "CFG_INFO_REQ" => q[i].session \in live
    /\ q[i].id = "CLEAR_SESSION_REQ" => q[i].session \notin live

\* A message of no other kind says nothing about a session.
LEMMA OneMessage ==
  ASSUME NEW fd \in Fd, NEW m, NEW live,
         m.id = "CFG_INFO_REQ" => m.session \in live,
         m.id = "CLEAR_SESSION_REQ" => m.session \notin live
  PROVE  \A e \in Fd : /\ Truthful(To(fd, m)[e], live)
                       /\ To(fd, m)[e] # << >> => e = fd
<1>1. Truthful(<<m>>, live) /\ Truthful(<< >>, live)
  BY DEF Truthful
<1>2. \A e \in Fd : To(fd, m)[e] = IF e = fd THEN <<m>> ELSE << >>
  BY DEF To, Nothing
<1>3. QED BY <1>1, <1>2

LEMMA NoMessage == ASSUME NEW live PROVE \A e \in Fd : Truthful(Nothing[e], live)
BY DEF Nothing, Truthful

LEMMA TwoTruths ==
  ASSUME NEW a \in Seq(Msg), NEW b \in Seq(Msg), NEW live,
         Truthful(a, live), Truthful(b, live)
  PROVE  Truthful(a \o b, live)
<1> DEFINE c == a \o b
<1>1. /\ Len(a) \in Nat /\ Len(b) \in Nat /\ Len(c) = Len(a) + Len(b)
      /\ \A i \in 1 .. Len(a) + Len(b) :
           c[i] = IF i <= Len(a) THEN a[i] ELSE b[i - Len(a)]
  OBVIOUS
<1> SUFFICES ASSUME NEW i \in 1 .. Len(c)
             PROVE  /\ c[i].id = "CFG_INFO_REQ" => c[i].session \in live
                    /\ c[i].id = "CLEAR_SESSION_REQ" => c[i].session \notin live
  BY DEF Truthful
<1> HIDE DEF c
<1>2. CASE i <= Len(a)
  <2>1. c[i] = a[i] /\ i \in 1 .. Len(a)
    BY <1>1, <1>2
  <2>2. QED BY <2>1 DEF Truthful
<1>3. CASE ~(i <= Len(a))
  <2>1. c[i] = b[i - Len(a)] /\ i - Len(a) \in 1 .. Len(b)
    BY <1>1, <1>3
  <2>2. QED BY <2>1 DEF Truthful
<1>4. QED BY <1>2, <1>3

LEMMA SendsTruth ==
  ASSUME NEW out, SendMsg(out), \A fd \in Fd : Truthful(out[fd], DOMAIN sessions')
  PROVE  MessagesMatchSessions'
<1>1. \A fd \in Fd : Truthful(sent'[fd], DOMAIN sessions')
  BY DEF SendMsg, Truthful
<1>2. QED BY <1>1 DEF Truthful, MessagesMatchSessions

LEMMA NothingSent ==
  ASSUME sent' = Nothing
  PROVE  MessagesMatchSessions'
BY DEF MessagesMatchSessions, Nothing

----------------------------------------------------------------------------
(* What the walks of the handlers compose *)

\* The configurations replayed to a client are those of live sessions.
LEMMA ReplayTrue ==
  ASSUME NEW gns
  PROVE  LET o == InOrder({k \in Positions(DOMAIN sessions) : CfgAt(k).gns_name = gns})
         IN  Truthful([i \in DOMAIN o |-> CfgInfoReq(o[i][1], CfgAt(o[i]).p)],
                      DOMAIN sessions)
<1> DEFINE S == {k \in Positions(DOMAIN sessions) : CfgAt(k).gns_name = gns}
           o == InOrder(S)
           m == [i \in DOMAIN o |-> CfgInfoReq(o[i][1], CfgAt(o[i]).p)]
<1>1. \A k \in S : k[1] \in DOMAIN sessions
  BY PositionsOK
<1>2. /\ DOMAIN o = 1 .. Len(o) /\ Len(o) \in Nat
      /\ \A i \in 1 .. Len(o) : o[i] \in S
  BY InOrderOK
<1> HIDE DEF S, o
<1>3. Len(m) = Len(o) /\ \A i \in 1 .. Len(o) : m[i].id = "CFG_INFO_REQ"
                                              /\ m[i].session \in DOMAIN sessions
  BY <1>1, <1>2 DEF CfgInfoReq
<1>4. Truthful(m, DOMAIN sessions)
  BY <1>2, <1>3 DEF Truthful
<1>5. QED BY <1>4 DEF S, o

\* A configuration goes to listed clients, and names its own session.
LEMMA CfgInfoTrue ==
  ASSUME NEW s, NEW cfgs, NEW gns, NEW ip, NEW live, s \in live, NEW fd \in Fd
  PROVE  /\ Truthful(SendCfgInfo2Clients(s, cfgs, gns, ip)[fd], live)
         /\ SendCfgInfo2Clients(s, cfgs, gns, ip)[fd] # << >> => fd \in DOMAIN cliInfo
<1> DEFINE S == {k \in {s} \X (1 .. Len(cfgs)) :
                   IF ip # NoName
                   THEN cfgs[k[2]].ip_port = ip /\ fd \in GetFdByIPPort(ip) /\ fd > 0
                   ELSE cfgs[k[2]].gns_name = gns /\ fd \in GetFdByGns(gns)}
           o == InOrder(S)
           m == [i \in DOMAIN o |-> CfgInfoReq(s, cfgs[o[i][2]].p)]
<1>1. SendCfgInfo2Clients(s, cfgs, gns, ip)[fd] = m
  BY DEF SendCfgInfo2Clients
<1>2. \A k \in S : fd \in DOMAIN cliInfo
  BY DEF GetFdByIPPort, GetFdByGns
<1>3. /\ DOMAIN o = 1 .. Len(o) /\ Len(o) \in Nat
      /\ \A i \in 1 .. Len(o) : o[i] \in S
  BY InOrderOK
<1> HIDE DEF S, o
<1>4. Len(m) = Len(o) /\ \A i \in 1 .. Len(o) : m[i].id = "CFG_INFO_REQ"
                                              /\ m[i].session = s
  BY <1>3 DEF CfgInfoReq
<1>5. Truthful(m, live)
  BY <1>3, <1>4 DEF Truthful
<1>6. m # << >> => fd \in DOMAIN cliInfo
  <2>1. m # << >> => 1 \in 1 .. Len(o)
    BY <1>3
  <2>2. QED BY <1>2, <1>3, <2>1
<1>7. QED BY <1>1, <1>5, <1>6

\* Clears go to listed clients, and name sessions that are being dropped.
LEMMA ClearTrue ==
  ASSUME NEW fd \in Fd
  PROVE  LET o == InOrder({k \in Positions(Expired) : fd \in Informed(CfgAt(k))})
             m == [i \in DOMAIN o |-> ClearSessionReq(o[i][1])]
         IN  /\ Truthful(m, DOMAIN sessions \ Expired)
             /\ m # << >> => fd \in DOMAIN cliInfo
<1> DEFINE S == {k \in Positions(Expired) : fd \in Informed(CfgAt(k))}
           o == InOrder(S)
           m == [i \in DOMAIN o |-> ClearSessionReq(o[i][1])]
<1>1. \A k \in S : k[1] \in Expired /\ fd \in DOMAIN cliInfo
  BY PositionsOK DEF Informed, GetFdByIPPort, GetFdByGns
<1>2. /\ DOMAIN o = 1 .. Len(o) /\ Len(o) \in Nat
      /\ \A i \in 1 .. Len(o) : o[i] \in S
  BY InOrderOK
<1> HIDE DEF S, o
<1>3. Len(m) = Len(o) /\ \A i \in 1 .. Len(o) : m[i].id = "CLEAR_SESSION_REQ"
                                              /\ m[i].session \in Expired
  BY <1>1, <1>2 DEF ClearSessionReq
<1>4. Truthful(m, DOMAIN sessions \ Expired)
  BY <1>2, <1>3 DEF Truthful
<1>5. m # << >> => fd \in DOMAIN cliInfo
  <2>1. m # << >> => 1 \in 1 .. Len(o)
    BY <1>2
  <2>2. QED BY <1>1, <1>2, <2>1
<1>6. QED BY <1>4, <1>5 DEF S, o

----------------------------------------------------------------------------
(* MessagesMatchSessions *)

LEMMA MessagesNext ==
  IInv /\ MessagesMatchSessions /\ [Next]_vars => MessagesMatchSessions'
<1> SUFFICES ASSUME IInv, MessagesMatchSessions, [Next]_vars
             PROVE  MessagesMatchSessions'
  OBVIOUS
<1>1. ASSUME NEW fd \in Fd, NEW m, SendMsg(To(fd, m)),
             m.id = "CFG_INFO_REQ" => m.session \in DOMAIN sessions',
             m.id = "CLEAR_SESSION_REQ" => m.session \notin DOMAIN sessions'
      PROVE  MessagesMatchSessions'
  BY <1>1, OneMessage, SendsTruth
<1>2. ASSUME NEW fd \in Fd, NEW gns \in Gns, NEW ip \in IpPort,
             UpdateClientInfo(fd, gns, ip)
      PROVE  MessagesMatchSessions'
  <2> DEFINE o == InOrder({k \in Positions(DOMAIN sessions) : CfgAt(k).gns_name = gns})
             m == [i \in DOMAIN o |-> CfgInfoReq(o[i][1], CfgAt(o[i]).p)]
             out == [Nothing EXCEPT ![fd] = m]
  <2>1. SendMsg(out) /\ sessions' = sessions
    BY <1>2 DEF UpdateClientInfo
  <2>2. Truthful(m, DOMAIN sessions)
    BY ReplayTrue
  <2> HIDE DEF m
  <2>3. \A e \in Fd : out[e] = IF e = fd THEN m ELSE Nothing[e]
    BY DEF Nothing
  <2>4. \A e \in Fd : Truthful(out[e], DOMAIN sessions')
    BY <2>1, <2>2, <2>3, NoMessage
  <2> HIDE DEF out
  <2>5. QED BY <2>1, <2>4, SendsTruth
<1>3. ASSUME NEW fd \in Fd, NEW s \in issued, NEW gns \in Gns, NEW ip \in IpPort,
             NEW t \in Text, SaveLog(fd, s, gns, ip, t)
      PROVE  MessagesMatchSessions'
  <2>1. CASE s \in DOMAIN sessions
    BY <1>3, <2>1, NoMessage, SendsTruth DEF SaveLog
  <2>2. CASE s \notin DOMAIN sessions
    <3> DEFINE m == ClearSessionReq(s)
    <3>1. SendMsg(To(fd, m)) /\ sessions' = sessions
      BY <1>3, <2>2 DEF SaveLog
    <3>2. m.id = "CLEAR_SESSION_REQ" /\ m.session = s
      BY DEF ClearSessionReq
    <3> HIDE DEF m
    <3>3. QED BY <1>1, <2>2, <3>1, <3>2
  <2>3. QED BY <2>1, <2>2
<1>4. ASSUME NEW fd \in Fd, SendBackHeartBeat(fd) PROVE MessagesMatchSessions'
  <2>1. SendMsg(To(fd, HeartBeat)) /\ HeartBeat.id = "HEARTBEAT_MSG"
    BY <1>4 DEF SendBackHeartBeat, HeartBeat
  <2>2. QED BY <1>1, <2>1
<1>5. ASSUME NEW fd \in Fd, NEW tag \in Tag, NEW ok \in BOOLEAN,
             LoginLogic(fd, tag, ok)
      PROVE  MessagesMatchSessions'
  <2>1. PICK ids : SendMsg(To(fd, LoginResp(tag, ids)))
    BY <1>5 DEF LoginLogic
  <2>2. LoginResp(tag, ids).id = "LOGIN_RESP"
    BY DEF LoginResp
  <2>3. QED BY <1>1, <2>1, <2>2
<1>6. ASSUME NEW cause, Die(cause) PROVE MessagesMatchSessions'
  BY <1>6, NothingSent DEF Die
<1>7. ASSUME NEW fd \in Fd, NEW tag \in Tag, NEW s \in issued, GetLog(fd, tag, s)
      PROVE  MessagesMatchSessions'
  <2>1. CASE s \in DOMAIN sessions /\ sessions[s].cfgs = << >>
    BY <1>6, <1>7, <2>1 DEF GetLog
  <2>2. CASE ~(s \in DOMAIN sessions /\ sessions[s].cfgs = << >>)
    <3>1. PICK ok, logs : SendMsg(To(fd, GetLogResp(tag, ok, logs)))
      BY <1>7, <2>2 DEF GetLog
    <3>2. GetLogResp(tag, ok, logs).id = "GET_LOG_RESP"
      BY DEF GetLogResp
    <3>3. QED BY <1>1, <3>1, <3>2
  <2>3. QED BY <2>1, <2>2
<1>8. ASSUME NEW fd \in Fd, NEW tag \in Tag, NEW s \in issued,
             NEW gns \in Gns \cup {NoName}, NEW ip \in IpPort \cup {NoName},
             NEW p \in Param, SetConfig(fd, tag, s, gns, ip, p)
      PROVE  MessagesMatchSessions'
  <2>1. ASSUME NEW ok \in BOOLEAN
        PROVE  SetConfResp(tag, ok) \in Msg /\ SetConfResp(tag, ok).id = "SET_CONF_RESP"
    BY DEF SetConfResp, Msg
  <2>2. CASE s \in DOMAIN sessions
    <3> DEFINE cfgs == NewCfgs(s, gns, ip, p)
               a == SendCfgInfo2Clients(s, cfgs, gns, ip)
               m == SetConfResp(tag, TRUE)
               b == To(fd, m)
    <3>1. SendMsg(Both(a, b)) /\ DOMAIN sessions' = DOMAIN sessions
      BY <1>8, <2>2 DEF SetConfig
    <3>2. cfgs \in Seq(SoundCFG) /\ s \in Session
      BY <2>2, NewCfgsOK, SoundSession DEF IInv
    <3> HIDE DEF cfgs
    <3>3. a \in Out /\ \A e \in Fd : Truthful(a[e], DOMAIN sessions)
      BY <2>2, <3>2, CfgInfoOK, CfgInfoTrue
    <3>4. m \in Msg /\ m.id = "SET_CONF_RESP"
      BY <2>1
    <3> HIDE DEF a, m
    <3>5. b \in Out /\ \A e \in Fd : Truthful(b[e], DOMAIN sessions)
      BY <3>4, ToOK, OneMessage
    <3> HIDE DEF b
    <3>6. \A e \in Fd : Truthful(Both(a, b)[e], DOMAIN sessions)
      BY <3>3, <3>5, TwoTruths DEF Both, Out
    <3>7. QED BY <3>1, <3>6, SendsTruth
  <2>3. CASE s \notin DOMAIN sessions
    <3>1. SendMsg(To(fd, SetConfResp(tag, FALSE)))
      BY <1>8, <2>3 DEF SetConfig
    <3>2. QED BY <1>1, <2>1, <3>1
  <2>4. QED BY <2>2, <2>3
<1>9. CASE CheckSessionExpireTime
  <2> DEFINE m(fd) == LET o == InOrder({k \in Positions(Expired) : fd \in Informed(CfgAt(k))})
                      IN  [i \in DOMAIN o |-> ClearSessionReq(o[i][1])]
             out == [fd \in Fd |-> m(fd)]
  <2>1. SendMsg(out) /\ DOMAIN sessions' = DOMAIN sessions \ Expired
    BY <1>9 DEF CheckSessionExpireTime, Unexpired
  <2>2. \A fd \in Fd : Truthful(m(fd), DOMAIN sessions \ Expired)
    BY ClearTrue
  <2> HIDE DEF m
  <2>3. \A fd \in Fd : Truthful(out[fd], DOMAIN sessions')
    BY <2>1, <2>2
  <2> HIDE DEF out
  <2>4. QED BY <2>1, <2>3, SendsTruth
<1>10. CASE ConnStep \/ Tick \/ Restart
  BY <1>10, NothingSent DEF ConnStep, AllocateConnection, ReleaseConnection, Tick, Restart
<1>11. ASSUME NEW idle \in SUBSET Fd, CheckFDExpireTime(idle) PROVE MessagesMatchSessions'
  BY <1>6, <1>11, NothingSent DEF CheckFDExpireTime
<1>12. CASE Kill
  BY <1>6, <1>12 DEF Kill
<1>13. CASE UNCHANGED vars
  BY <1>13 DEF vars, MessagesMatchSessions
<1>14. QED
  BY <1>2, <1>3, <1>4, <1>5, <1>7, <1>8, <1>9, <1>10, <1>11, <1>12, <1>13
     DEF Next, ClientMsg, CgiMsg, TimerStep

\* Whatever the server tells a client of a session is so when it is told: a
\* filter is of a live session, and a session it clears is gone.
THEOREM MessagesAreTrue == Spec => []MessagesMatchSessions
<1>1. Init => MessagesMatchSessions
  BY DEF Init, MessagesMatchSessions, Nothing
<1>2. QED BY <1>1, MessagesNext, Invariance, PTL DEF Spec

----------------------------------------------------------------------------
(* NullIsListed *)

\* A message for nobody but listed clients and open connections makes no
\* entry NULL for a descriptor that is not listed.
LEMMA SendsToListed ==
  ASSUME NullIsListed, NEW out, SendMsg(out),
         DOMAIN cliInfo \subseteq DOMAIN cliInfo',
         \A fd \in Fd : out[fd] # << >> => conns[fd] = "open" \/ fd \in DOMAIN cliInfo
  PROVE  NullIsListed'
BY DEF NullIsListed, SendMsg

LEMMA AnswersOpen ==
  ASSUME NullIsListed, NEW fd \in Fd, NEW m, conns[fd] = "open",
         SendMsg(To(fd, m)), cliInfo' = cliInfo
  PROVE  NullIsListed'
<1>1. \A e \in Fd : To(fd, m)[e] # << >> => e = fd
  BY DEF To, Nothing
<1>2. QED BY <1>1, SendsToListed

LEMMA NullNext == IInv /\ NullIsListed /\ [Next]_vars => NullIsListed'
<1> SUFFICES ASSUME IInv, NullIsListed, [Next]_vars PROVE NullIsListed'
  OBVIOUS
<1>1. conns \in Tables
  BY DEF IInv, OtherTypes
<1>2. ASSUME NEW fd \in Fd, NEW gns \in Gns, NEW ip \in IpPort,
             UpdateClientInfo(fd, gns, ip)
      PROVE  NullIsListed'
  <2> DEFINE o == InOrder({k \in Positions(DOMAIN sessions) : CfgAt(k).gns_name = gns})
             m == [i \in DOMAIN o |-> CfgInfoReq(o[i][1], CfgAt(o[i]).p)]
             out == [Nothing EXCEPT ![fd] = m]
  <2>1. SendMsg(out) /\ conns[fd] = "open" /\ DOMAIN cliInfo \subseteq DOMAIN cliInfo'
    BY <1>2 DEF UpdateClientInfo
  <2> HIDE DEF m
  <2>2. \A e \in Fd : out[e] # << >> => e = fd
    BY DEF Nothing
  <2> HIDE DEF out
  <2>3. QED BY <2>1, <2>2, SendsToListed
<1>3. ASSUME NEW fd \in Fd, NEW s \in issued, NEW gns \in Gns, NEW ip \in IpPort,
             NEW t \in Text, SaveLog(fd, s, gns, ip, t)
      PROVE  NullIsListed'
  <2>1. \A e \in Fd : Nothing[e] = << >>
    BY DEF Nothing
  <2>2. QED BY <1>3, <2>1, SendsToListed, AnswersOpen DEF SaveLog
<1>4. ASSUME NEW fd \in Fd, SendBackHeartBeat(fd) PROVE NullIsListed'
  BY <1>4, AnswersOpen DEF SendBackHeartBeat
<1>5. ASSUME NEW fd \in Fd, NEW tag \in Tag, NEW ok \in BOOLEAN,
             LoginLogic(fd, tag, ok)
      PROVE  NullIsListed'
  BY <1>5, AnswersOpen DEF LoginLogic
<1>6. ASSUME NEW cause, Die(cause) PROVE NullIsListed'
  BY <1>6 DEF Die, NullIsListed
<1>7. ASSUME NEW fd \in Fd, NEW tag \in Tag, NEW s \in issued, GetLog(fd, tag, s)
      PROVE  NullIsListed'
  BY <1>6, <1>7, AnswersOpen DEF GetLog
<1>8. ASSUME NEW fd \in Fd, NEW tag \in Tag, NEW s \in issued,
             NEW gns \in Gns \cup {NoName}, NEW ip \in IpPort \cup {NoName},
             NEW p \in Param, SetConfig(fd, tag, s, gns, ip, p)
      PROVE  NullIsListed'
  <2>1. CASE s \in DOMAIN sessions
    <3> DEFINE cfgs == NewCfgs(s, gns, ip, p)
               a == SendCfgInfo2Clients(s, cfgs, gns, ip)
               b == To(fd, SetConfResp(tag, TRUE))
    <3>1. SendMsg(Both(a, b)) /\ conns[fd] = "open" /\ cliInfo' = cliInfo
      BY <1>8, <2>1 DEF SetConfig
    <3> HIDE DEF cfgs
    <3>2. \A e \in Fd : a[e] # << >> => e \in DOMAIN cliInfo
      BY <2>1, CfgInfoTrue
    <3>3. \A e \in Fd : b[e] # << >> => e = fd
      BY DEF To, Nothing
    <3> HIDE DEF a, b
    <3>4. \A e \in Fd : Both(a, b)[e] # << >> => a[e] # << >> \/ b[e] # << >>
      BY DEF Both
    <3>5. QED BY <3>1, <3>2, <3>3, <3>4, SendsToListed
  <2>2. CASE s \notin DOMAIN sessions
    BY <1>8, <2>2, AnswersOpen DEF SetConfig
  <2>3. QED BY <2>1, <2>2
<1>9. CASE CheckSessionExpireTime
  <2> DEFINE m(fd) == LET o == InOrder({k \in Positions(Expired) : fd \in Informed(CfgAt(k))})
                      IN  [i \in DOMAIN o |-> ClearSessionReq(o[i][1])]
             out == [fd \in Fd |-> m(fd)]
  <2>1. SendMsg(out) /\ cliInfo' = cliInfo
    BY <1>9 DEF CheckSessionExpireTime
  <2>2. \A fd \in Fd : m(fd) # << >> => fd \in DOMAIN cliInfo
    BY ClearTrue
  <2> HIDE DEF m
  <2>3. \A fd \in Fd : out[fd] # << >> => fd \in DOMAIN cliInfo
    BY <2>2
  <2> HIDE DEF out
  <2>4. QED BY <2>1, <2>3, SendsToListed
<1>10. ASSUME NEW fd \in Fd, AllocateConnection(fd) \/ ReleaseConnection(fd)
       PROVE  NullIsListed'
  BY <1>1, <1>10
     DEF AllocateConnection, ReleaseConnection, Without, NullIsListed, Tables
<1>11. ASSUME NEW idle \in SUBSET Fd, CheckFDExpireTime(idle) PROVE NullIsListed'
  BY <1>6, <1>11 DEF CheckFDExpireTime, NullIsListed
<1>12. CASE Tick \/ Restart \/ UNCHANGED vars
  BY <1>12 DEF Tick, Restart, vars, NullIsListed
<1>13. CASE Kill
  BY <1>6, <1>13 DEF Kill
<1>14. QED
  BY <1>2, <1>3, <1>4, <1>5, <1>7, <1>8, <1>9, <1>10, <1>11, <1>12, <1>13
     DEF Next, ConnStep, ClientMsg, CgiMsg, TimerStep

\* The entry NULL that the descriptor check dies of needs a client that the
\* idle check closed and that is still listed: nothing else makes one.
THEOREM NullEntriesListed == Spec => []NullIsListed
<1>1. Init => NullIsListed
  BY DEF Init, NullIsListed
<1>2. QED BY <1>1, NullNext, Invariance, PTL DEF Spec

----------------------------------------------------------------------------
(* The mailboxes *)

(* What a handler hands out *)

Quiet(q) == \A i \in 1 .. Len(q) : q[i].id # "GET_LOG_RESP"

\* A step whose messages are no answers to a fetch hands out nothing.
LEMMA QuietGivesNothing ==
  ASSUME \A fd \in Fd : Quiet(sent'[fd])
  PROVE  Given' = << >>
<1>1. Answers' = {}
  BY DEF Quiet, Answers
<1>2. QED BY <1>1 DEF Given

LEMMA QuietSends ==
  ASSUME NEW out, SendMsg(out), \A fd \in Fd : Quiet(out[fd])
  PROVE  Given' = << >>
<1>1. \A fd \in Fd : Quiet(sent'[fd])
  BY DEF SendMsg, Quiet
<1>2. QED BY <1>1, QuietGivesNothing

LEMMA NothingGivesNothing ==
  ASSUME sent' = Nothing
  PROVE  Given' = << >>
<1>1. \A fd \in Fd : Quiet(sent'[fd])
  BY DEF Nothing, Quiet
<1>2. QED BY <1>1, QuietGivesNothing

LEMMA QuietTo ==
  ASSUME NEW fd \in Fd, NEW m, m.id # "GET_LOG_RESP"
  PROVE  \A e \in Fd : Quiet(To(fd, m)[e])
<1>1. Quiet(<< >>) /\ Quiet(<<m>>)
  BY DEF Quiet
<1>2. \A e \in Fd : To(fd, m)[e] = IF e = fd THEN <<m>> ELSE << >>
  BY DEF To, Nothing
<1>3. QED BY <1>1, <1>2

LEMMA QuietNothing == \A e \in Fd : Quiet(Nothing[e])
BY DEF Quiet, Nothing

\* Messages made of the positions of a set, in order.
LEMMA QuietWalk ==
  ASSUME NEW S, NEW f, f = [i \in DOMAIN InOrder(S) |-> f[i]],
         \A i \in 1 .. Len(InOrder(S)) : f[i].id # "GET_LOG_RESP"
  PROVE  Quiet(f) /\ f = [i \in 1 .. Len(InOrder(S)) |-> f[i]]
<1> DEFINE o == InOrder(S)
<1>1. Len(o) \in Nat /\ DOMAIN o = 1 .. Len(o)
  BY InOrderOK
<1> HIDE DEF o
<1>2. f = [i \in 1 .. Len(o) |-> f[i]]
  BY <1>1 DEF o
<1>3. Len(f) = Len(o)
  BY <1>1, <1>2
<1>4. QED BY <1>2, <1>3 DEF Quiet, o

LEMMA QuietBoth ==
  ASSUME NEW a \in Out, NEW b \in Out,
         \A fd \in Fd : Quiet(a[fd]) /\ Quiet(b[fd])
  PROVE  \A fd \in Fd : Quiet(Both(a, b)[fd])
<1> SUFFICES ASSUME NEW fd \in Fd PROVE Quiet(Both(a, b)[fd])
  OBVIOUS
<1> DEFINE p == a[fd]
           q == b[fd]
<1>1. p \in Seq(Msg) /\ q \in Seq(Msg) /\ Both(a, b)[fd] = p \o q /\ Quiet(p) /\ Quiet(q)
  BY DEF Out, Both
<1> HIDE DEF p, q
<1>2. /\ Len(p \o q) = Len(p) + Len(q) /\ Len(p) \in Nat /\ Len(q) \in Nat
      /\ \A i \in 1 .. Len(p) + Len(q) :
           (p \o q)[i] = IF i <= Len(p) THEN p[i] ELSE q[i - Len(p)]
  BY <1>1, ConcatProperties
<1>3. Quiet(p \o q)
  <2> SUFFICES ASSUME NEW i \in 1 .. Len(p) + Len(q)
               PROVE  (p \o q)[i].id # "GET_LOG_RESP"
    BY <1>2 DEF Quiet
  <2>1. CASE i <= Len(p)
    BY <1>1, <1>2, <2>1 DEF Quiet
  <2>2. CASE i > Len(p)
    <3>1. i - Len(p) \in 1 .. Len(q) /\ (p \o q)[i] = q[i - Len(p)]
      BY <1>2, <2>2
    <3>2. QED BY <1>1, <3>1 DEF Quiet
  <2>3. QED BY <1>2, <2>1, <2>2
<1>4. QED BY <1>1, <1>3

----------------------------------------------------------------------------
(* The operators of LogMailboxes *)

LEMMA SameFinite == \A S : Mail!IsFiniteSet(S) = IsFiniteSet(S)
BY DEF Mail!IsFiniteSet, IsFiniteSet

LEMMA SameCardinality == \A S : Mail!Cardinality(S) = Cardinality(S)
BY DEF Mail!Cardinality, Cardinality

LEMMA SameOrder ==
  ASSUME NEW S
  PROVE  Mail!InOrder(S) = InOrder(S)
<1>1. \A a, b : Mail!Before(a, b) = Before(a, b)
  BY DEF Mail!Before, Before
<1>2. Mail!Orderings(S) = Orderings(S)
  <2>1. Mail!Cardinality(S) = Cardinality(S)
    BY SameCardinality
  <2>2. QED BY <1>1, <2>1 DEF Mail!Orderings, Orderings
<1>3. Mail!IsFiniteSet(S) = IsFiniteSet(S)
  BY SameFinite
<1>4. QED BY <1>2, <1>3 DEF Mail!InOrder, InOrder

\* A configuration is selected once by its name and once by its address.
LEMMA SelectedIs ==
  ASSUME NEW b, NEW name, NEW addr
  PROVE  Mail!Selected(b, name, addr) =
           IF b.name = name
           THEN IF b.addr = addr THEN 2 ELSE 1
           ELSE IF b.addr = addr THEN 1 ELSE 0
<1> DEFINE S == {x \in {1} : b.name = name} \cup {x \in {2} : b.addr = addr}
<1>1. Mail!Selected(b, name, addr) = Cardinality(S)
  BY SameCardinality DEF Mail!Selected
<1>2. /\ Cardinality({1}) = 1 /\ Cardinality({2}) = 1
      /\ Cardinality({}) = 0 /\ Cardinality({1} \cup {2}) = 2
  <2>1. IsFiniteSet({1}) /\ Cardinality({1}) = 1 /\ Cardinality({2}) = 1
    BY FS_Singleton
  <2>2. Cardinality({1} \cup {2}) = Cardinality({1}) + 1
    BY <2>1, FS_AddElement
  <2>3. QED BY <2>1, <2>2, FS_EmptySet
<1>3. CASE b.name = name /\ b.addr = addr
  <2>1. S = {1} \cup {2}
    BY <1>3
  <2>2. QED BY <1>1, <1>2, <1>3, <2>1
<1>4. CASE b.name = name /\ b.addr # addr
  <2>1. S = {1}
    BY <1>4
  <2>2. QED BY <1>1, <1>2, <1>4, <2>1
<1>5. CASE b.name # name /\ b.addr = addr
  <2>1. S = {2}
    BY <1>5
  <2>2. QED BY <1>1, <1>2, <1>5, <2>1
<1>6. CASE b.name # name /\ b.addr # addr
  <2>1. S = {}
    BY <1>6
  <2>2. QED BY <1>1, <1>2, <1>6, <2>1
<1>7. QED BY <1>3, <1>4, <1>5, <1>6

----------------------------------------------------------------------------
(* Mailboxes *)

LEMMA BoxesOfSeq ==
  ASSUME NEW cfgs, Len(cfgs) \in Nat
  PROVE  /\ Len(BoxesOf(cfgs)) = Len(cfgs)
         /\ \A i \in 1 .. Len(cfgs) : BoxesOf(cfgs)[i] = BoxOf(cfgs[i])
BY DEF BoxesOf

\* One session was replaced: its boxes are, and no others.
LEMMA OneReplaced ==
  ASSUME NEW s \in DOMAIN sessions, NEW r, sessions' = [sessions EXCEPT ![s] = r]
  PROVE  /\ Boxes' = [Boxes EXCEPT ![s] = BoxesOf(r.cfgs)]
         /\ s \in DOMAIN Boxes /\ Boxes[s] = BoxesOf(sessions[s].cfgs)
<1>1. DOMAIN Boxes = DOMAIN sessions /\ Boxes[s] = BoxesOf(sessions[s].cfgs)
  BY DEF Boxes
<1>2. Boxes' = [q \in DOMAIN sessions' |-> BoxesOf(sessions'[q].cfgs)]
  BY DEF Boxes
<1>3. /\ DOMAIN sessions' = DOMAIN sessions
      /\ \A q \in DOMAIN sessions : sessions'[q] = IF q = s THEN r ELSE sessions[q]
  OBVIOUS
<1>4. [Boxes EXCEPT ![s] = BoxesOf(r.cfgs)] =
        [q \in DOMAIN sessions |->
           IF q = s THEN BoxesOf(r.cfgs) ELSE BoxesOf(sessions[q].cfgs)]
  BY DEF Boxes
<1>5. QED BY <1>1, <1>2, <1>3, <1>4

\* Sessions go, and nothing is handed out.
LEMMA SomeForgotten ==
  ASSUME NEW S \in SUBSET DOMAIN sessions,
         sessions' = [s \in DOMAIN sessions \ S |-> sessions[s]],
         Given' = << >>
  PROVE  Mail!Next
<1>1. DOMAIN Boxes = DOMAIN sessions
  BY DEF Boxes
<1>2. Boxes' = [s \in DOMAIN Boxes \ S |-> Boxes[s]]
  BY DEF Boxes
<1>3. Mail!Forget(S)
  BY <1>2 DEF Mail!Forget
<1>4. QED BY <1>1, <1>3 DEF Mail!Next

\* Nothing happens to any box, and nothing is handed out.
LEMMA NoneChanged ==
  ASSUME DOMAIN sessions' = DOMAIN sessions, Given' = << >>,
         \A s \in DOMAIN sessions : sessions'[s].cfgs = sessions[s].cfgs
  PROVE  Mail!Next
<1>1. Boxes' = [s \in DOMAIN Boxes \ {} |-> Boxes[s]]
  BY DEF Boxes
<1>2. Mail!Forget({})
  BY <1>1 DEF Mail!Forget
<1>3. QED BY <1>2 DEF Mail!Next

LEMMA AllForgotten ==
  ASSUME NEW cause, Die(cause)
  PROVE  Mail!Next
<1>1. sessions' = [s \in DOMAIN sessions \ DOMAIN sessions |-> sessions[s]]
  BY DEF Die, NoEntries
<1>2. Given' = << >>
  BY NothingGivesNothing DEF Die
<1>3. QED BY <1>1, <1>2, SomeForgotten

\* A login opens an empty list of mailboxes.
LEMMA LoginOpens ==
  ASSUME IInv, NEW fd \in Fd, NEW tag \in Tag, NEW ok \in BOOLEAN,
         LoginLogic(fd, tag, ok)
  PROVE  Mail!Next
<1>1. \A ids : LoginResp(tag, ids).id # "GET_LOG_RESP"
  BY DEF LoginResp
<1>2. Given' = << >>
  <2>1. PICK ids : SendMsg(To(fd, LoginResp(tag, ids)))
    BY DEF LoginLogic
  <2>2. QED BY <1>1, <2>1, QuietTo, QuietSends
<1>3. CASE ok
  <2>1. PICK s \in Session \ issued :
          sessions' = [r \in DOMAIN sessions \cup {s} |->
                        IF r = s THEN [cfgs |-> << >>, age |-> 0] ELSE sessions[r]]
    BY <1>3 DEF LoginLogic
  <2>2. s \notin DOMAIN Boxes /\ DOMAIN Boxes = DOMAIN sessions
    BY DEF Boxes, IInv, OtherTypes
  <2>3. BoxesOf(<< >>) = << >>
    BY DEF BoxesOf
  <2>4. Boxes' = [r \in DOMAIN Boxes \cup {s} |-> IF r = s THEN << >> ELSE Boxes[r]]
    BY <2>1, <2>2, <2>3 DEF Boxes
  <2>5. Mail!Open(s)
    BY <1>2, <2>2, <2>4 DEF Mail!Open
  <2>6. QED BY <2>5 DEF Mail!Next
<1>4. CASE ~ok
  BY <1>2, <1>4, NoneChanged DEF LoginLogic
<1>5. QED BY <1>3, <1>4

----------------------------------------------------------------------------
(* An upload *)

\* What two storing blocks may append.
LEMMA CopiesAppended ==
  ASSUME NEW u \in Seq(Text), NEW t \in Text
  PROVE  /\ u \o Mail!Copies(t, 0) = u
         /\ u \o Mail!Copies(t, 1) = Append(u, t)
         /\ u \o Mail!Copies(t, 2) = Append(Append(u, t), t)
<1>1. /\ Mail!Copies(t, 0) = << >> /\ Mail!Copies(t, 1) = <<t>>
      /\ Mail!Copies(t, 2) = <<t>> \o <<t>>
  BY DEF Mail!Copies
<1>2. Append(u, t) = u \o <<t>> /\ Append(u, t) \in Seq(Text) /\ <<t>> \in Seq(Text)
  BY AppendIsConcat, AppendProperties
<1>3. Append(Append(u, t), t) = (u \o <<t>>) \o <<t>>
  BY <1>2, AppendIsConcat
<1>4. (u \o <<t>>) \o <<t>> = u \o (<<t>> \o <<t>>)
  BY <1>2, ConcatAssociative
<1>5. u \o << >> = u
  BY ConcatEmptySeq
<1>6. QED BY <1>1, <1>2, <1>3, <1>4, <1>5

\* What a configuration takes of an upload: as many copies as it was selected
\* for, or it breaks the loop and is full.
Takes(u, v, t, wanted) ==
  \E k \in 0 .. 2 : /\ v = u \o Mail!Copies(t, k)
                    /\ k <= wanted
                    /\ k < wanted => Len(v) = MaxPreserveLogs

\* One storing block: it appends, or finds the configuration full.
LEMMA OneBlock ==
  ASSUME NEW w, WindowOK(w), NEW t \in Text
  PROVE  /\ WindowOK(Offer(w, t)) /\ Unread(w) \in Seq(Text)
         /\ Len(Unread(w)) <= MaxPreserveLogs
         /\ Overloaded(w) => /\ Unread(Offer(w, t)) = Unread(w)
                             /\ Len(Unread(w)) = MaxPreserveLogs
         /\ ~Overloaded(w) => Unread(Offer(w, t)) = Append(Unread(w), t)
<1>1. Len(Unread(w)) <= MaxPreserveLogs /\ Len(Unread(w)) \in Nat /\ Unread(w) \in Seq(Text)
  BY WindowFields, UnreadType, MaxPreserveAssumption
<1>2. QED BY <1>1, OfferOK, OverloadedIffUnreadFull, MaxPreserveAssumption

LEMMA BothBlocks ==
  ASSUME NEW c \in SoundCFG, NEW gns, NEW ip, NEW t \in Text
  PROVE  LET u == Unread(c.win)
             v == Unread(AfterBoth(c, gns, ip, t))
             wanted == Mail!Selected(BoxOf(c), gns, ip)
         IN /\ Takes(u, v, t, wanted)
            /\ Len(v) <= MaxPreserveLogs
            /\ Breaks(c, gns, ip, t) => wanted > 0 /\ Len(v) = MaxPreserveLogs
<1> DEFINE w0 == c.win
           w1 == AfterAddr(c, ip, t)
           w2 == AfterBoth(c, gns, ip, t)
           u == Unread(w0)
           v == Unread(w2)
           wanted == Mail!Selected(BoxOf(c), gns, ip)
<1>1. WindowOK(w0)
  BY DEF SoundCFG
<1>2. WindowOK(w1)
  BY <1>1, OneBlock DEF AfterAddr
<1>3. WindowOK(w2) /\ Len(v) <= MaxPreserveLogs
  BY <1>2, OneBlock DEF AfterBoth
<1>4. wanted = IF c.gns_name = gns
               THEN IF c.ip_port = ip THEN 2 ELSE 1
               ELSE IF c.ip_port = ip THEN 1 ELSE 0
  BY SelectedIs DEF BoxOf
<1>5. /\ u \in Seq(Text) /\ u \o Mail!Copies(t, 0) = u
      /\ u \o Mail!Copies(t, 1) = Append(u, t)
      /\ u \o Mail!Copies(t, 2) = Append(Append(u, t), t)
  BY <1>1, OneBlock, CopiesAppended
<1> HIDE DEF wanted
<1>6. CASE c.ip_port = ip /\ Overloaded(w0)
  <2>1. w2 = Offer(w0, t)
    BY <1>6 DEF AfterBoth, AddrBreaks, AfterAddr
  <2>2. v = u /\ Len(v) = MaxPreserveLogs
    BY <1>1, <1>6, <2>1, OneBlock
  <2>3. wanted > 0
    BY <1>4, <1>6
  <2> HIDE DEF u, v
  <2>4. QED BY <1>3, <1>4, <1>5, <2>2, <2>3 DEF Takes, u, v, wanted
<1>7. CASE c.ip_port = ip /\ ~Overloaded(w0)
  <2>1. w1 = Offer(w0, t) /\ Unread(w1) = Append(u, t) /\ ~AddrBreaks(c, ip)
    BY <1>1, <1>7, OneBlock DEF AfterAddr, AddrBreaks
  <2>2. CASE c.gns_name = gns /\ Overloaded(w1)
    <3>1. w2 = Offer(w1, t)
      BY <2>1, <2>2 DEF AfterBoth
    <3>2. v = Append(u, t) /\ Len(v) = MaxPreserveLogs
      BY <1>2, <2>1, <2>2, <3>1, OneBlock
    <3>3. wanted = 2
      BY <1>4, <1>7, <2>2
    <3> HIDE DEF u, v, w2
    <3>4. v = u \o Mail!Copies(t, 1)
      BY <1>5, <3>2
    <3>5. Takes(u, v, t, 2)
      BY <3>2, <3>4 DEF Takes
    <3>6. QED BY <1>3, <3>2, <3>3, <3>5 DEF u, v, w2, wanted
  <2>3. CASE c.gns_name = gns /\ ~Overloaded(w1)
    <3>1. w2 = Offer(w1, t)
      BY <2>1, <2>3 DEF AfterBoth
    <3>2. v = Append(Append(u, t), t)
      BY <1>2, <2>1, <2>3, <3>1, OneBlock
    <3>3. wanted = 2 /\ ~Breaks(c, gns, ip, t)
      BY <1>4, <1>7, <2>1, <2>3 DEF Breaks, NameBreaks
    <3> HIDE DEF u, v, w2
    <3>4. v = u \o Mail!Copies(t, 2)
      BY <1>5, <3>2
    <3>5. Takes(u, v, t, 2)
      BY <3>4 DEF Takes
    <3>6. QED BY <1>3, <3>3, <3>5 DEF u, v, w2, wanted
  <2>4. CASE c.gns_name # gns
    <3>1. w2 = w1
      BY <2>4 DEF AfterBoth
    <3>2. v = Append(u, t)
      BY <2>1, <3>1
    <3>3. wanted = 1 /\ ~Breaks(c, gns, ip, t)
      BY <1>4, <1>7, <2>1, <2>4 DEF Breaks, NameBreaks
    <3> HIDE DEF u, v
    <3>4. QED BY <1>3, <1>5, <3>2, <3>3 DEF Takes, u, v, wanted
  <2>5. QED BY <2>2, <2>3, <2>4
<1>8. CASE c.ip_port # ip
  <2>1. w1 = w0 /\ ~AddrBreaks(c, ip)
    BY <1>8 DEF AfterAddr, AddrBreaks
  <2>2. CASE c.gns_name = gns /\ Overloaded(w0)
    <3>1. w2 = Offer(w0, t)
      BY <2>1, <2>2 DEF AfterBoth
    <3>2. v = u /\ Len(v) = MaxPreserveLogs
      BY <1>1, <2>2, <3>1, OneBlock
    <3>3. wanted = 1
      BY <1>4, <1>8, <2>2
    <3> HIDE DEF u, v
    <3>4. QED BY <1>3, <1>5, <3>2, <3>3 DEF Takes, u, v, wanted
  <2>3. CASE c.gns_name = gns /\ ~Overloaded(w0)
    <3>1. w2 = Offer(w0, t)
      BY <2>1, <2>3 DEF AfterBoth
    <3>2. v = Append(u, t)
      BY <1>1, <2>3, <3>1, OneBlock
    <3>3. wanted = 1 /\ ~Breaks(c, gns, ip, t)
      BY <1>4, <1>8, <2>1, <2>3 DEF Breaks, NameBreaks
    <3> HIDE DEF u, v
    <3>4. QED BY <1>3, <1>5, <3>2, <3>3 DEF Takes, u, v, wanted
  <2>4. CASE c.gns_name # gns
    <3>1. v = u
      BY <2>1, <2>4 DEF AfterBoth
    <3>2. wanted = 0 /\ ~Breaks(c, gns, ip, t)
      BY <1>4, <1>8, <2>1, <2>4 DEF Breaks, NameBreaks
    <3> HIDE DEF u, v
    <3>3. QED BY <1>3, <1>5, <3>1, <3>2 DEF Takes, u, v, wanted
  <2>5. QED BY <2>2, <2>3, <2>4
<1>9. QED BY <1>6, <1>7, <1>8

\* k copies reach the i-th of the configurations: all it was selected for,
\* unless it or an earlier selected one is full in the end.
Passes(cfgs, gns, ip, t, i, k) ==
  LET st == Stored(cfgs, gns, ip, t)
      wanted(j) == Mail!Selected(BoxOf(cfgs[j]), gns, ip)
  IN /\ Unread(st[i].win) = Unread(cfgs[i].win) \o Mail!Copies(t, k)
     /\ k <= wanted(i)
     /\ k < wanted(i) =>
          \E j \in 1 .. i : /\ wanted(j) > 0
                            /\ Len(Unread(st[j].win)) = MaxPreserveLogs

\* The loop over the configurations: each takes its part, until one breaks it.
LEMMA StoredBoxes ==
  ASSUME NEW cfgs \in Seq(SoundCFG), NEW gns, NEW ip, NEW t \in Text,
         NEW i \in 1 .. Len(cfgs)
  PROVE  LET v == Unread(Stored(cfgs, gns, ip, t)[i].win)
         IN /\ Len(v) <= MaxPreserveLogs
            /\ BoxOf(Stored(cfgs, gns, ip, t)[i]) = [BoxOf(cfgs[i]) EXCEPT !.unread = v]
            /\ \E k \in 0 .. 2 : Passes(cfgs, gns, ip, t, i, k)
<1> DEFINE st == Stored(cfgs, gns, ip, t)
           wanted(j) == Mail!Selected(BoxOf(cfgs[j]), gns, ip)
           W(j) == Unread(st[j].win)
           u == Unread(cfgs[i].win)
           B == {j \in 1 .. i - 1 : Breaks(cfgs[j], gns, ip, t)}
<1>1. \A j \in 1 .. Len(cfgs) : cfgs[j] \in SoundCFG /\ cfgs[j] \in CFG
  BY DEF SoundCFG
<1>2. \A j \in 1 .. Len(cfgs) :
        st[j] = IF \E h \in 1 .. j - 1 : Breaks(cfgs[h], gns, ip, t)
                THEN cfgs[j]
                ELSE [cfgs[j] EXCEPT !.win = AfterBoth(cfgs[j], gns, ip, t)]
  BY DEF Stored
<1>3. i \in Nat /\ Len(cfgs) \in Nat /\ 1 <= i /\ i <= Len(cfgs)
  OBVIOUS
<1> HIDE DEF st
\* A configuration that no earlier one kept from the upload.
<1>4. ASSUME NEW j \in 1 .. Len(cfgs),
             \A h \in 1 .. j - 1 : ~Breaks(cfgs[h], gns, ip, t)
      PROVE  /\ W(j) = Unread(AfterBoth(cfgs[j], gns, ip, t))
             /\ BoxOf(st[j]) = [BoxOf(cfgs[j]) EXCEPT !.unread = W(j)]
  <2>1. st[j] = [cfgs[j] EXCEPT !.win = AfterBoth(cfgs[j], gns, ip, t)]
    BY <1>2, <1>4
  <2>2. cfgs[j] \in CFG
    BY <1>1
  <2>3. /\ st[j].win = AfterBoth(cfgs[j], gns, ip, t)
        /\ st[j].gns_name = cfgs[j].gns_name /\ st[j].ip_port = cfgs[j].ip_port
    BY <2>1, <2>2 DEF CFG
  <2>4. QED BY <2>3 DEF BoxOf
<1>5. CASE B = {}
  <2> DEFINE c == cfgs[i]
             v == Unread(AfterBoth(c, gns, ip, t))
  <2>1. W(i) = v /\ BoxOf(st[i]) = [BoxOf(c) EXCEPT !.unread = W(i)]
    BY <1>4, <1>5
  <2>2. c \in SoundCFG
    BY <1>1
  <2>3. Takes(u, v, t, wanted(i)) /\ Len(v) <= MaxPreserveLogs
    BY <2>2, BothBlocks
  <2> HIDE DEF v, c
  <2>4. PICK k \in 0 .. 2 : /\ v = u \o Mail!Copies(t, k)
                            /\ k <= wanted(i)
                            /\ k < wanted(i) => Len(v) = MaxPreserveLogs
    BY <2>3 DEF Takes
  <2>5. ASSUME k < wanted(i)
        PROVE  \E j \in 1 .. i : wanted(j) > 0 /\ Len(W(j)) = MaxPreserveLogs
    BY <1>3, <2>1, <2>4, <2>5, SelectedIs
  <2> HIDE DEF W, wanted
  <2>6. Passes(cfgs, gns, ip, t, i, k)
    BY <2>1, <2>4, <2>5 DEF W, st, wanted, c, Passes
  <2>7. QED BY <2>1, <2>3, <2>6 DEF W, st, c
<1>6. CASE B # {}
  <2>1. B \in SUBSET Nat
    BY <1>3
  <2>2. PICK j \in B : \A k \in B : j <= k
    BY <1>6, <2>1, FirstOf
  <2>3. /\ j \in 1 .. Len(cfgs) /\ j \in 1 .. i /\ Breaks(cfgs[j], gns, ip, t)
        /\ j \in 1 .. i - 1
    BY <1>3, <2>2
  <2>4. \A h \in 1 .. j - 1 : ~Breaks(cfgs[h], gns, ip, t)
    BY <1>3, <2>2, <2>3
  <2>5. W(j) = Unread(AfterBoth(cfgs[j], gns, ip, t))
    BY <1>4, <2>3, <2>4
  <2>6. wanted(j) > 0 /\ Len(W(j)) = MaxPreserveLogs
    BY <1>1, <2>3, <2>5, BothBlocks
  <2>7. st[i] = cfgs[i]
    BY <1>2, <1>3, <2>3
  <2>8. WindowOK(cfgs[i].win)
    BY <1>1, <1>3 DEF SoundCFG
  <2>9. Len(u) <= MaxPreserveLogs /\ u \in Seq(Text) /\ W(i) = u
    BY <2>7, <2>8, WindowFields, UnreadType, MaxPreserveAssumption
  <2>10. u = u \o Mail!Copies(t, 0)
    BY <2>9, CopiesAppended
  <2>11. BoxOf(st[i]) = [BoxOf(cfgs[i]) EXCEPT !.unread = u]
    BY <2>7 DEF BoxOf
  <2>12. 0 <= wanted(i)
    BY SelectedIs
  <2> HIDE DEF u, W, wanted
  <2>13. Passes(cfgs, gns, ip, t, i, 0)
    <3>1. /\ W(i) = u \o Mail!Copies(t, 0)
          /\ 0 <= wanted(i)
          /\ \E h \in 1 .. i : wanted(h) > 0 /\ Len(W(h)) = MaxPreserveLogs
      BY <2>3, <2>6, <2>9, <2>10, <2>12
    <3>2. QED BY <3>1 DEF Passes, W, st, u, wanted
  <2>14. QED BY <2>9, <2>11, <2>13 DEF W, st, u
<1>7. QED BY <1>5, <1>6

\* An upload for a session reaches its mailboxes as LogMailboxes says; any
\* other is answered and changes none.
LEMMA SaveLogUploads ==
  ASSUME IInv, NEW fd \in Fd, NEW s \in issued, NEW gns \in Gns, NEW ip \in IpPort,
         NEW t \in Text, SaveLog(fd, s, gns, ip, t)
  PROVE  Mail!Next
<1>1. CASE s \notin DOMAIN sessions
  <2>1. ClearSessionReq(s).id # "GET_LOG_RESP"
    BY DEF ClearSessionReq
  <2>2. Given' = << >>
    BY <1>1, <2>1, QuietTo, QuietSends DEF SaveLog
  <2>3. QED BY <1>1, <2>2, NoneChanged DEF SaveLog
<1>2. CASE s \in DOMAIN sessions
  <2> DEFINE cfgs == sessions[s].cfgs
             L == Len(cfgs)
             st == Stored(cfgs, gns, ip, t)
             r == WithLog(s, gns, ip, t)
             wanted(j) == Mail!Selected(BoxOf(cfgs[j]), gns, ip)
             W(j) == Unread(st[j].win)
             n == [i \in 1 .. L |-> CHOOSE k \in 0 .. 2 : Passes(cfgs, gns, ip, t, i, k)]
  <2>1. sessions' = [sessions EXCEPT ![s] = r]
    BY <1>2 DEF SaveLog
  <2>2. cfgs \in Seq(SoundCFG) /\ L \in Nat /\ r.cfgs = st
    BY <1>2, SoundSession DEF IInv, WithLog
  <2>3. Len(st) = L
    BY <2>2, StoredOK
  <2>4. Given' = << >>
    BY <1>2, QuietNothing, QuietSends DEF SaveLog
  <2>5. /\ Boxes' = [Boxes EXCEPT ![s] = BoxesOf(st)]
        /\ s \in DOMAIN Boxes /\ Boxes[s] = BoxesOf(cfgs)
    <3> HIDE DEF r
    <3>1. /\ Boxes' = [Boxes EXCEPT ![s] = BoxesOf(r.cfgs)]
          /\ s \in DOMAIN Boxes /\ Boxes[s] = BoxesOf(sessions[s].cfgs)
      BY <1>2, <2>1, OneReplaced
    <3> HIDE DEF st
    <3>2. QED BY <2>2, <3>1
  <2>6. /\ Len(BoxesOf(cfgs)) = L /\ Len(BoxesOf(st)) = L
        /\ \A i \in 1 .. L : /\ BoxesOf(cfgs)[i] = BoxOf(cfgs[i])
                             /\ BoxesOf(st)[i] = BoxOf(st[i])
    BY <2>2, <2>3, BoxesOfSeq
  <2>7. \A i \in 1 .. L : /\ Len(W(i)) <= MaxPreserveLogs
                          /\ BoxOf(st[i]) = [BoxOf(cfgs[i]) EXCEPT !.unread = W(i)]
                          /\ \E k \in 0 .. 2 : Passes(cfgs, gns, ip, t, i, k)
    <3> TAKE i \in 1 .. L
    <3>1. cfgs \in Seq(SoundCFG) /\ i \in 1 .. Len(cfgs)
      BY <2>2
    <3> HIDE DEF cfgs, L
    <3>2. QED BY <3>1, StoredBoxes
  <2>8. \A i \in 1 .. L : BoxOf(cfgs[i]).unread = Unread(cfgs[i].win) /\ BoxOf(st[i]).unread = W(i)
    BY DEF BoxOf
  <2> HIDE DEF W, wanted, st, cfgs, L
  <2>9. \A i \in 1 .. L : n[i] \in 0 .. 2 /\ Passes(cfgs, gns, ip, t, i, n[i])
    BY <2>7
  <2>10. n \in [1 .. L -> 0 .. 2]
    BY <2>9
  <2> HIDE DEF n
  <2>11. BoxesOf(st) = Mail!Filled(BoxesOf(cfgs), t, n)
    <3>1. \A i \in 1 .. L :
            BoxOf(st[i]) = [BoxOf(cfgs[i]) EXCEPT !.unread = @ \o Mail!Copies(t, n[i])]
      BY <2>7, <2>8, <2>9 DEF Passes, W, st
    <3>2. BoxesOf(st) = [i \in 1 .. L |-> BoxOf(st[i])]
      BY <2>3 DEF BoxesOf
    <3>3. QED BY <2>6, <3>1, <3>2 DEF Mail!Filled
  <2>12. Boxes' = [Boxes EXCEPT ![s] = Mail!Filled(@, t, n)]
    BY <2>5, <2>11
  <2>13. \A i \in 1 .. L :
           /\ n[i] <= Mail!Selected(Boxes[s][i], gns, ip)
           /\ Len(Boxes'[s][i].unread) <= MaxPreserveLogs
           /\ n[i] < Mail!Selected(Boxes[s][i], gns, ip) =>
                \E j \in 1 .. i : /\ Mail!Selected(Boxes[s][j], gns, ip) > 0
                                  /\ Len(Boxes'[s][j].unread) = MaxPreserveLogs
    <3>1. \A i \in 1 .. L : /\ Mail!Selected(Boxes[s][i], gns, ip) = wanted(i)
                            /\ Boxes'[s][i].unread = W(i)
      BY <2>5, <2>6, <2>8 DEF wanted
    <3>2. ASSUME NEW i \in 1 .. L, NEW j \in 1 .. i PROVE j \in 1 .. L
      BY <2>2, <3>2
    <3>3. \A i \in 1 .. L :
            /\ n[i] <= wanted(i)
            /\ n[i] < wanted(i) =>
                 \E j \in 1 .. i : wanted(j) > 0 /\ Len(W(j)) = MaxPreserveLogs
      BY <2>9 DEF Passes, W, st, wanted
    <3>4. QED BY <2>7, <3>1, <3>2, <3>3
  <2>14. Mail!Upload(s, gns, ip, t)
    BY <2>4, <2>5, <2>6, <2>10, <2>12, <2>13 DEF Mail!Upload
  <2>15. QED BY <2>5, <2>14 DEF Mail!Next
<1>3. QED BY <1>1, <1>2

----------------------------------------------------------------------------
(* A configuration *)

LEMMA QuietCfgInfo ==
  ASSUME NEW s, NEW cfgs, NEW gns, NEW ip
  PROVE  \A fd \in Fd : Quiet(SendCfgInfo2Clients(s, cfgs, gns, ip)[fd])
<1> SUFFICES ASSUME NEW fd \in Fd
             PROVE  Quiet(SendCfgInfo2Clients(s, cfgs, gns, ip)[fd])
  OBVIOUS
<1> DEFINE S == {k \in {s} \X (1 .. Len(cfgs)) :
                   IF ip # NoName
                   THEN cfgs[k[2]].ip_port = ip /\ fd \in GetFdByIPPort(ip) /\ fd > 0
                   ELSE cfgs[k[2]].gns_name = gns /\ fd \in GetFdByGns(gns)}
           o == InOrder(S)
           f == [i \in DOMAIN o |-> CfgInfoReq(s, cfgs[o[i][2]].p)]
<1>1. SendCfgInfo2Clients(s, cfgs, gns, ip)[fd] = f
  BY DEF SendCfgInfo2Clients
<1> HIDE DEF S
<1>2. DOMAIN o = 1 .. Len(o)
  BY InOrderOK
<1>3. \A i \in 1 .. Len(o) : f[i].id # "GET_LOG_RESP"
  BY <1>2 DEF CfgInfoReq
<1>4. f = [i \in DOMAIN o |-> f[i]]
  OBVIOUS
<1> HIDE DEF f
<1>5. Quiet(f)
  BY <1>3, <1>4, QuietWalk
<1>6. QED BY <1>1, <1>5

\* The boxes that a new one leaves are those of the configurations kept.
LEMMA KeptBoxes ==
  ASSUME Sound, NEW s \in DOMAIN sessions,
         NEW gns \in Gns \cup {NoName}, NEW ip \in IpPort \cup {NoName}
  PROVE  {k \in {s} \X (1 .. Len(Boxes[s])) :
            /\ Boxes[s][k[2]].name \notin {gns} \ {NoName}
            /\ Boxes[s][k[2]].addr \notin {ip} \ {NoName}} = Kept(s, gns, ip)
<1> DEFINE cfgs == sessions[s].cfgs
<1>1. /\ Boxes[s] = BoxesOf(cfgs) /\ Len(Boxes[s]) = Len(cfgs)
      /\ \A i \in 1 .. Len(cfgs) : Boxes[s][i] = BoxOf(cfgs[i])
  BY SoundSession, BoxesOfSeq DEF Boxes
<1>2. Positions({s}) = {s} \X (1 .. Len(cfgs))
  BY DEF Positions
<1>3. \A k \in {s} \X (1 .. Len(cfgs)) :
        /\ Boxes[s][k[2]].name = CfgAt(k).gns_name
        /\ Boxes[s][k[2]].addr = CfgAt(k).ip_port
  <2> TAKE k \in {s} \X (1 .. Len(cfgs))
  <2>1. k[1] = s /\ k[2] \in 1 .. Len(cfgs)
    OBVIOUS
  <2>2. CfgAt(k) = cfgs[k[2]]
    BY <2>1 DEF CfgAt
  <2> HIDE DEF cfgs
  <2>3. Boxes[s][k[2]] = BoxOf(cfgs[k[2]])
    BY <1>1, <2>1
  <2>4. QED BY <2>2, <2>3 DEF BoxOf
<1> HIDE DEF cfgs
<1>4. QED BY <1>1, <1>2, <1>3 DEF Kept

\* A request replaces the mailboxes it shares a selector with.
LEMMA SetConfigArranges ==
  ASSUME IInv, NEW fd \in Fd, NEW tag \in Tag, NEW s \in issued,
         NEW gns \in Gns \cup {NoName}, NEW ip \in IpPort \cup {NoName},
         NEW p \in Param, SetConfig(fd, tag, s, gns, ip, p)
  PROVE  Mail!Next
<1>1. \A ok \in BOOLEAN : SetConfResp(tag, ok).id # "GET_LOG_RESP"
  BY DEF SetConfResp
<1>2. CASE s \notin DOMAIN sessions
  <2>1. Given' = << >>
    BY <1>1, <1>2, QuietTo, QuietSends DEF SetConfig
  <2>2. QED BY <1>2, <2>1, NoneChanged DEF SetConfig
<1>3. CASE s \in DOMAIN sessions
  <2> DEFINE new == NewCfgs(s, gns, ip, p)
             r == [cfgs |-> new, age |-> 0]
             a == SendCfgInfo2Clients(s, new, gns, ip)
             b == To(fd, SetConfResp(tag, TRUE))
             o == InOrder(Kept(s, gns, ip))
             box == [name |-> gns, addr |-> ip, unread |-> << >>]
             f == [i \in DOMAIN o |-> Boxes[s][o[i][2]]]
             old == sessions[s].cfgs
  <2>1. sessions' = [sessions EXCEPT ![s] = r] /\ SendMsg(Both(a, b))
    BY <1>3 DEF SetConfig
  <2>2. /\ new \in Seq(SoundCFG) /\ Len(o) \in Nat /\ Len(new) = Len(o) + 1
        /\ \A i \in 1 .. Len(o) : o[i] \in Kept(s, gns, ip) /\ new[i] = CfgAt(o[i])
        /\ new[Len(o) + 1] = [gns_name |-> gns, ip_port |-> ip, p |-> p,
                              win |-> EmptyWindow]
    BY <1>3, NewCfgsOK DEF IInv
  <2>3. Given' = << >>
    <3>1. a \in Out /\ b \in Out
      <4>1. SetConfResp(tag, TRUE) \in Msg
        BY DEF SetConfResp, Msg
      <4>2. s \in Session
        BY <1>3, SoundSession DEF IInv
      <4>3. QED BY <2>2, <4>1, <4>2, CfgInfoOK, ToOK
    <3>2. \A e \in Fd : Quiet(a[e]) /\ Quiet(b[e])
      BY <1>1, QuietCfgInfo, QuietTo
    <3> HIDE DEF a, b
    <3>3. QED BY <2>1, <3>1, <3>2, QuietBoth, QuietSends
  <2>4. /\ Boxes' = [Boxes EXCEPT ![s] = BoxesOf(new)]
        /\ s \in DOMAIN Boxes /\ Boxes[s] = BoxesOf(old)
    <3>1. r.cfgs = new
      OBVIOUS
    <3> HIDE DEF r
    <3>2. /\ Boxes' = [Boxes EXCEPT ![s] = BoxesOf(r.cfgs)]
          /\ s \in DOMAIN Boxes /\ Boxes[s] = BoxesOf(sessions[s].cfgs)
      BY <1>3, <2>1, OneReplaced
    <3> HIDE DEF new
    <3>3. QED BY <3>1, <3>2
  <2>5. DOMAIN o = 1 .. Len(o)
    BY InOrderOK
  <2>6. /\ Len(BoxesOf(new)) = Len(o) + 1
        /\ \A i \in 1 .. Len(o) + 1 : BoxesOf(new)[i] = BoxOf(new[i])
    BY <2>2, BoxesOfSeq
  <2>7. \A i \in 1 .. Len(o) : BoxOf(new[i]) = Boxes[s][o[i][2]]
    <3> TAKE i \in 1 .. Len(o)
    <3>1. PICK k \in Positions({s}) : k = o[i]
      BY <2>2 DEF Kept
    <3>2. k[1] = s /\ k[2] \in 1 .. Len(old)
      BY PositionsOK
    <3>3. Boxes[s][k[2]] = BoxOf(old[k[2]])
      BY <1>3, <2>4, <3>2, SoundSession, BoxesOfSeq DEF IInv
    <3>4. new[i] = old[k[2]]
      BY <2>2, <3>1, <3>2 DEF CfgAt
    <3> HIDE DEF new, o, old
    <3>5. QED BY <3>1, <3>3, <3>4
  <2>8. BoxOf(new[Len(o) + 1]) = box
    BY <2>2, EmptyWindowOK DEF BoxOf
  <2> HIDE DEF new, o, old, box
  <2>9. BoxesOf(new) = Append(f, box)
    <3>1. Len(f) = Len(o) /\ f = [i \in 1 .. Len(o) |-> Boxes[s][o[i][2]]]
      BY <2>2, <2>5
    <3>2. Append(f, box) = [i \in 1 .. Len(o) + 1 |->
                              IF i = Len(o) + 1 THEN box ELSE f[i]]
      BY <2>2, <3>1
    <3>3. BoxesOf(new) = [i \in 1 .. Len(o) + 1 |-> BoxOf(new[i])]
      BY <2>2 DEF BoxesOf
    <3>4. ASSUME NEW i \in 1 .. Len(o) + 1
          PROVE  BoxOf(new[i]) = IF i = Len(o) + 1 THEN box ELSE f[i]
      BY <2>2, <2>5, <2>7, <2>8
    <3> HIDE DEF f
    <3>5. QED BY <3>2, <3>3, <3>4
  <2>10. Mail!InOrder({k \in {s} \X (1 .. Len(Boxes[s])) :
                         /\ Boxes[s][k[2]].name \notin {gns} \ {NoName}
                         /\ Boxes[s][k[2]].addr \notin {ip} \ {NoName}}) = o
    <3> DEFINE K == {k \in {s} \X (1 .. Len(Boxes[s])) :
                       /\ Boxes[s][k[2]].name \notin {gns} \ {NoName}
                       /\ Boxes[s][k[2]].addr \notin {ip} \ {NoName}}
    <3>1. K = Kept(s, gns, ip)
      BY <1>3, KeptBoxes DEF IInv
    <3> HIDE DEF K
    <3>2. Mail!InOrder(K) = o
      BY <3>1, SameOrder DEF o
    <3>3. QED BY <3>2 DEF K
  <2>11. Mail!Arrange(s, gns, ip)
    <3> HIDE DEF f
    <3>1. Boxes' = [Boxes EXCEPT ![s] = Append(f, box)]
      BY <2>4, <2>9
    <3>2. Boxes' = [Boxes EXCEPT ![s] = Append([i \in DOMAIN o |-> @[o[i][2]]], box)]
      BY <3>1, Zenon DEF f
    <3>3. QED BY <2>3, <2>10, <3>2, Zenon DEF Mail!Arrange, box
  <2>12. QED BY <2>4, <2>11 DEF Mail!Next
<1>4. QED BY <1>2, <1>3

----------------------------------------------------------------------------
(* A fetch *)

\* The two parts of a concatenation.
LEMMA PartsOfConcat ==
  ASSUME NEW S, NEW p \in Seq(S), NEW q \in Seq(S)
  PROVE  /\ SubSeq(p \o q, 1, Len(p)) = p
         /\ SubSeq(p \o q, Len(p) + 1, Len(p \o q)) = q
<1> DEFINE c == p \o q
           a == Len(p)
           b == Len(q)
<1>1. /\ c \in Seq(S) /\ Len(c) = a + b /\ a \in Nat /\ b \in Nat
      /\ \A i \in 1 .. a + b : c[i] = IF i <= a THEN p[i] ELSE q[i - a]
  BY ConcatProperties
<1> HIDE DEF c
<1>2. SubSeq(c, 1, a) = p
  <2>1. /\ SubSeq(c, 1, a) \in Seq(S) /\ Len(SubSeq(c, 1, a)) = a
        /\ \A i \in 1 .. a : SubSeq(c, 1, a)[i] = c[i]
    BY <1>1, SubSeqType
  <2>2. \A i \in 1 .. a : SubSeq(c, 1, a)[i] = p[i]
    BY <1>1, <2>1
  <2> HIDE DEF a
  <2>3. QED BY <2>1, <2>2, SeqEqual DEF a
<1>3. SubSeq(c, a + 1, a + b) = q
  <2> DEFINE r == SubSeq(c, a + 1, a + b)
  <2>1. /\ r \in Seq(S) /\ Len(r) = b
        /\ \A i \in 1 .. b : r[i] = c[a + i]
    <3>1. /\ r \in Seq(S)
          /\ Len(r) = IF a + 1 <= a + b THEN (a + b) - (a + 1) + 1 ELSE 0
          /\ \A i \in 1 .. (a + b) - (a + 1) + 1 : r[i] = c[a + 1 + i - 1]
      BY <1>1, SubSeqType
    <3> HIDE DEF a, b, r
    <3>2. QED BY <1>1, <3>1
  <2> HIDE DEF a, b, r
  <2>2. \A i \in 1 .. b : c[a + i] = q[i]
    BY <1>1
  <2>3. QED BY <2>1, <2>2, SeqEqual DEF r, b
<1>4. QED BY <1>1, <1>2, <1>3 DEF c

\* A fetch takes as many of the unread logs as it may and there are, from the
\* front, and leaves the others.
LEMMA FetchTakes ==
  ASSUME NEW w, WindowOK(w), NEW n \in Nat
  PROVE  LET u == Unread(w)
             k == Len(Fetched(w, n))
         IN /\ u \in Seq(Text) /\ k = Lesser(n, Len(u)) /\ k \in 0 .. n /\ k <= Len(u)
            /\ Fetched(w, n) = SubSeq(u, 1, k) /\ Fetched(w, n) \in Seq(Text)
            /\ Unread(AfterFetch(w, n)) = SubSeq(u, k + 1, Len(u))
<1> DEFINE u == Unread(w)
           p == Fetched(w, n)
           q == Unread(AfterFetch(w, n))
           k == Len(p)
<1>1. /\ p \in Seq(Text) /\ k <= n /\ p \o q = u /\ WindowOK(AfterFetch(w, n))
  BY FetchOK
<1>2. q \in Seq(Text) /\ u \in Seq(Text) /\ Len(u) = Len(w.logs) - w.log_idx
  BY <1>1, UnreadType
<1>3. SubSeq(u, 1, k) = p /\ SubSeq(u, k + 1, Len(u)) = q
  BY <1>1, <1>2, PartsOfConcat
<1>4. Len(u) = k + Len(q) /\ k \in Nat /\ Len(q) \in Nat
  <2> HIDE DEF u, p, q
  <2>1. p \in Seq(Text) /\ q \in Seq(Text) /\ u = p \o q
    BY <1>1, <1>2
  <2>2. QED BY <2>1, ConcatProperties
<1>5. k = Lesser(n, Len(u))
  <2> DEFINE a == Available(w, n)
             i == w.log_idx + 1
             j == w.log_idx + a
  <2>1. /\ w.logs \in Seq(Text) /\ w.log_idx \in Nat /\ Len(w.logs) \in Nat
        /\ w.log_idx <= Len(w.logs)
    BY WindowFields
  <2>2. a = Lesser(n, Len(u)) /\ a \in Nat /\ j <= Len(w.logs)
    BY <1>2, <2>1 DEF Available, Lesser
  <2> HIDE DEF a
  <2>3. i \in Nat /\ j \in Nat /\ 1 <= i /\ j - i + 1 = a
    BY <2>1, <2>2
  <2>4. p = SubSeq(w.logs, i, j)
    BY DEF Fetched, a
  <2> HIDE DEF i, j
  <2>5. Len(p) = IF i <= j THEN j - i + 1 ELSE 0
    BY <2>1, <2>2, <2>3, <2>4, SubSeqType
  <2> HIDE DEF p
  <2>6. QED BY <2>2, <2>3, <2>5
<1> HIDE DEF u, p, q
<1>6. k \in 0 .. n /\ k <= Len(u)
  BY <1>1, <1>4
<1>7. QED BY <1>1, <1>2, <1>3, <1>5, <1>6 DEF u, p, q

LEMMA UpTo ==
  ASSUME NEW k \in Nat
  PROVE  IsFiniteSet(1 .. k) /\ Cardinality(1 .. k) = k
<1>1. /\ IsFiniteSet(1 .. k)
      /\ Cardinality(1 .. k) = IF 1 > k THEN 0 ELSE k - 1 + 1
  <2>1. 1 \in Int /\ k \in Int
    OBVIOUS
  <2>2. QED BY <2>1, FS_Interval
<1>2. QED BY <1>1

\* All shares together are no more than a fetch may hand out.
LEMMA SharesTogether ==
  ASSUME NEW cfgs, Len(cfgs) \in Nat \ {0},
         NEW S, S \subseteq (1 .. Len(cfgs)) \X (1 .. Share(cfgs))
  PROVE  Cardinality(S) <= MaxGetLogs
<1> DEFINE n == Share(cfgs)
           L == Len(cfgs)
           P == (1 .. L) \X (1 .. n)
<1>1. L \in Nat \ {0} /\ n \in Nat /\ MaxGetLogs \in Nat /\ L * n <= MaxGetLogs
  BY ShareOK, ServerAssumption DEF Share
<1> HIDE DEF n, L
<1>2. IsFiniteSet(1 .. L) /\ Cardinality(1 .. L) = L
  BY <1>1, UpTo
<1>3. IsFiniteSet(1 .. n) /\ Cardinality(1 .. n) = n
  BY <1>1, UpTo
<1>4. IsFiniteSet(P) /\ Cardinality(P) = L * n
  <2>1. IsFiniteSet(P) /\ Cardinality(P) = Cardinality(1 .. L) * Cardinality(1 .. n)
    BY <1>2, <1>3, FS_Product, Zenon
  <2>2. QED BY <1>2, <1>3, <2>1, Zenon
<1> HIDE DEF P
<1>5. S \in SUBSET P
  BY DEF P, L, n
<1>6. IsFiniteSet(S) /\ Cardinality(S) <= Cardinality(P)
  BY <1>4, <1>5, FS_Subset
<1>7. Cardinality(S) \in Nat /\ Cardinality(P) \in Nat
  BY <1>4, <1>6, FS_CardinalityType
<1>8. QED BY <1>1, <1>4, <1>6, <1>7

Only(fd, m) == [e \in Fd |-> IF e = fd THEN <<m>> ELSE << >>]

LEMMA OpenGets ==
  ASSUME NEW fd \in Fd, NEW m, conns[fd] = "open", SendMsg(To(fd, m))
  PROVE  sent' = Only(fd, m)
<1>1. \A e \in Fd : To(fd, m)[e] = IF e = fd THEN <<m>> ELSE << >>
  BY DEF To, Nothing
<1>2. QED BY <1>1 DEF SendMsg, Only

LEMMA OneAnswer ==
  ASSUME NEW fd \in Fd, NEW m, m.id = "GET_LOG_RESP", sent' = Only(fd, m)
  PROVE  Given' = TextsOf(m)
<1>1. /\ sent'[fd] = <<m>>
      /\ \A e \in Fd \ {fd} : sent'[e] = << >>
  BY DEF Only
<1>2. \A e \in Fd : {sent'[e][i] : i \in 1 .. Len(sent'[e])} = IF e = fd THEN {m} ELSE {}
  BY <1>1
<1>3. Answers' = {m}
  BY <1>2 DEF Answers
<1>4. QED BY <1>3 DEF Given, TextsOf

\* The answer to a fetch of a session that has configurations.
LEMMA GetLogAnswers ==
  ASSUME NEW fd \in Fd, NEW tag, NEW s \in DOMAIN sessions,
         GetLog(fd, tag, s), sessions[s].cfgs # << >>
  PROVE  LET cfgs == sessions[s].cfgs
             m == GetLogResp(tag, TRUE, LogTexts(cfgs))
         IN /\ sent' = Only(fd, m)
            /\ sessions' = [sessions EXCEPT ![s] = [cfgs |-> Remaining(cfgs), age |-> 0]]
BY OpenGets DEF GetLog

\* What a fetch takes from each configuration.
LEMMA FetchParts ==
  ASSUME NEW cfgs \in Seq(SoundCFG), cfgs # << >>
  PROVE  LET L == Len(cfgs)
             texts == LogTexts(cfgs)
             u(i) == Unread(cfgs[i].win)
             n(i) == Len(texts[i].text)
         IN /\ L \in Nat \ {0} /\ Share(cfgs) \in Nat
            /\ Len(texts) = L /\ Len(Remaining(cfgs)) = L
            /\ \A i \in 1 .. L :
                 /\ n(i) = Lesser(Share(cfgs), Len(u(i)))
                 /\ n(i) \in 0 .. Share(cfgs) /\ n(i) <= Len(u(i))
                 /\ texts[i].text = SubSeq(u(i), 1, n(i)) /\ texts[i].text \in Seq(Text)
                 /\ u(i) \in Seq(Text)
                 /\ BoxOf(Remaining(cfgs)[i]) =
                      [BoxOf(cfgs[i]) EXCEPT !.unread = SubSeq(@, n(i) + 1, Len(@))]
<1> DEFINE L == Len(cfgs)
           texts == LogTexts(cfgs)
           u(i) == Unread(cfgs[i].win)
           n(i) == Len(texts[i].text)
           m == Share(cfgs)
           rest == Remaining(cfgs)
<1>1. L \in Nat \ {0} /\ m \in Nat
  BY ShareOK
<1>2. Len(texts) = L /\ Len(rest) = L
  BY <1>1, RemainingOK DEF LogTexts
<1> SUFFICES ASSUME NEW i \in 1 .. L
             PROVE  /\ n(i) = Lesser(m, Len(u(i)))
                    /\ n(i) \in 0 .. m /\ n(i) <= Len(u(i))
                    /\ texts[i].text = SubSeq(u(i), 1, n(i)) /\ texts[i].text \in Seq(Text)
                    /\ u(i) \in Seq(Text)
                    /\ BoxOf(rest[i]) =
                         [BoxOf(cfgs[i]) EXCEPT !.unread = SubSeq(@, n(i) + 1, Len(@))]
  BY <1>1, <1>2
<1> DEFINE c == cfgs[i]
<1>3. WindowOK(c.win) /\ c \in CFG
  BY DEF SoundCFG
<1>4. texts[i].text = Fetched(c.win, m)
  BY DEF LogTexts
<1>5. /\ n(i) = Lesser(m, Len(u(i))) /\ n(i) \in 0 .. m /\ n(i) <= Len(u(i))
      /\ texts[i].text = SubSeq(u(i), 1, n(i)) /\ texts[i].text \in Seq(Text)
      /\ u(i) \in Seq(Text)
      /\ Unread(AfterFetch(c.win, m)) = SubSeq(u(i), n(i) + 1, Len(u(i)))
  <2> HIDE DEF m, texts, c
  <2>1. WindowOK(c.win) /\ m \in Nat
    BY <1>1, <1>3
  <2>2. QED BY <1>4, <2>1, FetchTakes DEF c
<1>6. rest[i] = [c EXCEPT !.win = AfterFetch(@, m)]
  BY DEF Remaining
<1>7. /\ rest[i].win = AfterFetch(c.win, m)
      /\ rest[i].gns_name = c.gns_name /\ rest[i].ip_port = c.ip_port
  BY <1>3, <1>6 DEF CFG
<1>8. BoxOf(rest[i]) = [BoxOf(c) EXCEPT !.unread = SubSeq(@, n(i) + 1, Len(@))]
  <2>1. BoxOf(rest[i]) = [name |-> c.gns_name, addr |-> c.ip_port,
                          unread |-> SubSeq(u(i), n(i) + 1, Len(u(i)))]
    BY <1>5, <1>7 DEF BoxOf
  <2>2. BoxOf(c) = [name |-> c.gns_name, addr |-> c.ip_port, unread |-> u(i)]
    BY DEF BoxOf
  <2>3. BoxOf(c).unread = u(i)
    BY DEF BoxOf
  <2> DEFINE left == SubSeq(u(i), n(i) + 1, Len(u(i)))
  <2>4. [BoxOf(c) EXCEPT !.unread = SubSeq(@, n(i) + 1, Len(@))]
          = [BoxOf(c) EXCEPT !.unread = left]
    BY <2>3
  <2> HIDE DEF u, n, c, rest, left
  <2>5. [BoxOf(c) EXCEPT !.unread = left]
          = [name |-> c.gns_name, addr |-> c.ip_port, unread |-> left]
    BY <2>2
  <2>6. QED BY <2>1, <2>4, <2>5 DEF left
<1> HIDE DEF u, n, texts, rest, m
<1>9. QED BY <1>5, <1>8

\* A fetch hands out a front part of every mailbox, or nothing.
LEMMA GetLogFetches ==
  ASSUME IInv, NEW fd \in Fd, NEW tag \in Tag, NEW s \in issued, GetLog(fd, tag, s)
  PROVE  Mail!Next
<1>1. CASE s \notin DOMAIN sessions
  <2> DEFINE m == GetLogResp(tag, FALSE, << >>)
  <2>1. /\ conns[fd] = "open" /\ SendMsg(To(fd, m)) /\ UNCHANGED sessions
        /\ m.id = "GET_LOG_RESP" /\ TextsOf(m) = << >>
    BY <1>1 DEF GetLog, GetLogResp, TextsOf
  <2> HIDE DEF m
  <2>2. Given' = << >>
    BY <2>1, OpenGets, OneAnswer
  <2>3. QED BY <2>1, <2>2, NoneChanged
<1>2. CASE s \in DOMAIN sessions /\ sessions[s].cfgs = << >>
  BY <1>2, AllForgotten DEF GetLog
<1>3. CASE s \in DOMAIN sessions /\ sessions[s].cfgs # << >>
  <2> DEFINE cfgs == sessions[s].cfgs
             L == Len(cfgs)
             texts == LogTexts(cfgs)
             rest == Remaining(cfgs)
             m == GetLogResp(tag, TRUE, texts)
             r == [cfgs |-> rest, age |-> 0]
             n == [i \in 1 .. L |-> Len(texts[i].text)]
             M == MaxGetLogs
  <2>1. sent' = Only(fd, m) /\ sessions' = [sessions EXCEPT ![s] = r]
    BY <1>3, GetLogAnswers
  <2>2. cfgs \in Seq(SoundCFG) /\ cfgs # << >>
    BY <1>3, SoundSession DEF IInv
  <2>3. /\ L \in Nat \ {0} /\ Share(cfgs) \in Nat /\ Len(texts) = L /\ Len(rest) = L
        /\ \A i \in 1 .. L :
             /\ n[i] \in 0 .. Share(cfgs) /\ n[i] <= Len(Unread(cfgs[i].win))
             /\ texts[i].text = SubSeq(Unread(cfgs[i].win), 1, n[i])
             /\ BoxOf(rest[i]) =
                  [BoxOf(cfgs[i]) EXCEPT !.unread = SubSeq(@, n[i] + 1, Len(@))]
    <3>1. \A i \in 1 .. L : n[i] = Len(texts[i].text)
      OBVIOUS
    <3> HIDE DEF cfgs, n
    <3>2. L \in Nat \ {0} /\ Share(cfgs) \in Nat /\ Len(texts) = L /\ Len(rest) = L
      BY <2>2, FetchParts
    <3>3. ASSUME NEW i \in 1 .. L
          PROVE  /\ n[i] \in 0 .. Share(cfgs) /\ n[i] <= Len(Unread(cfgs[i].win))
                 /\ texts[i].text = SubSeq(Unread(cfgs[i].win), 1, n[i])
                 /\ BoxOf(rest[i]) =
                      [BoxOf(cfgs[i]) EXCEPT !.unread = SubSeq(@, n[i] + 1, Len(@))]
      <4> DEFINE k == Len(texts[i].text)
      <4>1. /\ k \in 0 .. Share(cfgs) /\ k <= Len(Unread(cfgs[i].win))
            /\ texts[i].text = SubSeq(Unread(cfgs[i].win), 1, k)
            /\ BoxOf(rest[i]) =
                 [BoxOf(cfgs[i]) EXCEPT !.unread = SubSeq(@, k + 1, Len(@))]
        BY <2>2, FetchParts
      <4>2. n[i] = k
        BY <3>1
      <4> HIDE DEF k, texts, rest, L
      <4>3. QED BY <4>1, <4>2
    <3> HIDE DEF L, texts, rest
    <3>4. QED BY <3>2, <3>3
  <2>4. /\ Boxes' = [Boxes EXCEPT ![s] = BoxesOf(rest)]
        /\ s \in DOMAIN Boxes /\ Boxes[s] = BoxesOf(cfgs)
    <3>1. r.cfgs = rest
      OBVIOUS
    <3> HIDE DEF r
    <3>2. /\ Boxes' = [Boxes EXCEPT ![s] = BoxesOf(r.cfgs)]
          /\ s \in DOMAIN Boxes /\ Boxes[s] = BoxesOf(sessions[s].cfgs)
      BY <1>3, <2>1, OneReplaced
    <3> HIDE DEF rest
    <3>3. QED BY <3>1, <3>2
  <2>5. Given' = [i \in 1 .. L |-> texts[i].text]
    <3>1. m.id = "GET_LOG_RESP" /\ m.logs = texts
      BY DEF GetLogResp
    <3> HIDE DEF m
    <3>2. Given' = TextsOf(m)
      BY <2>1, <3>1, OneAnswer
    <3>3. QED BY <2>3, <3>1, <3>2 DEF TextsOf
  <2> HIDE DEF cfgs, L, texts, rest, m, r
  <2>6. /\ Len(Boxes[s]) = L
        /\ \A i \in 1 .. L : /\ Boxes[s][i] = BoxOf(cfgs[i])
                             /\ Boxes[s][i].unread = Unread(cfgs[i].win)
    <3>1. Len(cfgs) \in Nat /\ L = Len(cfgs)
      BY <2>3 DEF L
    <3>2. /\ Len(BoxesOf(cfgs)) = L
          /\ \A i \in 1 .. L : BoxesOf(cfgs)[i] = BoxOf(cfgs[i])
      BY <3>1, BoxesOfSeq
    <3>3. \A i \in 1 .. L : BoxOf(cfgs[i]).unread = Unread(cfgs[i].win)
      BY DEF BoxOf
    <3>4. QED BY <2>4, <3>2, <3>3
  <2>7. n \in [1 .. Len(Boxes[s]) -> 0 .. M] /\ DOMAIN n = 1 .. L
    <3>1. Share(cfgs) <= M /\ M \in Nat
      BY <2>3, ServerAssumption DEF Share, L
    <3>2. ASSUME NEW i \in 1 .. L PROVE n[i] \in 0 .. M
      <4>1. n[i] \in 0 .. Share(cfgs) /\ Share(cfgs) \in Nat
        BY <2>3
      <4> HIDE DEF n, M
      <4>2. QED BY <3>1, <4>1
    <3>3. QED BY <2>6, <3>2
  <2>8. Mail!Cardinality(UNION {{i} \X (1 .. n[i]) : i \in DOMAIN n}) <= M
    <3> DEFINE S == UNION {{i} \X (1 .. n[i]) : i \in DOMAIN n}
    <3>1. S \subseteq (1 .. L) \X (1 .. Share(cfgs))
      <4> HIDE DEF n
      <4>1. ASSUME NEW i \in 1 .. L PROVE 1 .. n[i] \subseteq 1 .. Share(cfgs)
        BY <2>3
      <4>2. QED BY <2>7, <4>1
    <3> HIDE DEF S
    <3>2. Cardinality(S) <= M
      BY <2>3, <3>1, SharesTogether DEF L
    <3>3. QED BY <3>2, SameCardinality DEF S
  <2>9. BoxesOf(rest) = Mail!Emptied(BoxesOf(cfgs), n)
    <3>1. BoxesOf(rest) = [i \in 1 .. L |-> BoxOf(rest[i])]
      BY <2>3 DEF BoxesOf
    <3>2. \A i \in 1 .. L : BoxesOf(cfgs)[i] = BoxOf(cfgs[i])
      BY <2>4, <2>6
    <3>3. Len(BoxesOf(cfgs)) = L
      BY <2>4, <2>6
    <3> HIDE DEF n
    <3>4. QED BY <2>3, <3>1, <3>2, <3>3 DEF Mail!Emptied
  <2> HIDE DEF n
  <2>10. Boxes' = [Boxes EXCEPT ![s] = Mail!Emptied(@, n)]
    BY <2>4, <2>9
  <2>11. Given' = [i \in 1 .. Len(Boxes[s]) |-> SubSeq(Boxes[s][i].unread, 1, n[i])]
    BY <2>3, <2>5, <2>6
  <2>12. \A i \in 1 .. Len(Boxes[s]) : n[i] <= Len(Boxes[s][i].unread)
    BY <2>3, <2>6
  <2>13. Mail!Fetch(s)
    BY <2>7, <2>8, <2>10, <2>11, <2>12 DEF Mail!Fetch
  <2>14. QED BY <2>4, <2>13 DEF Mail!Next
<1>4. QED BY <1>1, <1>2, <1>3

----------------------------------------------------------------------------
(* Every step is one of the mailboxes *)

LEMMA ExpiryForgets ==
  ASSUME IInv, CheckSessionExpireTime
  PROVE  Mail!Next
<1> DEFINE S(fd) == {k \in Positions(Expired) : fd \in Informed(CfgAt(k))}
           m(fd) == [i \in DOMAIN InOrder(S(fd)) |->
                       ClearSessionReq(InOrder(S(fd))[i][1])]
           out == [fd \in Fd |-> m(fd)]
<1>1. SendMsg(out) /\ sessions' = [s \in DOMAIN sessions \ Expired |-> sessions[s]]
  BY DEF CheckSessionExpireTime, Unexpired
<1>2. ASSUME NEW fd \in Fd PROVE Quiet(m(fd))
  <2> DEFINE T == S(fd)
             f == m(fd)
  <2> HIDE DEF S
  <2>1. DOMAIN InOrder(T) = 1 .. Len(InOrder(T))
    BY InOrderOK
  <2>2. \A i \in 1 .. Len(InOrder(T)) : f[i].id # "GET_LOG_RESP"
    BY <2>1 DEF ClearSessionReq
  <2>3. f = [i \in DOMAIN InOrder(T) |-> f[i]]
    OBVIOUS
  <2> HIDE DEF m, T, f
  <2>4. Quiet(f)
    BY <2>2, <2>3, QuietWalk
  <2>5. QED BY <2>4 DEF f
<1> HIDE DEF m
<1>3. \A fd \in Fd : Quiet(out[fd])
  BY <1>2
<1> HIDE DEF out
<1>4. Given' = << >>
  BY <1>1, <1>3, QuietSends
<1>5. Expired \in SUBSET DOMAIN sessions
  BY DEF Expired
<1>6. QED BY <1>1, <1>4, <1>5, SomeForgotten

LEMMA ReplayGivesNothing ==
  ASSUME NEW fd \in Fd, NEW gns, NEW ip, UpdateClientInfo(fd, gns, ip)
  PROVE  Mail!Next
<1> DEFINE S == {k \in Positions(DOMAIN sessions) : CfgAt(k).gns_name = gns}
           o == InOrder(S)
           f == [i \in DOMAIN o |-> CfgInfoReq(o[i][1], CfgAt(o[i]).p)]
           out == [Nothing EXCEPT ![fd] = f]
<1>1. SendMsg(out) /\ UNCHANGED sessions
  BY DEF UpdateClientInfo
<1> HIDE DEF S
<1>2. Quiet(f)
  <2>1. DOMAIN o = 1 .. Len(o)
    BY InOrderOK
  <2>2. \A i \in 1 .. Len(o) : f[i].id # "GET_LOG_RESP"
    BY <2>1 DEF CfgInfoReq
  <2>3. f = [i \in DOMAIN o |-> f[i]]
    OBVIOUS
  <2> HIDE DEF f
  <2>4. QED BY <2>2, <2>3, QuietWalk
<1> HIDE DEF f
<1>3. \A e \in Fd : Quiet(out[e])
  BY <1>2, QuietNothing DEF Nothing
<1> HIDE DEF out
<1>4. Given' = << >>
  BY <1>1, <1>3, QuietSends
<1>5. QED BY <1>1, <1>4, NoneChanged

LEMMA StepIsMail == IInv /\ [Next]_vars => [Mail!Next]_(Mail!vars)
<1> SUFFICES ASSUME IInv, [Next]_vars PROVE [Mail!Next]_(Mail!vars)
  OBVIOUS
<1>1. ASSUME sent' = Nothing, UNCHANGED sessions PROVE Mail!Next
  BY <1>1, NothingGivesNothing, NoneChanged
<1>2. CASE ConnStep
  BY <1>1, <1>2 DEF ConnStep, AllocateConnection, ReleaseConnection
<1>3. CASE ClientMsg
  BY <1>3, ReplayGivesNothing, SaveLogUploads DEF ClientMsg
<1>4. CASE CgiMsg
  BY <1>4, LoginOpens, GetLogFetches, SetConfigArranges DEF CgiMsg
<1>5. ASSUME NEW fd \in Fd, SendBackHeartBeat(fd) PROVE Mail!Next
  <2>1. HeartBeat.id # "GET_LOG_RESP" /\ SendMsg(To(fd, HeartBeat)) /\ UNCHANGED sessions
    BY <1>5 DEF SendBackHeartBeat, HeartBeat
  <2>2. Given' = << >>
    BY <2>1, QuietTo, QuietSends
  <2>3. QED BY <2>1, <2>2, NoneChanged
<1>6. CASE CheckSessionExpireTime
  BY <1>6, ExpiryForgets
<1>7. ASSUME NEW idle \in SUBSET Fd, CheckFDExpireTime(idle) PROVE Mail!Next
  BY <1>1, <1>7, AllForgotten DEF CheckFDExpireTime
<1>8. CASE Tick
  <2>1. /\ DOMAIN sessions' = DOMAIN sessions
        /\ \A s \in DOMAIN sessions : sessions'[s] = [sessions[s] EXCEPT !.age = @ + 1]
    BY <1>8 DEF Tick
  <2>2. \A s \in DOMAIN sessions : sessions'[s].cfgs = sessions[s].cfgs
    BY <2>1, SoundSession DEF IInv
  <2>3. Given' = << >>
    BY <1>8, NothingGivesNothing DEF Tick
  <2>4. QED BY <2>1, <2>2, <2>3, NoneChanged
<1>9. CASE Kill
  BY <1>9, AllForgotten DEF Kill
<1>10. CASE Restart
  BY <1>1, <1>10 DEF Restart
<1>11. CASE UNCHANGED vars
  BY <1>11 DEF vars, Mail!vars, Boxes, Given, Answers
<1>12. QED
  BY <1>2, <1>3, <1>4, <1>5, <1>6, <1>7, <1>8, <1>9, <1>10, <1>11
     DEF Next, TimerStep

LEMMA InitIsMail == Init => Mail!Init
<1> SUFFICES ASSUME Init PROVE Mail!Init
  OBVIOUS
<1>1. Boxes = [s \in {} |-> << >>]
  BY DEF Init, Boxes, NoEntries
<1>2. Given = << >>
  <2>1. Answers = {}
    BY DEF Init, Answers, Nothing
  <2>2. QED BY <2>1 DEF Given
<1>3. QED BY <1>1, <1>2 DEF Mail!Init

\* The server's vectors, cursors and erasures implement the mailboxes: every
\* handler's step is an opening, an arrangement, an upload, a fetch or a
\* forgetting, or changes none of them.
THEOREM ServerKeepsMailboxes == Spec => KeepsMailboxes
BY InitIsMail, StepIsMail, Invariance, PTL DEF Spec, KeepsMailboxes, Mail!Spec

----------------------------------------------------------------------------
(* FetchShares *)

\* A share of none is a share of more configurations than there are logs to share.
LEMMA ShareOfAll ==
  ASSUME NEW cfgs, Len(cfgs) \in Nat \ {0}
  PROVE  IF Len(cfgs) <= MaxGetLogs THEN Share(cfgs) >= 1 ELSE Share(cfgs) = 0
<1> DEFINE L == Len(cfgs)
<1>1. L \in Nat \ {0} /\ MaxGetLogs \in Nat
  BY ServerAssumption
<1> HIDE DEF L
<1>2. IF L <= MaxGetLogs THEN MaxGetLogs \div L >= 1 ELSE MaxGetLogs \div L = 0
  BY <1>1
<1>3. QED BY <1>2 DEF Share, L

\* What one answer to a browser holds.
LEMMA SharesGiven ==
  ASSUME IInv, NEW fd \in Fd, NEW tag \in Tag, NEW s \in DOMAIN sessions,
         GetLog(fd, tag, s), status' = "up"
  PROVE  LET cfgs == sessions[s].cfgs
             logs == sent'[fd][1].logs
             held == UNION {{i} \X DOMAIN logs[i].text : i \in DOMAIN cfgs}
             given == {i \in DOMAIN cfgs : logs[i].text # << >>}
             full == {i \in DOMAIN cfgs : Unread(cfgs[i].win) # << >>}
         IN /\ Cardinality(held) <= MaxGetLogs
            /\ given = IF Len(cfgs) <= MaxGetLogs THEN full ELSE {}
<1> DEFINE cfgs == sessions[s].cfgs
           L == Len(cfgs)
           logs == sent'[fd][1].logs
           u(i) == Unread(cfgs[i].win)
           held == UNION {{i} \X DOMAIN logs[i].text : i \in DOMAIN cfgs}
<1>1. cfgs # << >>
  BY DEF GetLog, Die
<1>2. cfgs \in Seq(SoundCFG) /\ DOMAIN cfgs = 1 .. L
  BY SoundSession DEF IInv
<1>3. logs = LogTexts(cfgs)
  <2> DEFINE m == GetLogResp(tag, TRUE, LogTexts(cfgs))
  <2>1. sent' = Only(fd, m)
    BY <1>1, GetLogAnswers
  <2>2. m.logs = LogTexts(cfgs)
    BY DEF GetLogResp
  <2> HIDE DEF m
  <2>3. sent'[fd][1] = m
    BY <2>1 DEF Only
  <2>4. QED BY <2>2, <2>3
<1> HIDE DEF cfgs
<1>4. /\ L \in Nat \ {0} /\ Share(cfgs) \in Nat
      /\ \A i \in 1 .. L :
           /\ Len(LogTexts(cfgs)[i].text) = Lesser(Share(cfgs), Len(u(i)))
           /\ Len(LogTexts(cfgs)[i].text) \in 0 .. Share(cfgs)
           /\ LogTexts(cfgs)[i].text \in Seq(Text) /\ u(i) \in Seq(Text)
  BY <1>1, <1>2, FetchParts
<1> HIDE DEF logs
<1>5. \A i \in 1 .. L :
        /\ Len(logs[i].text) = Lesser(Share(cfgs), Len(u(i)))
        /\ Len(logs[i].text) \in 0 .. Share(cfgs)
        /\ logs[i].text \in Seq(Text) /\ u(i) \in Seq(Text)
  BY <1>3, <1>4
<1> HIDE DEF L, u
<1>6. Cardinality(held) <= MaxGetLogs
  <2>1. ASSUME NEW i \in 1 .. L PROVE DOMAIN logs[i].text \subseteq 1 .. Share(cfgs)
    <3> DEFINE t == logs[i].text
    <3>1. t \in Seq(Text) /\ Len(t) \in 0 .. Share(cfgs)
      BY <1>5
    <3> HIDE DEF t
    <3>2. DOMAIN t = 1 .. Len(t)
      BY <3>1
    <3>3. DOMAIN t \subseteq 1 .. Share(cfgs)
      BY <1>4, <3>1, <3>2
    <3>4. QED BY <3>3 DEF t
  <2>2. held \subseteq (1 .. L) \X (1 .. Share(cfgs))
    BY <1>2, <2>1
  <2> HIDE DEF held
  <2>3. QED BY <1>4, <2>2, SharesTogether DEF L
<1>7. \A i \in 1 .. L :
        logs[i].text # << >> <=> (L <= MaxGetLogs /\ u(i) # << >>)
  <2> TAKE i \in 1 .. L
  <2> DEFINE t == logs[i].text
             v == u(i)
             n == Share(cfgs)
             M == MaxGetLogs
  <2>1. /\ t \in Seq(Text) /\ v \in Seq(Text)
        /\ Len(t) = Lesser(n, Len(v)) /\ n \in Nat
    BY <1>4, <1>5
  <2>2. IF L <= M THEN n >= 1 ELSE n = 0
    BY <1>4, ShareOfAll DEF L
  <2> HIDE DEF t, v, n, M
  <2>3. t # << >> <=> Len(t) > 0
    BY <2>1
  <2>4. v # << >> <=> Len(v) > 0
    BY <2>1
  <2>5. Len(t) > 0 <=> (n > 0 /\ Len(v) > 0)
    BY <2>1 DEF Lesser
  <2>6. Len(t) > 0 <=> (L <= M /\ Len(v) > 0)
    BY <2>1, <2>2, <2>5
  <2>7. t # << >> <=> (L <= M /\ v # << >>)
    BY <2>3, <2>4, <2>6
  <2>8. QED BY <2>7 DEF t, v, M
<1>8. {i \in DOMAIN cfgs : logs[i].text # << >>} =
        IF L <= MaxGetLogs THEN {i \in DOMAIN cfgs : u(i) # << >>} ELSE {}
  BY <1>2, <1>7
<1>9. QED BY <1>6, <1>8 DEF cfgs, logs, L, u

\* No answer carries more than maxGetLogs logs, and each leaves out none of the
\* configurations that have logs, unless they are too many to share it.
THEOREM FetchesAreShared == Spec => FetchShares
<1> DEFINE A == \A fd \in Fd, tag \in Tag, s \in DOMAIN sessions :
                  GetLog(fd, tag, s) /\ status' = "up" =>
                    LET cfgs == sessions[s].cfgs
                        logs == sent'[fd][1].logs
                        held == UNION {{i} \X DOMAIN logs[i].text : i \in DOMAIN cfgs}
                        given == {i \in DOMAIN cfgs : logs[i].text # << >>}
                        full == {i \in DOMAIN cfgs : Unread(cfgs[i].win) # << >>}
                    IN /\ Cardinality(held) <= MaxGetLogs
                       /\ given = IF Len(cfgs) <= MaxGetLogs THEN full ELSE {}
<1>1. IInv => A
  BY SharesGiven
<1>2. QED BY <1>1, Invariance, PTL DEF FetchShares
=============================================================================
