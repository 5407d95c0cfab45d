------------------------------- MODULE CgiForm ------------------------------
(***************************************************************************)
(* How the gateway reads a form (async_cgi/cgicc_lib/Cgicc.cpp and         *)
(* CgiUtils.cpp), and the map of parameters it makes of it in onRequest.   *)
(*                                                                         *)
(* A character is a number below Base; the characters with a meaning of    *)
(* their own are constants and the first Radix ones are the hexadecimal    *)
(* digits, so that %dd names a character by two of them.                   *)
(***************************************************************************)
EXTENDS Integers, SequencesExt

CONSTANTS Base,      \* 256: bytes are 0 .. Base - 1
          Radix,     \* 16: the digits are the characters 0 .. Radix - 1
          Equals, Ampersand, Percent, Plus, Space,
          Upper      \* upper case letters, each one above its lower case

ASSUME FormAssumption ==
  /\ Radix \in Nat /\ Radix >= 2 /\ Base = Radix * Radix
  /\ {Equals, Ampersand, Percent, Plus, Space} \cup Upper \subseteq Radix .. Base - 1
  /\ {Equals, Ampersand} \cap {Percent, Plus} = {}
  /\ Equals # Ampersand /\ Percent # Plus
  /\ \A c \in Upper : {c, c - 1} \cap {Equals, Ampersand, Percent, Plus} = {}

Char == 0 .. Base - 1

----------------------------------------------------------------------------
(* cgicc *)

\* std::isxdigit of the character at k, which may be the end of the string.
IsDigit(text, k) == k <= Len(text) /\ text[k] < Radix

Plain(c) == IF c = Plus THEN Space ELSE c

\* One character of form_urldecode; `skip' counts those consumed already.
Decoded(text, done, k) ==
  IF done.skip > 0 THEN [done EXCEPT !.skip = @ - 1]
  ELSE IF text[k] = Percent /\ IsDigit(text, k + 1) /\ IsDigit(text, k + 2)
  THEN [out |-> Append(done.out, text[k + 1] * Radix + text[k + 2]), skip |-> 2]
  ELSE [out |-> Append(done.out, Plain(text[k])), skip |-> 0]

form_urldecode(text) ==
  FoldLeft(LAMBDA done, k : Decoded(text, done, k),
           [out |-> << >>, skip |-> 0], [k \in DOMAIN text |-> k]).out

\* find_first_of: the first position of c, 0 when there is none.
Find(text, c) == SelectInSeq(text, LAMBDA d : d = c)

\* One turn of the loop of parseFormInput: up to = a name, up to & a value.
TakePair(form) ==
  LET equals == Find(form.rest, Equals)
      after == SubSeq(form.rest, equals + 1, Len(form.rest))
      amp == Find(after, Ampersand)
      value == IF amp = 0 THEN after ELSE SubSeq(after, 1, amp - 1) IN
  IF ~form.more \/ equals = 0 THEN [form EXCEPT !.more = FALSE]
  ELSE [entries |-> Append(form.entries,
                           <<form_urldecode(SubSeq(form.rest, 1, equals - 1)),
                             form_urldecode(value)>>),
        rest |-> SubSeq(after, amp + 1, Len(after)),
        more |-> amp # 0]

\* The entries of data, for the standard content type or none.
parseFormInput(data) ==
  FoldLeft(LAMBDA form, k : TakePair(form),
           [entries |-> << >>, rest |-> data, more |-> TRUE], data).entries

----------------------------------------------------------------------------
(* onRequest *)

to_lower(name) ==
  [k \in DOMAIN name |-> IF name[k] \in Upper THEN name[k] - 1 ELSE name[k]]

\* map[key] = value: the last entry of a name counts.
Assign(map, key, value) ==
  [k \in DOMAIN map \cup {key} |-> IF k = key THEN value ELSE map[k]]

\* SSMap::insert: the first entry of a name counts.
Insert(map, key, value) ==
  [k \in DOMAIN map \cup {key} |-> IF k \in DOMAIN map THEN map[k] ELSE value]

NoParams == [k \in {} |-> << >>]

\* What was posted comes before what the URL carries.
qmap(post, query) ==
  FoldLeft(LAMBDA map, e : Insert(map, to_lower(e[1]), e[2]), NoParams,
           parseFormInput(post) \o parseFormInput(query))

----------------------------------------------------------------------------
(* What a browser sends: the reference the parsing is compared with.       *)

Escaped(c) ==
  IF c = Space THEN <<Plus>>
  ELSE IF c < Radix \/ c \in Upper \/ c + 1 \in Upper THEN <<c>>
  ELSE <<Percent, c \div Radix, c % Radix>>

Encoded(text) == FoldLeft(LAMBDA out, c : out \o Escaped(c), << >>, text)

FormData(pairs) ==
  FoldLeft(LAMBDA out, p : out \o (IF out = << >> THEN << >> ELSE <<Ampersand>>)
                               \o Encoded(p[1]) \o <<Equals>> \o Encoded(p[2]),
           << >>, pairs)

\* The parameters of the pairs, whichever comes first under its name.
Typed(pairs) ==
  LET names == {to_lower(pairs[k][1]) : k \in DOMAIN pairs}
      First(n) == SelectInSeq(pairs, LAMBDA p : to_lower(p[1]) = n) IN
  [n \in names |-> pairs[First(n)][2]]
=============================================================================
