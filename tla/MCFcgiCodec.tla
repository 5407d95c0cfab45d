---- MODULE MCFcgiCodec ----
(* The characters: 0-3 are the digits, 4 and 5 a letter and its upper case,
   6 and 7 two more letters, 8 an accented one. *)
EXTENDS FcgiCodec

MCNames == {<<4>>, <<5>>}
MCValues == {<< >>, <<8>>, <<14, 6>>, <<12, 2, 1>>, <<10, 11>>}
MCPairs == MCNames \X MCValues
MCQueryForms == {<< >>} \cup {<<p>> : p \in MCPairs}
                        \cup {<<p, q>> : p \in MCPairs, q \in {<<<<5>>, <<8>>>>}}
                        \cup {<<<<<<4>>, <<8, 8, 8, 8, 8>>>>>>}
MCPostForms == {<< >>} \cup {<<<<<<4>>, v>>>> : v \in {<<6>>, <<13, 6>>}}
MCQueryString == <<6>>
MCContentType == <<7>>
MCStandard == <<7, 7>>

\* What is left in a vector before its reader and after its writer is read by
\* nobody.
Seen(b) == <<Len(b.data), b.r, Content(b)>>
MCView == <<typed, params, post, sending, codec.gotRequest_, codec.bWaitClose,
            codec.params_, Seen(codec.stdin_), Seen(codec.paramsStream_),
            asked, page, reply>>
====
