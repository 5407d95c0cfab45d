---- MODULE MCCodecs ----
(* Both halves one after the other: while a message is probed no conversation
   goes on, and the other way round. *)
EXTENDS Codecs, Conversation

plain == <<"plain">>
accent == <<"lead", "cont">>
half == <<"lead">>
MCFormText == {plain, half}
MCLoggedText == {accent, plain \o accent}
MCNumber == {1, -1, 9}

Init == ProbeInit /\ ConversationInit
Next == \/ stage = "idle" /\ asked.kind = "none" /\ ProbeNext /\ UNCHANGED conversation
        \/ probe = NoProbe /\ ConversationNext /\ UNCHANGED probe
Spec == Init /\ [][Next]_<<probe, conversation>>
====
