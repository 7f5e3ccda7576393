----------------------------- MODULE MCTurnLoop -----------------------------
(***************************************************************************)
(* Small instances of TurnLoop for TLC.                                    *)
(***************************************************************************)
EXTENDS Transcript, Integers

CONSTANT a1

OneArg == {a1}

Post == [op |-> "post", args |-> a1]
Plain(op) == [op |-> op, args |-> NoArgs]

\* The model books one thing, over and over.
PostOnly == {<<Post>>}

\* It books twice in one answer, or books and asks.
PostTwice == {<<Post, Post>>, <<Post, Plain("ask")>>}

\* Each Operation; a booking is repeated in the same answer.
Mixed == {<<Post, Post>>, <<Plain("ask")>>, <<Plain("read"), Plain("perform")>>}

-----------------------------------------------------------------------------
(* The functions of Llm, over every reply of up to two pieces of text.      *)
L == INSTANCE Llm WITH Tools <- {"read", "post"}

Texts == {<<>>} \cup {<<p>> : p \in L!Piece} \cup {<<p, r>> : p, r \in L!Piece}

\* "nothing ends silently, least of all something that ended by accident" (openai.ts): a
\* reply that ends a Conversation is a reply, with no call left in its text and no reason
\* to stop but the two clean ones, one of them length.
ASSUME NoAnswerByAccident ==
    \A r \in L!Payload({"absent", "stop", "length", "content_filter"}, Texts) :
        L!openai(r) \in {"answered", "length"} =>
            /\ r.status = 200 /\ r.choice /\ r.calls = <<>>
            /\ \A i \in DOMAIN r.text : r.text[i].kind = "prose"
            /\ r.reason # "content_filter"

\* A call recovered from markup names a tool that was offered, and none is read twice.
ASSUME RecoveredWasOffered ==
    \A text \in Texts :
        /\ \A i \in DOMAIN L!toolCallsFromMarkup(text) : L!toolCallsFromMarkup(text)[i] \in {"read", "post"}
        /\ Len(L!toolCallsFromMarkup(text)) <= Len(text)

\* The two vendors' replies come to the same where both can be given.
ASSUME VendorsAgree ==
    LET Same == {<<"absent", "absent">>, <<"stop", "end_turn">>, <<"length", "max_tokens">>, <<"other", "refusal">>}
    IN  \A s \in Same : \A r \in L!Payload({s[1]}, {<<>>}) :
            r.choice => L!openai(r) = L!anthropic([r EXCEPT !.reason = s[2]])

\* The cost of a Conversation is a lower bound: no report lowers it, not even half of one.
ASSUME CostIsAFloor ==
    \A p, c \in {0, 1}, dp, dc \in {-2, -1, 0, 1} :
        LET after == L!addUsage([prompt |-> p, completion |-> c], [prompt |-> dp, completion |-> dc])
        IN  /\ after.prompt >= p /\ after.completion >= c
            /\ dp < 0 \/ dc < 0 => after = [prompt |-> p, completion |-> c]

\* A recording that has run out is an error, never an answer.
ASSUME ScriptEndsInError ==
    \A a, b \in L!ScriptedStep :
        /\ L!scripted(<<>>) = "error"
        /\ L!scripted(<<a, b>>) = "error" <=> a.assistant = "other" /\ b.assistant = "other"

\* A file that starts the Runtime names a profile that can be called, and taking the vision
\* key away never stops a start.
ASSUME StartsOnlyWithAModel ==
    \A p \in L!RawProfile, readable \in BOOLEAN, active \in {"unset", "a", "b"},
       vision \in {"unset", "empty", "a", "b"} :
        LET file == [readable |-> readable, profiles |-> [n \in {"a"} |-> p], active |-> active, vision |-> vision]
            plain == [file EXCEPT !.vision = "unset"]
            used == L!loadLlmProfile(file)
        IN  /\ used # L!Refused => used.provider = "scripted" \/ (used.model /\ (used.key \/ ~used.requiresKey))
            /\ used # L!Refused => L!loadVisionProfile(plain) = L!NoProfile
            /\ L!loadVisionProfile(file) \in {L!Refused, L!NoProfile, p}
=============================================================================
