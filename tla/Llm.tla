-------------------------------- MODULE Llm --------------------------------
(***************************************************************************)
(* What a language model's reply comes to (runtime/src/llm), and which     *)
(* model a Runtime talks to.  These are functions of one reply or of one   *)
(* configuration file; the loop that uses them is TurnLoop, whose four     *)
(* Llm actions are the four outcomes below.                                *)
(*                                                                         *)
(* A reply's text is a sequence of pieces: prose, or a tool call that the  *)
(* gateway left in it as markup, in one of two dialects.                   *)
(***************************************************************************)
EXTENDS Integers, Sequences

CONSTANTS Tools        \* the tool names a request offers

\* A piece of a reply's text.  Only a JSON call can fail to parse; a call may name
\* something that was not offered.
Piece == [kind : {"prose"}, name : {"none"}, parses : {TRUE}]
         \cup [kind : {"function"}, name : Tools \cup {"unknown"}, parses : {TRUE}]
         \cup [kind : {"json"}, name : Tools \cup {"unknown"}, parses : BOOLEAN]

\* An answer of the endpoint.  calls are the structured ones; reason is the vendor's.
Payload(reasons, texts) ==
    [status : {200, 400, 401, 408, 409, 429, 500, 503}, choice : BOOLEAN, calls : {<<>>} \cup {<<t>> : t \in Tools},
     text : texts, reason : reasons]

isTransientStatus(status) == status \in {408, 409, 429} \/ status >= 500

Reads(tag, text) == SelectSeq(text, LAMBDA p : p.kind = tag /\ p.parses /\ p.name \in Tools)

\* The calls of the tagged dialect, then those of the JSON dialect; a name that was not
\* offered and a body that does not parse are passed over.
toolCallsFromMarkup(text) ==
    LET calls == Reads("function", text) \o Reads("json", text)
    IN  [i \in DOMAIN calls |-> calls[i].name]

malformed(text) == \E i \in DOMAIN text : text[i].kind # "prose"

\* Markup that names nothing on offer is no call, but it is no answer either.
openai(reply) ==
    LET recovered == toolCallsFromMarkup(reply.text) IN
    CASE reply.status # 200 -> IF isTransientStatus(reply.status) THEN "transient" ELSE "error"
      [] reply.status = 200 /\ ~reply.choice -> "transient"
      [] reply.status = 200 /\ reply.choice /\ reply.calls # <<>> -> "wants-tools"
      [] reply.status = 200 /\ reply.choice /\ reply.calls = <<>> /\ malformed(reply.text) ->
           IF recovered # <<>> THEN "wants-tools" ELSE "transient"
      [] OTHER -> IF reply.reason = "length" THEN "length"
                  ELSE IF reply.reason \in {"absent", "stop"} THEN "answered" ELSE "error"

\* No choices to miss and no markup to recover: the blocks are what they are.
anthropic(reply) ==
    CASE reply.status # 200 -> IF isTransientStatus(reply.status) THEN "transient" ELSE "error"
      [] reply.status = 200 /\ reply.calls # <<>> -> "wants-tools"
      [] OTHER -> IF reply.reason = "max_tokens" THEN "length"
                  ELSE IF reply.reason \in {"absent", "end_turn", "stop_sequence"} THEN "answered"
                  ELSE "error"

\* The recording: the first step that matches the Assistant, the Turn and the last message.
ScriptedStep == [assistant : {"any", "this", "other"}, calls : {0, 1}]

scripted(steps) ==
    LET matching == SelectSeq(steps, LAMBDA s : s.assistant # "other") IN
    IF matching = <<>> THEN "error"
    ELSE IF Head(matching).calls > 0 THEN "wants-tools" ELSE "answered"

----------------------------------------------------------------------------
(* Cost: a floor, so nothing that is reported may lower it. *)

\* Two finite numbers that are not negative, or nothing at all.
operationUsage(usage) ==
    IF usage.prompt >= 0 /\ usage.completion >= 0 THEN usage ELSE [prompt |-> 0, completion |-> 0]

addUsage(entry, usage) ==
    [prompt |-> entry.prompt + operationUsage(usage).prompt,
     completion |-> entry.completion + operationUsage(usage).completion]

----------------------------------------------------------------------------
(* The profiles of llm.json. *)

\* A name the file defines, what it says, and whether .env has a key for it.
RawProfile == [provider : {"openai", "anthropic", "scripted", "bad"}, model : BOOLEAN,
               temperature : {"unset", "number", "bad"}, systemSuffix : {"unset", "text", "bad"},
               name : {"good", "bad"}, requiresKey : BOOLEAN, key : BOOLEAN]

Refused == [provider |-> "refused"]
NoProfile == [provider |-> "none"]

resolveProfile(profiles, selected) ==
    LET raw == profiles[selected] IN
    IF /\ selected \in DOMAIN profiles
       /\ raw.name = "good"
       /\ raw.provider # "bad"
       /\ raw.provider # "scripted" => raw.model
       /\ raw.temperature # "bad"
       /\ raw.systemSuffix # "bad"
       /\ (raw.provider # "scripted" /\ raw.requiresKey) => raw.key
    THEN raw ELSE Refused

\* A file that is missing, is no JSON or defines no profiles is refused for both selectors.
readCatalogue(file) == file.readable /\ DOMAIN file.profiles # {}

loadLlmProfile(file) ==
    IF readCatalogue(file) /\ file.active # "unset" THEN resolveProfile(file.profiles, file.active) ELSE Refused

\* No vision key is no error: there is no such profile.
loadVisionProfile(file) ==
    IF ~readCatalogue(file) \/ file.vision = "empty" THEN Refused
    ELSE IF file.vision = "unset" THEN NoProfile
    ELSE resolveProfile(file.profiles, file.vision)

=============================================================================
