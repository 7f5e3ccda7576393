----------------------------- MODULE Transcript -----------------------------
(***************************************************************************)
(* The two readings of a Conversation's rows: the messages the model is    *)
(* sent (buildMessages and the two providers), and the Receipts the User   *)
(* is shown (the client's conversation/entries.ts).                        *)
(*                                                                         *)
(* Both pair a call with its result, in different ways: a provider by the  *)
(* idempotency key and by position, the client by the tool's name.  What   *)
(* makes either right is what TurnLoop may ever have written.              *)
(***************************************************************************)
EXTENDS TurnLoop, Selection

Message(role, id) == [role |-> role, id |-> id]

\* The request is machine-readable only: it has no text, and so it is no message.
spoken(row) == row.kind # "request"

messageOf(row) ==
    CASE row.kind = "assistant" -> Message("assistant", 0)
      [] row.kind = "intent" -> Message("tool_calls", row.key)
      [] row.kind = "result" -> Message("tool", row.key)
      [] OTHER -> Message("user", 0)                   \* prompt, answer, error, a request

\* The context of a Turn, rebuilt from the transcript.
buildMessages(entries) ==
    LET rows == Pick(entries, {i \in DOMAIN entries : spoken(entries[i])})
    IN  <<Message("system", 0)>> \o [i \in DOMAIN rows |-> messageOf(rows[i])]

\* The vendor's wire: the system prompt travels apart, a result is the user's.
anthropicMessages(messages) ==
    LET rest == Pick(messages, {i \in DOMAIN messages : messages[i].role # "system"})
    IN  [i \in DOMAIN rest |->
           CASE rest[i].role = "tool" -> [role |-> "user", block |-> "tool_result", id |-> rest[i].id]
             [] rest[i].role = "tool_calls" -> [role |-> "assistant", block |-> "tool_use", id |-> rest[i].id]
             [] OTHER -> [role |-> rest[i].role, block |-> "text", id |-> 0]]

\* Here a result keeps a role of its own.
openaiMessages(messages) ==
    [i \in DOMAIN messages |->
       CASE messages[i].role = "tool" -> [role |-> "tool", block |-> "tool_result", id |-> messages[i].id]
         [] messages[i].role = "tool_calls" -> [role |-> "assistant", block |-> "tool_use", id |-> messages[i].id]
         [] OTHER -> [role |-> messages[i].role, block |-> "text", id |-> 0]]

----------------------------------------------------------------------------
(* The client. *)

\* Slip: a call's result is taken to be the row below it.
ownResult_NextRow(entries, i) ==
    {j \in {i + 1} : /\ j <= Len(entries)
                    /\ entries[j].kind = "result" /\ entries[j].op = entries[i].op}

\* The results of the same tool before its next call.
ownResult(entries, i) ==
    {j \in (i + 1)..Len(entries) :
        /\ entries[j].kind = "result" /\ entries[j].op = entries[i].op
        /\ \A k \in (i + 1)..j : ~(entries[k].kind = "intent" /\ entries[k].op = entries[i].op)}

First(set) == IF set = {} THEN 0 ELSE CHOOSE j \in set : \A k \in set : j <= k

\* A call and its first result are one Receipt; asking is speech and opens none, and a
\* result that no call has claimed stands alone.  0 is a missing half.
pairIntoReceipts(entries) ==
    LET calls == {i \in Positions(entries, "intent") : entries[i].op # "ask"}
        paired == {[intent |-> i, result |-> First(ownResult(entries, i))] : i \in calls}
        claimed == {r.result : r \in paired}
    IN  paired \cup {[intent |-> 0, result |-> j] : j \in Positions(entries, "result") \ claimed}

----------------------------------------------------------------------------
(* Properties. *)

Answers(wire, i) == {j \in DOMAIN wire : wire[j].block = "tool_result" /\ wire[j].id = wire[i].id}

\* A guard before the Turn escalates ahead of recovery, so the User's answer may stand
\* between an interrupted call and its result: nothing else does.
OnlyAsked(wire, i, j) == \A k \in (i + 1)..(j - 1) : wire[k].role = "user" /\ wire[k].block = "text"

(***************************************************************************)
(* advance.ts: "a tool call with no tool result is rejected outright by    *)
(* both": whenever the model is about to be called, every call in what it  *)
(* is sent has exactly one result, after it and before the next call, and  *)
(* no result is without its call.  Crashes, switched Operations, deleted   *)
(* questions and failed recoveries are what could leave one out.           *)
(***************************************************************************)
CallsAreAnswered ==
    pc = "thinking" =>
        \A wire \in {anthropicMessages(buildMessages(mem.entries)), openaiMessages(buildMessages(mem.entries))} :
            /\ \A i \in DOMAIN wire : wire[i].block = "tool_use" =>
                 \E j \in DOMAIN wire : Answers(wire, i) = {j} /\ i < j /\ OnlyAsked(wire, i, j)
            /\ \A j \in DOMAIN wire : wire[j].block = "tool_result" =>
                 \E i \in DOMAIN wire : wire[i].block = "tool_use" /\ wire[i].id = wire[j].id

(***************************************************************************)
(* entries.ts: "Pair with this call's OWN result": although it pairs by    *)
(* the tool's name, no Receipt ever shows one call's arguments beside      *)
(* another call's result, and every result is on exactly one Receipt.      *)
(***************************************************************************)
ReceiptIsOwn ==
    LET receipts == pairIntoReceipts(conv.entries) IN
    /\ \A r \in receipts : r.intent # 0 /\ r.result # 0 =>
         conv.entries[r.intent].key = conv.entries[r.result].key
    /\ \A j \in Positions(conv.entries, "result") : conv.entries[j].op # "ask" =>
         \E r \in receipts : r.result = j /\ r.intent # 0

=============================================================================
