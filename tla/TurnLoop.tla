------------------------------ MODULE TurnLoop ------------------------------
(***************************************************************************)
(* One Conversation of the Runtime, from the scan that picks it up to the  *)
(* write that puts it back (runtime/src/loop/advance.ts, and the scans of  *)
(* runtime/src/watcher/watcher.ts that resume a Conversation).             *)
(*                                                                         *)
(* The Runtime is one sequential process without durable memory: it reads  *)
(* the stored Conversation conv into a copy mem, works on the copy, and    *)
(* writes the whole copy back at a few places.  What can interleave with a *)
(* Turn is the User (answering, re-answering and deleting Open Questions,  *)
(* switching Operations and the Assistant on and off), the failures of the *)
(* model and of the Bookkeeping Authority, and a crash, which drops the    *)
(* copy and keeps the store, the Open Questions and the ledger.  A throw   *)
(* out of a Turn (runTurn swallows it) has exactly the effect of a crash.  *)
(*                                                                         *)
(* Abstractions.  A transcript position is its seq: entries are only ever  *)
(* appended and nextSeq is one more than the highest.  The arguments of a  *)
(* booking and their canonical hash are one value of Args.  A question is  *)
(* named by its idempotency key, which is what create() searches for.      *)
(* Texts, usage and timestamps are left out; a lease is none, live or      *)
(* expired.  Four Operations stand for the catalogue: "post" (mutating,    *)
(* behind an approval, with a reconcile of its own), "ask" and "perform"   *)
(* (ui.askUser and the Manual Connectors: they raise a question and are    *)
(* pending) and "read" (not mutating).                                     *)
(***************************************************************************)
EXTENDS Naturals, Sequences, FiniteSets

CONSTANTS
    Args,            \* the argument sets a booking can be called with
    NoArgs,          \* "no arguments recorded"
    Replies,         \* sequences of tool calls the model may answer with
    MaxTurns,        \* maxTurns a Conversation is born with
    TurnGrant,       \* TURN_GRANT_ON_ESCALATION
    MaxEscalations,  \* maxEscalations
    LlmMaxAttempts,  \* llmMaxAttempts
    MaxEntries,      \* MAX_ENTRIES: rows the Model lets a Conversation hold
    EntryHeadroom,   \* ENTRY_HEADROOM
    Tagged,          \* do postings name the Thing they are about (thingId)?
    Faults,          \* what may go wrong: see FaultKinds
    MaxCrashes,      \* bound on crashes
    MaxEdits         \* bound on what the User does

Ops == {"post", "ask", "perform", "read"}

\* "crash": the Runtime dies.  "llm": the model fails.  "refused": a posting is
\* rejected and not booked.  "lost": a posting is booked and its answer never
\* arrives.  "blind": the Authority cannot be reached while reconciling.
\* "switch": the User switches Operations off and on.  "assistant": the User
\* disables, enables or deletes the Assistant.  "delete": the User deletes
\* questions.
FaultKinds ==
    {"crash", "llm", "refused", "lost", "blind", "switch", "assistant", "delete"}

QuestionKey ==
    [kind : {"none", "approval", "escalation", "call"},
     args : Args \cup {NoArgs},
     n    : Nat]

NoQuestion == [kind |-> "none", args |-> NoArgs, n |-> 0]

Call == [op : Ops, args : Args \cup {NoArgs}]

Entry ==
    [kind : {"prompt", "assistant", "error", "answer", "intent", "result", "request"},
     op   : Ops \cup {"none"},
     args : Args \cup {NoArgs},
     key  : Nat,
     q    : QuestionKey]

Conversation ==
    [status      : {"running", "waiting", "done", "failed"},
     waitingFor  : {"", "user", "tool"},
     question    : QuestionKey,
     lease       : {"none", "live", "expired"},
     turns       : Nat,
     maxTurns    : Nat,
     escalations : Nat,
     entries     : Seq(Entry)]

Booking == [key : Nat, args : Args, auth : QuestionKey]

ASSUME ConstantsAssumption ==
    /\ NoArgs \notin Args
    /\ Replies \subseteq Seq(Call)
    /\ \A r \in Replies : \A i \in 1..Len(r) : r[i].op = "post" => r[i].args \in Args
    /\ MaxTurns \in Nat /\ TurnGrant \in Nat /\ MaxEscalations \in Nat
    /\ LlmMaxAttempts \in Nat \ {0}
    /\ MaxEntries \in Nat /\ EntryHeadroom \in Nat
    /\ Tagged \in BOOLEAN
    /\ Faults \subseteq FaultKinds
    /\ MaxCrashes \in Nat /\ MaxEdits \in Nat

VARIABLES
    conv,       \* the stored Conversation
    mem,        \* the Runtime's copy of it while a Turn runs
    pc,         \* where the Runtime is
    turn,       \* the Turn's locals: attempt, granted, calls, auth
    questions,  \* raised Open Questions and what the User put in them
    ledger,     \* what the Bookkeeping Authority has booked
    catalogue,  \* the Operations that are enabled
    assistant,  \* the Assistant: "enabled", "disabled" or "gone"
    yeses,      \* history: the approval questions ever answered with a yes
    crashes, edits

vars == <<conv, mem, pc, turn, questions, ledger, catalogue, assistant,
          yeses, crashes, edits>>

world == <<catalogue, assistant, yeses, crashes, edits>>

-----------------------------------------------------------------------------
(***************************************************************************)
(* Transcript                                                              *)
(***************************************************************************)

Row(kind) ==
    [kind |-> kind, op |-> "none", args |-> NoArgs, key |-> 0, q |-> NoQuestion]

IntentRow(c, key) == [Row("intent") EXCEPT !.op = c.op, !.args = c.args, !.key = key]

\* args is the hash stampSpentApproval puts on the result, or NoArgs.
ResultRow(op, key, args) ==
    [Row("result") EXCEPT !.op = op, !.key = key, !.args = args]

RequestRow(a, q) == [Row("request") EXCEPT !.op = "post", !.args = a, !.q = q]

AnswerRow(q) == [Row("answer") EXCEPT !.q = q]

appendEntry(m, row) == [m EXCEPT !.entries = Append(@, row)]

Positions(e, kind) == {i \in 1..Len(e) : e[i].kind = kind}

Resolved(e, key) == \E i \in Positions(e, "result") : e[i].key = key

Unresolved(e) == {i \in Positions(e, "intent") : ~Resolved(e, e[i].key)}

\* The first tool intent that has no result.
unresolvedIntent(e) ==
    CHOOSE i \in Unresolved(e) : \A j \in Unresolved(e) : i <= j

\* No Turn starts unless the rows it may write fit.
isFull(m) == Len(m.entries) + EntryHeadroom > MaxEntries

-----------------------------------------------------------------------------
(***************************************************************************)
(* Store                                                                   *)
(***************************************************************************)

NoTurn == [attempt |-> 1, granted |-> {}, calls |-> <<>>, auth |-> NoQuestion]

\* A Conversation with more rows than the Model's Entries group allows is
\* refused by the store.
Fits(m) == Len(m.entries) <= MaxEntries

\* Put the Runtime back between Turns with store s.
Return(s) == conv' = s /\ mem' = s /\ pc' = "idle" /\ turn' = NoTurn

\* Write m back and go on to step next, with t for the Turn's locals; a
\* refused write throws, and the throw ends the Turn.
Write(m, next, t) ==
    IF Fits(m) THEN /\ conv' = m
                    /\ mem' = m
                    /\ pc' = next
                    /\ turn' = t
               ELSE Return(conv)

WriteAndReturn(m) == IF Fits(m) THEN Return(m) ELSE Return(conv)

\* createQuestion: search for the key, create on a miss.
Raise(q) ==
    questions' = [k \in DOMAIN questions \cup {q} |->
                     IF k \in DOMAIN questions THEN questions[k] ELSE "open"]

\* The question is raised first; m is written in the next step.
RaiseThenWrite(q, m) ==
    /\ Raise(q)
    /\ mem' = m
    /\ pc' = "writing"
    /\ UNCHANGED <<conv, turn>>

WriteBack ==
    /\ pc = "writing"
    /\ WriteAndReturn(mem)
    /\ UNCHANGED <<questions, ledger, world>>

-----------------------------------------------------------------------------
(***************************************************************************)
(* Suspending and escalating                                               *)
(***************************************************************************)

suspended(m, waitingFor, q) ==
    [m EXCEPT !.status = "waiting", !.waitingFor = waitingFor,
              !.question = q, !.lease = "none"]

EscalationKey(n) == [kind |-> "escalation", args |-> NoArgs, n |-> n]

CallKey(n) == [kind |-> "call", args |-> NoArgs, n |-> n]

\* A stuck Conversation becomes an Open Question, or fails once it has asked
\* MaxEscalations times.
escalateByKey(m) ==
    LET n == m.escalations + 1
        e == [appendEntry(m, Row("error")) EXCEPT !.escalations = n]
    IN  IF n > MaxEscalations
        THEN /\ WriteAndReturn([e EXCEPT !.status = "failed", !.lease = "none",
                                         !.question = NoQuestion])
             /\ UNCHANGED questions
        ELSE RaiseThenWrite(EscalationKey(n), suspended(e, "user", EscalationKey(n)))

-----------------------------------------------------------------------------
(***************************************************************************)
(* The scans that resume a Conversation                                    *)
(***************************************************************************)

Answered == {"yes", "no", "text"}

\* Take a Turn on what scan s has just written.
RunTurn(s) == conv' = s /\ mem' = s /\ pc' = "advance" /\ turn' = NoTurn

\* Slip: only Conversations that wait for the User are swept.
scanAnswered_UserOnly ==
    LET q == conv.question
        row == IF q \in DOMAIN questions THEN AnswerRow(q) ELSE Row("error")
        resumed == [appendEntry(conv, row) EXCEPT !.status = "running",
                                                 !.waitingFor = "",
                                                 !.question = NoQuestion]
    IN  /\ pc = "idle"
        /\ conv.status = "waiting"
        /\ conv.waitingFor = "user"
        /\ q # NoQuestion
        /\ q \in DOMAIN questions => questions[q] \in Answered
        /\ Fits(resumed)
        /\ RunTurn(resumed)
        /\ UNCHANGED <<questions, ledger, world>>

\* Scan 2.  The User has answered, or has deleted the question.  A row that no
\* longer fits makes the update throw: the scan changes nothing.
scanAnswered ==
    LET q == conv.question
        row == IF q \in DOMAIN questions THEN AnswerRow(q) ELSE Row("error")
        resumed == [appendEntry(conv, row) EXCEPT !.status = "running",
                                                 !.waitingFor = "",
                                                 !.question = NoQuestion]
    IN  /\ pc = "idle"
        /\ conv.status = "waiting"
        /\ conv.waitingFor \in {"user", "tool"}
        /\ q # NoQuestion
        /\ q \in DOMAIN questions => questions[q] \in Answered
        /\ Fits(resumed)
        /\ RunTurn(resumed)
        /\ UNCHANGED <<questions, ledger, world>>

\* Scan 4.  The Runtime died mid-Turn and the lease has run out.
scanExpiredLeases ==
    /\ pc = "idle"
    /\ conv.status = "running"
    /\ conv.lease = "expired"
    /\ RunTurn([conv EXCEPT !.lease = "none"])
    /\ UNCHANGED <<questions, ledger, world>>

\* Slip: one that has used up its Turns is passed over as well.
scanRunnable_TurnsLeft ==
    /\ pc = "idle"
    /\ conv.status = "running"
    /\ conv.lease = "none"
    /\ assistant = "enabled"
    /\ conv.turns < conv.maxTurns
    /\ RunTurn(conv)
    /\ UNCHANGED <<questions, ledger, world>>

\* Scan 6.  A running Conversation that needs its next Turn; one whose
\* Assistant is disabled or gone is passed over.
scanRunnable ==
    /\ pc = "idle"
    /\ conv.status = "running"
    /\ conv.lease = "none"
    /\ assistant = "enabled"
    /\ RunTurn(conv)
    /\ UNCHANGED <<questions, ledger, world>>

-----------------------------------------------------------------------------
(***************************************************************************)
(* advance(): the guards before a Turn                                     *)
(***************************************************************************)

\* Finished or leased elsewhere: advance returns and nothing changes.
claimLease(m) == m.status \notin {"done", "failed"} /\ m.lease # "live"

Claimed == [mem EXCEPT !.lease = "live"]

\* Slip: the oldest row makes room for the epitaph.
endBecauseFull_DropsOldest ==
    /\ pc = "advance"
    /\ claimLease(mem)
    /\ isFull(mem)
    /\ WriteAndReturn([mem EXCEPT !.status = "failed", !.waitingFor = "",
                                  !.lease = "none", !.question = NoQuestion,
                                  !.entries = Append(Tail(@), Row("error"))])
    /\ UNCHANGED <<questions, ledger, world>>

\* A full Conversation fails; the reason is appended only if it fits.
endBecauseFull ==
    LET m == IF Len(mem.entries) < MaxEntries THEN appendEntry(mem, Row("error")) ELSE mem
    IN  /\ pc = "advance"
        /\ claimLease(mem)
        /\ isFull(mem)
        /\ WriteAndReturn([m EXCEPT !.status = "failed", !.waitingFor = "",
                                    !.lease = "none", !.question = NoQuestion])
        /\ UNCHANGED <<questions, ledger, world>>

UnknownAssistant ==
    /\ pc = "advance"
    /\ claimLease(mem)
    /\ ~isFull(mem)
    /\ assistant = "gone"
    /\ escalateByKey(Claimed)
    /\ UNCHANGED <<ledger, world>>

DisabledAssistant ==
    /\ pc = "advance"
    /\ claimLease(mem)
    /\ ~isFull(mem)
    /\ assistant = "disabled"
    /\ WriteAndReturn([mem EXCEPT !.lease = "none"])
    /\ UNCHANGED <<questions, ledger, world>>

\* The question is answerable because the answer buys TurnGrant more Turns.
TurnsExhausted ==
    /\ pc = "advance"
    /\ claimLease(mem)
    /\ ~isFull(mem)
    /\ assistant = "enabled"
    /\ mem.turns >= mem.maxTurns
    /\ escalateByKey([Claimed EXCEPT !.maxTurns = @ + TurnGrant])
    /\ UNCHANGED <<ledger, world>>

\* Slip: the Turn starts without looking for an interrupted call.
BeginTurn_SkipsReconcile ==
    /\ pc = "advance"
    /\ claimLease(mem)
    /\ ~isFull(mem)
    /\ assistant = "enabled"
    /\ mem.turns < mem.maxTurns
    /\ mem' = [Claimed EXCEPT !.status = "running", !.waitingFor = ""]
    /\ turn' = [NoTurn EXCEPT !.granted = catalogue]
    /\ pc' = "thinking"
    /\ UNCHANGED <<conv, questions, ledger, world>>

\* One read of the catalogue serves the whole Turn.
BeginTurn ==
    /\ pc = "advance"
    /\ claimLease(mem)
    /\ ~isFull(mem)
    /\ assistant = "enabled"
    /\ mem.turns < mem.maxTurns
    /\ mem' = [Claimed EXCEPT !.status = "running", !.waitingFor = ""]
    /\ turn' = [NoTurn EXCEPT !.granted = catalogue]
    /\ pc' = IF Unresolved(mem.entries) = {} THEN "thinking" ELSE "reconciling"
    /\ UNCHANGED <<conv, questions, ledger, world>>

-----------------------------------------------------------------------------
(***************************************************************************)
(* reconcile(): an interrupted call, before a new Turn                     *)
(***************************************************************************)

Interrupted == mem.entries[unresolvedIntent(mem.entries)]

\* Slip: a reconciled call does not spend its approval.
settle_Unstamped(args) ==
    /\ Write(appendEntry(mem, ResultRow(Interrupted.op, Interrupted.key, NoArgs)),
             "thinking", turn)
    /\ UNCHANGED <<questions, ledger, world>>

\* Record the verdict and take the Turn.
settle(args) ==
    /\ Write(appendEntry(mem, ResultRow(Interrupted.op, Interrupted.key, args)),
             "thinking", turn)
    /\ UNCHANGED <<questions, ledger, world>>

\* The Operation is switched off or no longer granted: "it did not take effect".
ReconcileUnavailable ==
    /\ pc = "reconciling"
    /\ Interrupted.op \notin turn.granted
    /\ settle(NoArgs)

ReconcileRead ==
    /\ pc = "reconciling"
    /\ Interrupted.op = "read"
    /\ Interrupted.op \in turn.granted
    /\ settle(NoArgs)

\* postTransaction.reconcile looks the key up.  Landed: a value, which spends
\* the approval.  Not there: an error.  A Dynamic Operation that cannot reach
\* its Authority is an error too, whether the posting landed or not.
ReconcilePost ==
    LET landed == \E b \in ledger : b.key = Interrupted.key
    IN  /\ pc = "reconciling"
        /\ Interrupted.op = "post"
        /\ Interrupted.op \in turn.granted
        /\ \/ settle(IF landed THEN Interrupted.args ELSE NoArgs)
           \/ "blind" \in Faults /\ settle(NoArgs)

\* ui.askUser and the Manual Connectors look for the question.  Answered: a
\* value.  Open: the suspension still holds.  Not there, or the search threw:
\* nobody can say, so the call is recorded as unknown and the User is asked.
ReconcileQuestion ==
    LET q == CallKey(Interrupted.key)
        settled == appendEntry(mem, ResultRow(Interrupted.op, Interrupted.key, NoArgs))
    IN  /\ pc = "reconciling"
        /\ Interrupted.op \in {"ask", "perform"}
        /\ Interrupted.op \in turn.granted
        /\ UNCHANGED <<ledger, world>>
        /\ \/ /\ q \notin DOMAIN questions \/ "blind" \in Faults
              /\ escalateByKey(settled)
           \/ /\ q \in DOMAIN questions
              /\ questions[q] \in Answered
              /\ Write(settled, "thinking", turn)
              /\ UNCHANGED questions
           \/ /\ q \in DOMAIN questions
              /\ questions[q] \notin Answered
              /\ WriteAndReturn(suspended(settled,
                     IF Interrupted.op = "ask" THEN "user" ELSE "tool", q))
              /\ UNCHANGED questions

-----------------------------------------------------------------------------
(***************************************************************************)
(* callLlmWithRetries(): the model answers                                 *)
(***************************************************************************)

\* Each transient failure is a row; the last one escalates.
LlmTransientError ==
    /\ pc = "thinking"
    /\ "llm" \in Faults
    /\ LET m == appendEntry(mem, Row("error"))
       IN  IF turn.attempt < LlmMaxAttempts
           THEN /\ mem' = m
                /\ turn' = [turn EXCEPT !.attempt = @ + 1]
                /\ UNCHANGED <<conv, pc, questions>>
           ELSE escalateByKey(m)
    /\ UNCHANGED <<ledger, world>>

\* Not transient (thrown: the Turn is not counted), or a response that says error.
LlmError ==
    /\ pc = "thinking"
    /\ "llm" \in Faults
    /\ \/ escalateByKey(mem)
       \/ escalateByKey([mem EXCEPT !.turns = @ + 1])
    /\ UNCHANGED <<ledger, world>>

LlmFinishes ==
    /\ pc = "thinking"
    /\ WriteAndReturn([appendEntry(mem, Row("assistant")) EXCEPT
                          !.turns = @ + 1, !.status = "done", !.lease = "none"])
    /\ UNCHANGED <<questions, ledger, world>>

LlmWantsTools ==
    /\ pc = "thinking"
    /\ \E r \in Replies : turn' = [turn EXCEPT !.calls = r]
    /\ mem' = [mem EXCEPT !.turns = @ + 1]
    /\ pc' = "calling"
    /\ UNCHANGED <<conv, questions, ledger, world>>

-----------------------------------------------------------------------------
(***************************************************************************)
(* Tool calls                                                              *)
(***************************************************************************)

\* Slip: the intent is appended and written with its result.
WriteIntent_InMemory ==
    /\ pc = "calling"
    /\ turn.calls # <<>>
    /\ LET c == Head(turn.calls)
       IN  /\ mem' = appendEntry(mem, IntentRow(c, Len(mem.entries) + 1))
           /\ pc' = IF c.op \notin turn.granted THEN "refusing"
                    ELSE IF c.op = "post" THEN "gating" ELSE "executing"
    /\ UNCHANGED <<conv, turn, questions, ledger, world>>

\* The intent is written before anything is done, and the lease with it.
WriteIntent ==
    /\ pc = "calling"
    /\ turn.calls # <<>>
    /\ LET c == Head(turn.calls)
       IN  Write(appendEntry(mem, IntentRow(c, Len(mem.entries) + 1)),
                 IF c.op \notin turn.granted THEN "refusing"
                 ELSE IF c.op = "post" THEN "gating" ELSE "executing",
                 turn)
    /\ UNCHANGED <<questions, ledger, world>>

\* The call now in hand: its intent is the last row of the transcript.
Current == Head(turn.calls)

CurrentKey == mem.entries[Len(mem.entries)].key

\* Record the result of the call in hand, in memory, and go on to the next one.
Record(args) ==
    /\ mem' = appendEntry(mem, ResultRow(Current.op, CurrentKey, args))
    /\ turn' = [turn EXCEPT !.calls = Tail(@), !.auth = NoQuestion]
    /\ pc' = "calling"
    /\ UNCHANGED conv

RefuseUnresolved ==
    /\ pc = "refusing"
    /\ Record(NoArgs)
    /\ UNCHANGED <<questions, ledger, world>>

EndTurn ==
    /\ pc = "calling"
    /\ turn.calls = <<>>
    /\ WriteAndReturn([mem EXCEPT !.lease = "none", !.status = "running"])
    /\ UNCHANGED <<questions, ledger, world>>

-----------------------------------------------------------------------------
(***************************************************************************)
(* The approval gate                                                       *)
(***************************************************************************)

approvalRequestsFor(e, a) == {i \in Positions(e, "request") : e[i].args = a}

LastRequest(e, a) ==
    CHOOSE i \in approvalRequestsFor(e, a) : \A j \in approvalRequestsFor(e, a) : j <= i

AnswersTo(e, q) == {i \in Positions(e, "answer") : e[i].q = q}

FirstAnswer(e, q) ==
    CHOOSE i \in AnswersTo(e, q) : \A j \in AnswersTo(e, q) : i <= j

\* Slip: a yes is never used up.
Spent_Never(e, a, q) == FALSE

\* Spent means executed: a result stamped with these arguments after the answer.
Spent(e, a, q) ==
    \E i \in Positions(e, "result") :
        e[i].op = "post" /\ e[i].args = a /\ i > FirstAnswer(e, q)

\* Slip: any answer counts, as it does for the watcher.
findApproval_AnyAnswer(e, a) ==
    LET q == e[LastRequest(e, a)].q
    IN  CASE approvalRequestsFor(e, a) = {} -> "missing"
          [] OTHER ->
             IF q \notin DOMAIN questions THEN "missing"
             ELSE IF questions[q] = "no" THEN "declined"
             ELSE IF questions[q] = "open" THEN "waiting"
             ELSE IF AnswersTo(e, q) = {} THEN "waiting"
             ELSE IF Spent(e, a, q) THEN "consumed" ELSE "valid"

findApproval(e, a) ==
    LET q == e[LastRequest(e, a)].q
    IN  CASE approvalRequestsFor(e, a) = {} -> "missing"
          [] OTHER ->
             IF q \notin DOMAIN questions THEN "missing"
             ELSE IF questions[q] \in {"no", "text"} THEN "declined"
             ELSE IF questions[q] = "open" THEN "waiting"
             ELSE IF AnswersTo(e, q) = {} THEN "waiting"
             ELSE IF Spent(e, a, q) THEN "consumed" ELSE "valid"

\* Slip: the key follows the entry sequence.
ApprovalKey_BySeq(e, a) == [kind |-> "approval", args |-> a, n |-> Len(e)]

\* The key counts the attempts for these arguments.
ApprovalKey(e, a) ==
    [kind |-> "approval", args |-> a, n |-> Cardinality(approvalRequestsFor(e, a)) + 1]

\* The pending result of the call in hand, on question q.
Pending(m, waitingFor, q) ==
    suspended(appendEntry(m, ResultRow(Current.op, CurrentKey, NoArgs)), waitingFor, q)

gateOnApproval ==
    LET e == mem.entries
        a == Current.args
        state == findApproval(e, a)
        q == e[LastRequest(e, a)].q
    IN  /\ pc = "gating"
        /\ UNCHANGED <<ledger, world>>
        /\ \/ /\ state = "valid"
              /\ turn' = [turn EXCEPT !.auth = q]
              /\ pc' = "executing"
              /\ UNCHANGED <<conv, mem, questions>>
           \/ /\ state = "declined"
              /\ Record(NoArgs)
              /\ UNCHANGED questions
           \/ /\ state = "waiting"
              /\ WriteAndReturn(Pending(mem, "user", q))
              /\ UNCHANGED questions

\* The question is created before the request is recorded: a crash in between
\* leaves a question that the retry finds again under the same key.
raiseApproval ==
    LET e == mem.entries
        a == Current.args
        q == ApprovalKey(e, a)
    IN  /\ pc = "gating"
        /\ findApproval(e, a) \in {"missing", "consumed"}
        /\ Raise(q)
        /\ mem' = [Pending(mem, "user", q) EXCEPT !.entries =
                      e \o <<RequestRow(a, q), ResultRow("post", CurrentKey, NoArgs)>>]
        /\ pc' = "writing"
        /\ UNCHANGED <<conv, turn, ledger, world>>

-----------------------------------------------------------------------------
(***************************************************************************)
(* execute()                                                               *)
(***************************************************************************)

\* Slip: the Thing's tag is not searched.
AlreadyBooked_KeyOnly(key, a) == \E b \in ledger : b.key = key

\* postTransaction.execute: search, then book.  A posting that names its Thing
\* is also recognised when it was booked under another key.
AlreadyBooked(key, a) ==
    \E b \in ledger : b.key = key \/ (Tagged /\ b.args = a)

ExecutePost ==
    LET a == Current.args
        booking == [key |-> CurrentKey, args |-> a, auth |-> turn.auth]
    IN  /\ pc = "executing"
        /\ Current.op = "post"
        /\ \/ /\ AlreadyBooked(CurrentKey, a)
              /\ Record(a)
              /\ UNCHANGED ledger
           \/ /\ ~AlreadyBooked(CurrentKey, a)
              /\ ledger' = ledger \cup {booking}
              /\ \/ Record(a)
                 \/ "lost" \in Faults /\ Record(NoArgs)
           \/ /\ "refused" \in Faults
              /\ Record(NoArgs)
              /\ UNCHANGED ledger
        /\ UNCHANGED <<questions, world>>

\* The question is raised and the call is pending on it.  ui.askUser refuses a
\* call without a prompt; a create whose answer is lost throws, and the model is
\* told of an error while the question stands.
ExecuteQuestion ==
    LET q == CallKey(CurrentKey)
        waitingFor == IF Current.op = "ask" THEN "user" ELSE "tool"
    IN  /\ pc = "executing"
        /\ Current.op \in {"ask", "perform"}
        /\ \/ RaiseThenWrite(q, Pending(mem, waitingFor, q))
           \/ Current.op = "ask" /\ Record(NoArgs) /\ UNCHANGED questions
           \/ "lost" \in Faults /\ Raise(q) /\ Record(NoArgs)
        /\ UNCHANGED <<ledger, world>>

ExecuteRead ==
    /\ pc = "executing"
    /\ Current.op = "read"
    /\ Record(NoArgs)
    /\ UNCHANGED <<questions, ledger, world>>

-----------------------------------------------------------------------------
(***************************************************************************)
(* The environment                                                         *)
(***************************************************************************)

\* Nobody but a later scan reads the stored lease, so it is enough that it may
\* run out between Turns.
LeaseExpires ==
    /\ pc = "idle"
    /\ conv.lease = "live"
    /\ Return([conv EXCEPT !.lease = "expired"])
    /\ UNCHANGED <<questions, ledger, world>>

Crash ==
    /\ "crash" \in Faults
    /\ pc # "idle"
    /\ crashes < MaxCrashes
    /\ crashes' = crashes + 1
    /\ Return(conv)
    /\ UNCHANGED <<questions, ledger, catalogue, assistant, yeses, edits>>

\* The User saves a question's form.  An answer may be changed by saving again.
UserAnswers(q, a) ==
    /\ edits < MaxEdits
    /\ edits' = edits + 1
    /\ q \in DOMAIN questions
    /\ questions[q] # a
    /\ questions' = [questions EXCEPT ![q] = a]
    /\ yeses' = IF a = "yes" /\ q.kind = "approval" THEN yeses \cup {q} ELSE yeses
    /\ UNCHANGED <<conv, mem, pc, turn, ledger, catalogue, assistant, crashes>>

UserDeletes(q) ==
    /\ "delete" \in Faults
    /\ edits < MaxEdits
    /\ edits' = edits + 1
    /\ q \in DOMAIN questions
    /\ questions' = [k \in DOMAIN questions \ {q} |-> questions[k]]
    /\ UNCHANGED <<conv, mem, pc, turn, ledger, catalogue, assistant, yeses, crashes>>

UserSwitches(op) ==
    /\ "switch" \in Faults
    /\ edits < MaxEdits
    /\ edits' = edits + 1
    /\ catalogue' = IF op \in catalogue THEN catalogue \ {op} ELSE catalogue \cup {op}
    /\ UNCHANGED <<conv, mem, pc, turn, questions, ledger, assistant, yeses, crashes>>

UserSetsAssistant(a) ==
    /\ "assistant" \in Faults
    /\ edits < MaxEdits
    /\ edits' = edits + 1
    /\ assistant' = a
    /\ assistant # a
    /\ UNCHANGED <<conv, mem, pc, turn, questions, ledger, catalogue, yeses, crashes>>

-----------------------------------------------------------------------------

\* birth(): running, no lease, one prompt.
Born ==
    [status |-> "running", waitingFor |-> "", question |-> NoQuestion, lease |-> "none",
     turns |-> 0, maxTurns |-> MaxTurns, escalations |-> 0, entries |-> <<Row("prompt")>>]

Init ==
    /\ conv = Born
    /\ mem = Born
    /\ pc = "idle"
    /\ turn = NoTurn
    /\ questions = [k \in {} |-> "open"]
    /\ ledger = {}
    /\ catalogue = Ops
    /\ assistant = "enabled"
    /\ yeses = {}
    /\ crashes = 0
    /\ edits = 0

Scan == scanAnswered \/ scanExpiredLeases \/ scanRunnable

Guards == endBecauseFull \/ UnknownAssistant \/ DisabledAssistant \/ TurnsExhausted \/ BeginTurn

reconcile == ReconcileUnavailable \/ ReconcileRead \/ ReconcilePost \/ ReconcileQuestion

Llm == LlmTransientError \/ LlmError \/ LlmFinishes \/ LlmWantsTools

Calls == WriteIntent \/ RefuseUnresolved \/ gateOnApproval \/ raiseApproval
         \/ ExecutePost \/ ExecuteQuestion \/ ExecuteRead \/ EndTurn

Runtime == Scan \/ Guards \/ reconcile \/ Llm \/ Calls \/ WriteBack

User ==
    \/ \E q \in DOMAIN questions : UserDeletes(q) \/ \E a \in Answered : UserAnswers(q, a)
    \/ \E op \in Ops : UserSwitches(op)
    \/ \E a \in {"enabled", "disabled", "gone"} : UserSetsAssistant(a)

Next == Runtime \/ LeaseExpires \/ Crash \/ User

Spec == Init /\ [][Next]_vars

\* The scan loop runs for ever and a Turn's awaits all return or throw (every
\* client call has a timeout); leases are wall-clock time.  The User owes nothing.
FairSpec == Spec /\ WF_vars(Runtime) /\ WF_vars(LeaseExpires)
-----------------------------------------------------------------------------
(***************************************************************************)
(* Properties                                                              *)
(***************************************************************************)

Approved == INSTANCE ApprovedLedger WITH yes <- yeses, ledger <- ledger

\* Every variable has the shape the code gives it.
TypeOK ==
    /\ conv \in Conversation
    /\ mem \in Conversation
    /\ pc \in {"idle", "advance", "reconciling", "thinking", "calling", "refusing",
               "gating", "executing", "writing"}
    /\ turn \in [attempt : 1..LlmMaxAttempts, granted : SUBSET Ops, calls : Seq(Call),
                 auth : QuestionKey]
    /\ DOMAIN questions \subseteq QuestionKey
    /\ \A q \in DOMAIN questions : questions[q] \in Answered \cup {"open"}
    /\ ledger \subseteq Booking
    /\ catalogue \subseteq Ops
    /\ assistant \in {"enabled", "disabled", "gone"}
    /\ yeses \subseteq QuestionKey
    /\ crashes \in Nat /\ edits \in Nat

\* ADR-0012, write-ahead: whatever the Authority has booked, the stored
\* transcript already names it, under the key it was booked with.
IntentIsDurable ==
    \A b \in ledger :
        /\ b.key \in 1..Len(conv.entries)
        /\ conv.entries[b.key] = IntentRow([op |-> "post", args |-> b.args], b.key)

\* ADR-0018: a booking rests on a question about these very arguments that the
\* User answered with an explicit yes, and whose answer was in the transcript
\* before the call was made.
BookingHasYes ==
    \A b \in ledger :
        /\ b.auth \in yeses
        /\ b.auth.args = b.args
        /\ \E i \in 1..(b.key - 1) : conv.entries[i] = AnswerRow(b.auth)

\* ADR-0018: "Two identical bookings therefore need two approvals": no yes
\* authorises two bookings, whatever is interrupted, retried or re-answered.
OneBookingPerYes ==
    \A b1, b2 \in ledger : b1.auth = b2.auth => b1 = b2

\* Recovery has one interrupted call to settle, never a queue of them:
\* unresolvedIntent() returns the first and the Turn goes on after it.
AtMostOneUnresolved == Cardinality(Unresolved(conv.entries)) <= 1

\* A Conversation never finishes with a call whose outcome nobody looked up.
DoneMeansSettled == conv.status = "done" => Unresolved(conv.entries) = {}

\* One decision, one row on the User's list: crashes between raising an
\* approval and recording it never leave two open questions for one booking.
OneOpenApproval ==
    \A q1, q2 \in DOMAIN questions :
        /\ q1.kind = "approval" /\ q2.kind = "approval"
        /\ q1.args = q2.args
        /\ questions[q1] = "open" /\ questions[q2] = "open"
        => q1 = q2

\* The transcript is a log: no write of an older copy ever takes a row back.
TranscriptOnlyGrows ==
    [][ /\ Len(conv.entries) <= Len(conv'.entries)
        /\ \A i \in 1..Len(conv.entries) : conv'.entries[i] = conv.entries[i] ]_conv

\* With the Thing named, the same posting is booked once, however many answers
\* get lost, however blind recovery is and however often the User says yes
\* (postTransaction.ts: "Safe to retry, three ways").
OneBookingPerPosting ==
    Tagged => \A b1, b2 \in ledger : b1.args = b2.args => b1 = b2

\* The books change only as ApprovedLedger allows.
ImplementsApprovedLedger == Approved!Spec

\* A question that has been answered or deleted resumes its Conversation.
AnsweredIsResumed ==
    (/\ conv.status = "waiting"
     /\ conv.question \in DOMAIN questions => questions[conv.question] \in Answered)
    ~> conv.status # "waiting"

\* ADR-0015, nothing ends silently: a running Conversation comes to rest where
\* the User can see it - waiting on a question, done, or failed - even if the
\* Runtime dies, the model fails or the transcript fills up on the way.  The
\* Conversation of an Assistant that is switched off or deleted is left alone.
NothingStaysRunning ==
    conv.status = "running" ~> conv.status # "running" \/ assistant # "enabled"

=============================================================================
