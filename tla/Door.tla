-------------------------------- MODULE Door --------------------------------
(***************************************************************************)
(* A read from the browser to Firefly and back: the hooks of the web       *)
(* client, the application server's EXTERNAL_CALL, the Runtime's inbox     *)
(* with its gate.  Behind the gate the Operation Host answers anything     *)
(* or nothing; what it does is in OperationHost.                           *)
(*                                                                         *)
(* The client's hooks share one shape: a view asks when it is opened and   *)
(* when its subject changes, and an answer that finds its view gone is     *)
(* dropped.  They differ in what they keep: a deadline (useExternalCall),  *)
(* a memo (useThingById, useAssistantName), an object URL                  *)
(* (useAttachmentSource).  One view is followed at a time.                 *)
(***************************************************************************)
EXTENDS Registry

CONSTANTS Subjects,     \* Documents, Things, periods: what a view may be about
          Pages,        \* the views of the client this instance opens
          Writers,      \* Operations whose Source writes
          DoorOps,      \* Operations somebody may name in an EXTERNAL_CALL
          MaxAsks,      \* bound on views opened
          MaxEdits      \* bound on edits of Operation Things

VARIABLES
    screen,       \* the view that is open, and what it shows
    read,         \* every read asked for, with how far it has come
    memo,         \* the client's module-level caches
    urls,         \* object URLs that have been created and not revoked
    catalogue,    \* the Operation Things, by key
    edits,        \* edits so far
    deployment    \* what the deployment has set

clientVars == <<screen, read, memo, urls>>
vars == <<clientVars, catalogue, edits, deployment>>

Tiles == {"accounts", "transactions"}
External == Tiles \cup {"rpc"}
Memoised == {"thing", "name"}
Bare == {"assistants", "rpc"}            \* views about nothing in particular

\* A read that nobody has asked for yet.
NoRead == [page |-> "none", subject |-> "none", op |-> "none", stage |-> "none",
           hook |-> "none", answer |-> "none", wasOn |-> FALSE]

Closed == [page |-> "none", subject |-> "none", gen |-> 0, shown |-> "nothing", from |-> 0]

\* The seeds: the two reads are client-readable, what writes is marked as writing.
Seed(op) == [key |-> op, implementation |-> "dynamic", enabled |-> "yes",
             mutating |-> IF op \in Writers THEN "yes" ELSE "no",
             requiresApproval |-> IF op = "postTransaction" THEN "yes" ELSE "no",
             clientReadable |-> IF op \in {"listAccounts", "listTransactions"} THEN "yes" ELSE "unset",
             source |-> "compiles", reconciles |-> op \in Writers,
             egress |-> "bookkeeping", parameters |-> "object"]

Offered == {"listAccounts", "listTransactions"}

\* Nothing that writes is offered as it ships, and code says of itself when it writes.
ASSUME DoorAssumption ==
    /\ MaxAsks \in Nat
    /\ "none" \notin DoorOps
    /\ Writers \cap Offered = {}
    /\ \A op \in Writers : Registered(op) => Code[op].mutating

Init ==
    /\ screen = Closed
    /\ read = [g \in 1..MaxAsks |-> NoRead]
    /\ memo = {}
    /\ urls = {}
    /\ catalogue = [op \in DoorOps |-> {Seed(op)}]
    /\ edits = 0
    /\ deployment \in [secret : {"right"}, serverWide : BOOLEAN, wide : BOOLEAN]
                     \cup [secret : {"wrong", "empty"}, serverWide : {TRUE}, wide : {TRUE}]

On(op, things) == \E t \in things[op] : t.enabled # "no"

----------------------------------------------------------------------------
(* The client. *)

\* The effect's cleanup: the read behind the view is no longer live, its URL is revoked.
Cleaned == urls \ {screen.gen}

OperationOf(page, op) == CASE page = "accounts" -> op = "listAccounts"
                           [] page = "transactions" -> op = "listTransactions"
                           [] page = "rpc" -> op \in DoorOps
                           [] OTHER -> op = "none"

\* The key of an Assistant stands in for its name until, and unless, a name arrives.
Before(page) == IF page = "name" THEN "key" ELSE "loading"

Without(page) == IF page = "name" THEN "key" ELSE "error"

\* A view is opened, or its subject changes: a memo answers at once, anything else is asked.
Open(page, subject, op) ==
    /\ screen.gen < MaxAsks
    /\ OperationOf(page, op)
    /\ subject = "none" <=> page \in Bare
    /\ LET g == screen.gen + 1
           known == page \in Memoised /\ <<page, subject>> \in memo
       IN  /\ screen' = [page |-> page, subject |-> subject, gen |-> g,
                         shown |-> IF known THEN "ready" ELSE Before(page), from |-> g]
           /\ read' = [read EXCEPT ![g] =
                [NoRead EXCEPT !.page = page, !.subject = subject, !.op = op,
                               !.stage = IF known THEN "over" ELSE "asked",
                               !.hook = IF known THEN "settled" ELSE "waiting",
                               !.wasOn = op \in DoorOps /\ On(op, catalogue)]]
    /\ urls' = Cleaned
    /\ UNCHANGED <<memo, catalogue, edits, deployment>>

Leave ==
    /\ screen.page # "none"
    /\ screen' = [Closed EXCEPT !.gen = screen.gen]
    /\ urls' = Cleaned
    /\ UNCHANGED <<read, memo, catalogue, edits, deployment>>

\* Slip: the answer is shown by whatever view is open.
Live_Any(g) == screen.page # "none"

Live(g) == screen.gen = g /\ screen.page # "none"

\* The promise of read g settles, once: a value is remembered and, if its view is live, shown.
settle(g, answer) ==
    /\ read[g].hook = "waiting"
    /\ read' = [read EXCEPT ![g].hook = "settled"]
    /\ memo' = IF answer = "value" /\ read[g].page \in Memoised
               THEN memo \cup {<<read[g].page, read[g].subject>>} ELSE memo
    /\ screen' = IF Live(g) THEN [screen EXCEPT !.shown = IF answer = "value" THEN "ready" ELSE Without(screen.page),
                                                !.from = g]
                 ELSE screen
    /\ urls' = IF Live(g) /\ answer = "value" /\ read[g].page = "attachment" THEN urls \cup {g} ELSE urls
    /\ UNCHANGED <<catalogue, edits, deployment>>

\* One round trip to the store; a rejected read is nothing.
storeAnswers(g) == \E answer \in {"value", "nothing"} : settle(g, answer)

\* Every query counted, or none: one missing count and the Tile shows its error line.
countThings(g) == read[g].page = "counts" /\ storeAnswers(g)

readAssistants(g) == read[g].page = "assistants" /\ storeAnswers(g)

readThing(g) == read[g].page = "thing" /\ storeAnswers(g)

readAssistantName(g) == read[g].page = "name" /\ storeAnswers(g)

\* A ticket is minted first; it is good for one fetch, of a path of the same origin.
mint(g) ==
    /\ read[g].page = "attachment" /\ read[g].stage = "asked" /\ read[g].hook = "waiting"
    /\ \/ /\ read' = [read EXCEPT ![g].stage = "ticket"]
          /\ UNCHANGED <<screen, memo, urls, catalogue, edits, deployment>>
       \/ settle(g, "nothing")

fetchAttachment(g) == read[g].page = "attachment" /\ read[g].stage = "ticket" /\ storeAnswers(g)

\* A value is shown; a refusal, an error, a pending outcome and a broken body are nothing.
callReturns(g) ==
    /\ read[g].page \in External
    /\ read[g].answer # "none"
    /\ settle(g, read[g].answer)

\* Slip: the deadline is a refusal's, and a call without any answer is waited for.
deadline_AnsweredOnly(g) ==
    /\ read[g].page \in Tiles /\ Live(g)
    /\ read[g].answer # "none"
    /\ settle(g, "nothing")

\* Cleanup clears the deadline, so it reaches only a view that is still open.
deadline(g) ==
    /\ read[g].page \in Tiles /\ Live(g)
    /\ settle(g, "nothing")

----------------------------------------------------------------------------
(* The application server: the outer gate, and the wait for the Runtime. *)

AllowedOperations == IF deployment.serverWide THEN DoorOps ELSE Offered

Advance(g, stage) ==
    /\ read' = [read EXCEPT ![g].stage = stage]
    /\ UNCHANGED <<screen, memo, urls, catalogue, edits, deployment>>

Return(g, stage, answer) ==
    /\ read' = [read EXCEPT ![g].stage = stage, ![g].answer = IF @ = "none" THEN answer ELSE @]
    /\ UNCHANGED <<screen, memo, urls, catalogue, edits, deployment>>

rpc(g) ==
    /\ read[g].stage = "asked" /\ read[g].page \in External
    /\ IF deployment.secret = "empty" \/ read[g].op \notin AllowedOperations
       THEN Return(g, "over", "nothing")
       ELSE Advance(g, "forwarded") \/ Return(g, "over", "nothing")

\* The Runtime is too slow: the browser is told so, and the call goes on behind its back.
serverTimesOut(g) ==
    /\ read[g].stage \in {"forwarded", "allowed", "running"} /\ read[g].answer = "none"
    /\ Return(g, read[g].stage, "nothing")

----------------------------------------------------------------------------
(* The Runtime's inbox. *)

Allowlist == IF deployment.wide THEN DoorOps ELSE Offered

\* One search for two: none, one, or an ambiguity that is refused; a failing store reads as none.
findOperation(op) == {catalogue[op], {}}

\* Slip: the User's switch is the Assistants' business only.
Admitted_EnabledOrNot(op, things) == Cardinality(things) < 2 /\ decide(op, Allowlist, things)

\* Not ambiguous, past the gate, and a Thing that was read and is not switched off.
Admitted(op, things) ==
    /\ Cardinality(things) < 2
    /\ decide(op, Allowlist, things)
    /\ things # {}
    /\ \A t \in things : t.enabled # "no"

\* Every refusal is one outward answer; what is admitted has its body read next.
handle(g) ==
    /\ read[g].stage = "forwarded"
    /\ \E things \in findOperation(read[g].op) :
         IF deployment.secret = "right" /\ Admitted(read[g].op, things)
         THEN Advance(g, "allowed") ELSE Return(g, "over", "nothing")

\* A body over the cap or one that is no object of arguments: 413 or 400.
readBodyFails(g) ==
    /\ read[g].stage = "allowed"
    /\ Return(g, "over", "nothing")

\* The Host runs the Source; a credential it cannot read or a worker it cannot spawn
\* is an outcome like any other.
execute(g) ==
    /\ read[g].stage = "allowed"
    /\ Advance(g, "running")

\* 200 with the outcome, or 502; the server relays a value if it is still waiting.
send(g) ==
    /\ read[g].stage = "running"
    /\ \E answer \in {"value", "nothing"} : Return(g, "over", answer)

----------------------------------------------------------------------------
(* The User's edits, and the whole. *)

\* What the User may do to a Thing.  With an allowlist that offers too much, the two
\* flags that say what a Source does are taken to be right: one of the two controls holds.
Edited(t) == {[t EXCEPT !.enabled = IF @ = "no" THEN "yes" ELSE "no"], [t EXCEPT !.source = "broken"],
              [t EXCEPT !.implementation = "built-in"], [t EXCEPT !.egress = "elsewhere"]}
             \cup IF deployment.wide THEN {}
                  ELSE {[t EXCEPT !.mutating = "no", !.clientReadable = "yes"]}

UserEdits(op) ==
    /\ edits < MaxEdits
    /\ edits' = edits + 1
    /\ \E t \in catalogue[op] : \E u \in Edited(t) :
         \/ catalogue' = [catalogue EXCEPT ![op] = (@ \ {t}) \cup {u}]
         \/ catalogue' = [catalogue EXCEPT ![op] = @ \cup {u}]       \* a second Thing of that key
    /\ read' = [g \in 1..MaxAsks |->
                  [read[g] EXCEPT !.wasOn = @ \/ (read[g].op \in DoorOps /\ On(read[g].op, catalogue'))]]
    /\ UNCHANGED <<screen, memo, urls, deployment>>

Next ==
    \/ \E page \in Pages, subject \in Subjects \cup {"none"}, op \in DoorOps \cup {"none"} : Open(page, subject, op)
    \/ Leave
    \/ \E g \in 1..MaxAsks :
          \/ countThings(g) \/ readAssistants(g) \/ readThing(g) \/ readAssistantName(g)
          \/ mint(g) \/ fetchAttachment(g) \/ callReturns(g) \/ deadline(g)
          \/ rpc(g) \/ serverTimesOut(g) \/ handle(g) \/ readBodyFails(g) \/ execute(g) \/ send(g)
    \/ \E op \in DoorOps : UserEdits(op)

\* A timer of the browser goes off; nothing else is promised to happen.
Spec == Init /\ [][Next]_vars /\ WF_vars(\E g \in 1..MaxAsks : deadline(g))

----------------------------------------------------------------------------
(* Properties. *)

(***************************************************************************)
(* Opening a read route does not open a write one: with an allowlist that  *)
(* offers too much or with flags edited wrongly, but not both, no writing  *)
(* Source runs for a browser, and none of an Operation that was switched   *)
(* off for the whole call.                                                 *)
(***************************************************************************)
DoorStaysReadOnly ==
    \A g \in 1..MaxAsks : read[g].stage = "running" => read[g].op \notin Writers /\ read[g].wasOn

(***************************************************************************)
(* The gate and the loop read one Thing in two places, and the gate is the *)
(* narrower: what it would let a browser run, an Assistant that is granted *)
(* it may call as well, as a read that needs nobody's approval.            *)
(***************************************************************************)
GateWithinGrants ==
    \A op \in DoorOps : Admitted(op, catalogue[op]) =>
        \A t \in catalogue[op] :
            LET offered == grantedTo("receptionist", <<[base |-> op, callee |-> "none"]>>, <<t>>) IN
            /\ offered.granted # {}
            /\ \A o \in offered.granted : ~o.mutating /\ ~o.requiresApproval

(***************************************************************************)
(* A view shows only the answer to what it is asking now, and the only     *)
(* object URL there is belongs to the attachment on screen: late answers   *)
(* of views that were left neither show nor leak.                          *)
(***************************************************************************)
ShownIsAsked ==
    /\ screen.page # "none" =>
         read[screen.from].page = screen.page /\ read[screen.from].subject = screen.subject
    /\ urls \subseteq {g \in {screen.gen} : screen.page = "attachment" /\ screen.shown = "ready"}

\* A Tile leaves its loading state however little the way to Firefly answers.
LoadingEnds ==
    \A g \in 1..MaxAsks :
        LET Loading == Live(g) /\ screen.page \in Tiles /\ screen.shown = "loading" IN Loading ~> ~Loading
=============================================================================
