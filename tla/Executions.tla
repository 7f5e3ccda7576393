----------------------------- MODULE Executions -----------------------------
(***************************************************************************)
(* The built-in Operations that a Turn executes against the ThingStore,    *)
(* and what recovery asks of one it finds interrupted (reconcile).         *)
(*                                                                         *)
(* A Turn runs one Operation at a time.  Each call has a key of its own: a *)
(* call made again has a new one, so only a true answer of reconcile keeps *)
(* the Assistant from doing a thing twice.                                 *)
(***************************************************************************)
EXTENDS ThingStore

CONSTANT Operations      \* Operations the Turn of this instance may execute

VARIABLE said            \* what the Assistant was last told of each Operation

Thing(model, key, human, file) ==
    [there |-> TRUE, model |-> model, key |-> key, machine |-> "new", human |-> human,
     rows |-> {}, file |-> file]

Find(do, model, key) == [do |-> do, model |-> model, key |-> key]
Make(do, thing) == [do |-> do, model |-> thing.model, key |-> thing.key, new |-> thing]
Book(do, name) == [do |-> do, name |-> name]

\* An Assistant edits the household's Things, never its own machinery, and reads
\* everything but the catalogue.
WRITABLE_MODELS == {"Party", "Document", "Invoice", "Process"}
READABLE_MODELS == DOMAIN SPECS \ {"Operation"}

\* The empty program: refused before anything is asked of the store.
Refused == <<>>

\* The Thing a Document stands for, and the Process a Turn keeps.
post == <<"post", 0>>

thingstoreCreate(key) ==
    {IF model \in WRITABLE_MODELS THEN <<Make("create", Thing(model, key, "seed", FALSE))>> ELSE Refused :
        model \in {"Process", "Assistant"}}

\* Read, merged row by row, and handed to update: only what was asked for.
thingstoreUpdate(key) ==
    {<<[do |-> "merge", model |-> "Process", key |-> <<"thingstore.create", 1>>,
        new |-> [Nobody EXCEPT !.rows = {[seq |-> 2, by |-> "assistant"]}]]>>}

thingstoreGet(key) ==
    {IF model \in READABLE_MODELS THEN <<Find("look", model, post)>> ELSE Refused : model \in {"Document", "Operation"}}

\* As thingstoreGet, and an empty answer is a value.
thingstoreSearch(key) == thingstoreGet(key)

\* A question of an unknown kind, or without a prompt, is refused.
askUser(key) == {<<Make("create", Thing("OpenQuestion", key, "none", FALSE))>>, Refused}

\* A Manual Connector's question, of kind perform: money, mail, post, a transcription.
manualConnector(key) == {<<Make("create", Thing("OpenQuestion", key, "none", FALSE))>>}

\* The text layer, or a vision model; with replace the text that is there is read again.
Reading(do, replace) ==
    <<[do |-> do, model |-> "Document", key |-> post, replace |-> replace]>>

extractText(key) == {Reading("extract", replace) : replace \in BOOLEAN}

\* Without a vision profile it is unavailable, before anything is looked at.
readScan(key) == {Reading("scan", replace) : replace \in BOOLEAN} \cup {Refused}

\* Driven by the Runtime's own scan: a Turn that calls it is told so.
emailReceive(key) == {Refused}

execute(op, key) ==
    CASE op = "thingstore.create" -> thingstoreCreate(key)
      [] op = "thingstore.update" -> thingstoreUpdate(key)
      [] op = "thingstore.get" -> thingstoreGet(key)
      [] op = "thingstore.search" -> thingstoreSearch(key)
      [] op = "ui.askUser" -> askUser(key)
      [] op = "bank.sendMoney" -> manualConnector(key)
      [] op = "document.extractText" -> extractText(key)
      [] op = "document.readScan" -> readScan(key)
      [] op = "email.receive" -> emailReceive(key)
      [] op = "postTransaction" -> {<<Book("post", "turn:invoice")>>}

----------------------------------------------------------------------------
(* Recovery asks what became of a call that has an intent and no result. *)

Made(key) == \E r \in Refs : docs[r].there /\ docs[r].key = key

\* How much text the Document has, told without the text.
textOnDocument == \E r \in Refs : docs[r].key = post /\ docs[r].human # "none"

\* The store knows whether a key has landed; an update and a replacement it cannot tell.
\* A question that is not there is escalated.
reconcile(op, key, replace) ==
    CASE op = "thingstore.create" -> IF Made(key) THEN "done" ELSE "not done"
      [] op \in {"ui.askUser", "bank.sendMoney"} -> IF Made(key) THEN "done" ELSE "unknown"
      [] op \in {"document.extractText", "document.readScan"} ->
            IF replace THEN "unknown" ELSE IF textOnDocument THEN "done" ELSE "not done"
      [] op \in {"thingstore.get", "thingstore.search"} -> "not done"
      [] OTHER -> "unknown"

----------------------------------------------------------------------------
(* A call. *)

Never == [at |-> "never", n |-> 0, replace |-> FALSE]
Silent == [op \in Operations |-> Never]

\* Operations whose repetition is a second Thing: repeated only when nothing came of it.
Creators == {"thingstore.create", "ui.askUser", "bank.sendMoney"}

mayCall(op) == op \in Creators => said[op].at \in {"never", "not done"}

\* What is remembered of a call: its last answer matters for what must not be done twice.
Remembered(op, call) == IF op \in Creators \/ call.at = "interrupted" THEN call ELSE Never

\* The program a call starts; a refusal is an answer at once.
Call(op, todo) ==
    /\ \A o \in Operations : said[o].at \notin {"running", "interrupted"}
    /\ mayCall(op)
    /\ said' = [said EXCEPT ![op] =
         IF todo = Refused THEN @
         ELSE [at |-> "running", n |-> @.n + 1, replace |-> "replace" \in DOMAIN todo[1] /\ todo[1].replace]]

\* What the Assistant is told when its program ends as given.
Told(p, how) ==
    said' = IF p = "turn" /\ proc'[p].todo = <<>>
            THEN [op \in Operations |->
                    IF said[op].at = "running" THEN Remembered(op, [said[op] EXCEPT !.at = how]) ELSE said[op]]
            ELSE said

Recover(op) ==
    LET call == said[op]
        found == reconcile(op, <<op, call.n>>, call.replace)
    IN  /\ call.at = "interrupted"
        /\ said' = [said EXCEPT ![op] = Remembered(op, [call EXCEPT !.at = found])]
        /\ UNCHANGED <<docs, proc>>
=============================================================================
