----------------------------- MODULE Household -----------------------------
(***************************************************************************)
(* Loading what the system is (bootstrap) and what the household has (the  *)
(* demo loader, which books in Firefly as well), beside Turns that create, *)
(* merge and read, and beside the User, who edits the same Things.         *)
(* Each program runs once at a time and may be run again whenever it has   *)
(* ended, however it ended.                                                *)
(***************************************************************************)
EXTENDS Executions

CONSTANTS Runs,          \* the programs this instance starts
          Edits,         \* what the User may edit
          MaxStarts,     \* bound on programs started
          MaxFaults,     \* bound on failures
          MaxEdits       \* bound on edits of the User

ASSUME HouseholdAssumption ==
    /\ Runs \subseteq {"bootstrap", "demo", "turn"}
    /\ Operations # {} => "turn" \in Runs
    /\ Operations \subseteq {"thingstore.create", "thingstore.update", "thingstore.get", "thingstore.search",
                             "ui.askUser", "bank.sendMoney", "document.extractText", "document.readScan",
                             "email.receive", "postTransaction"}

VARIABLES firefly,       \* accounts, budgets and journals
          wish,          \* what the User last wanted of the kill switch
          stray,         \* the demo loader died with the Runtime paused
          starts, faults, edits

counts == <<starts, faults, edits>>
vars == <<docs, proc, said, firefly, wish, stray, counts>>

\* A seed of each kind: Operations, the Assistants that are granted them, the RuntimeState.
seedOperations == <<Make("seed", Thing("Operation", <<"operation", 0>>, "seed", FALSE))>>
ASSISTANT_SEEDS == <<Thing("Assistant", <<"assistant", 0>>, "seed", FALSE)>>
seedAssistants == [i \in DOMAIN ASSISTANT_SEEDS |-> Make("seed", ASSISTANT_SEEDS[i])]
state == <<"state", 0>>
seedState == <<Make("seed", Thing("RuntimeState", state, "off", FALSE))>>

bootstrap == seedOperations \o seedAssistants \o seedState

\* The household of the demo, in the order of its links; the Documents are history.
DEMO_PARTIES == <<Thing("Party", <<"party", 0>>, "seed", FALSE)>>
DEMO_DOCUMENTS == <<[Thing("Document", <<"document", 0>>, "seed", FALSE) EXCEPT !.machine = "old"]>>
DEMO_INVOICES == <<Thing("Invoice", <<"invoice", 0>>, "seed", FALSE)>>
DEMO_THINGS == DEMO_PARTIES \o DEMO_DOCUMENTS \o DEMO_INVOICES
demoThings == [i \in DOMAIN DEMO_THINGS |-> Make("create", DEMO_THINGS[i])]

\* Each classified Document is linked back to the Invoice it produced.
linkDocuments == <<Find("link", "Document", <<"document", 0>>)>>

DEMO_ACCOUNTS == {"Payables"}
DEMO_BUDGETS == {"Health"}

\* The books: accounts, budgets with their limits, and a posting per booked invoice.
books == <<Book("account", "Payables"), Book("budget", "Health"), Book("limit", "Health"),
           Book("post", "demo:invoice")>>

\* Paused, and finally what isPaused found.  Without Firefly the books are left out.
loadDemo(up) ==
    <<Find("isPaused", "RuntimeState", state), Find("pause", "RuntimeState", state)>>
        \o demoThings \o linkDocuments \o (IF up THEN books ELSE <<>>)
        \o <<Find("watermark", "RuntimeState", state), Find("restore", "RuntimeState", state)>>

\* The store as it is found: perhaps an older release has been there, and the post has come.
Init ==
    /\ \E old \in BOOLEAN :
         docs = [r \in Refs |-> IF r = 1 /\ old
                                THEN [Thing("Operation", <<"operation", 0>>, "seed", FALSE) EXCEPT !.machine = "old"]
                                ELSE IF r = 2 /\ "text" \in Edits THEN Thing("Document", post, "none", TRUE)
                                ELSE Nobody]
    /\ proc = [p \in Runs |-> Ended]
    /\ firefly = [accounts |-> {}, budgets |-> {}, limits |-> {}, journals |-> {}, flight |-> {}]
    /\ wish = "off" /\ stray = FALSE
    /\ said = Silent
    /\ starts = 0 /\ faults = 0 /\ edits = 0

Begin(p, todo) ==
    /\ starts < MaxStarts /\ proc[p].todo = <<>>
    /\ starts' = starts + 1
    /\ proc' = [proc EXCEPT ![p].todo = todo]
    /\ UNCHANGED <<docs, firefly, wish, stray, faults, edits>>

\* just bootstrap, just demo; main asks Firefly first whether it is there.
main(p) ==
    /\ \/ p = "bootstrap" /\ Begin(p, bootstrap)
       \/ p = "demo" /\ \E up \in BOOLEAN : Begin(p, loadDemo(up))
    /\ UNCHANGED said

\* A Turn executes an Operation it is granted, one at a time.
Execute(op) ==
    \E todo \in execute(op, <<op, said[op].n + 1>>) : Begin("turn", todo) /\ Call(op, todo)

\* The Runtime starts again and recovers what it finds.
reconcileCall(op) == Recover(op) /\ UNCHANGED <<firefly, wish, stray, counts>>

\* Paused by a loader that is no longer there to resume it.
Stray(p) == stray' = (stray \/ (p = "demo" /\ proc[p].was # "none" /\ proc'[p].todo = <<>>))

Store(p) == Repository(p) /\ Told(p, "done") /\ UNCHANGED <<firefly, wish, stray, counts>>

Fault(p) ==
    /\ faults < MaxFaults
    /\ faults' = faults + 1
    /\ \/ (requestFails(p) \/ answerIsLost(p)) /\ Told(p, "error")
       \/ Crash(p) /\ Told(p, "interrupted")
    /\ Stray(p)
    /\ UNCHANGED <<firefly, wish, starts, edits>>

----------------------------------------------------------------------------
(* FireflyConnector, one request per step. *)

Step(p, self) ==
    /\ proc' = [proc EXCEPT ![p] = self]
    /\ Told(p, "done")
    /\ UNCHANGED <<docs, wish, stray, counts>>

\* A listing that fails counts as an empty one (.catch(() => [])).
Listed(names) == {names} \cup IF "failed" \in Faults THEN {{}} ELSE {}

\* List, and create what is not listed.
Seek(p, names) ==
    /\ At(p, "find")
    /\ \E listed \in Listed(names) :
         Step(p, IF Goal(p).name \in listed THEN Return(proc[p]) ELSE [proc[p] EXCEPT !.pc = "POST"])
    /\ UNCHANGED firefly

listAccounts(p) == At(p, "find") /\ Goal(p).do = "account" /\ Seek(p, firefly.accounts)

listBudgets(p) == At(p, "find") /\ Goal(p).do = "budget" /\ Seek(p, firefly.budgets)

\* Firefly refuses a second account of one name and type, and the loader gives up.
createAccount(p) ==
    /\ At(p, "POST") /\ Goal(p).do = "account"
    /\ firefly' = [firefly EXCEPT !.accounts = @ \cup {Goal(p).name}]
    /\ Step(p, IF Goal(p).name \in firefly.accounts THEN Failed(proc[p]) ELSE Return(proc[p]))

createBudget(p) ==
    /\ At(p, "POST") /\ Goal(p).do = "budget"
    /\ firefly' = [firefly EXCEPT !.budgets = @ \cup {Goal(p).name}]
    /\ Step(p, IF Goal(p).name \in firefly.budgets THEN Failed(proc[p]) ELSE Return(proc[p]))

\* The limit of a budget; one that cannot be set is a line in the log.
setBudgetLimit(p) ==
    /\ At(p, "find") /\ Goal(p).do = "limit"
    /\ firefly' \in {firefly, [firefly EXCEPT !.limits = @ \cup {Goal(p).name}]}
    /\ Step(p, Return(proc[p]))

Live == {j \in firefly.journals : j.live}

\* Has this key landed?  A search that fails is no evidence, and is thrown (requestFails).
findByExternalId(p) ==
    /\ At(p, "find") /\ Goal(p).do = "post"
    /\ Step(p, IF \E j \in Live : j.key = Goal(p).name THEN Return(proc[p]) ELSE [proc[p] EXCEPT !.pc = "same"])
    /\ UNCHANGED firefly

\* Is this posting booked for the Thing under another key?  All journals here are of one posting.
findSamePostingForThing(p) ==
    /\ At(p, "same")
    /\ Step(p, IF Live # {} THEN Return(proc[p]) ELSE [proc[p] EXCEPT !.pc = "POST"])
    /\ UNCHANGED firefly

Landed(key) == [firefly EXCEPT !.journals = @ \cup {[key |-> key, live |-> TRUE, id |-> Cardinality(@)]}]

\* The hash of a journal outlives its deletion, and the key is part of the hash.
duplicateHashVictim(key) == {j \in firefly.journals : j.key = key}

\* Slip: a refused posting is sent again without the flag, whatever became of its duplicate.
postOnce_NeverRefused(p) ==
    /\ At(p, "POST") /\ Goal(p).do = "post"
    /\ firefly' = Landed(Goal(p).name)
    /\ Step(p, Return(proc[p]))

\* error_if_duplicate_hash: refused, and if the victim is gone posted without the flag.
postOnce(p) ==
    /\ At(p, "POST") /\ Goal(p).do = "post"
    /\ IF \E j \in duplicateHashVictim(Goal(p).name) : j.live
       THEN Step(p, Failed(proc[p])) /\ UNCHANGED firefly
       ELSE firefly' = Landed(Goal(p).name) /\ Step(p, Return(proc[p]))

\* The answer to a posting does not come: it has landed, or is still under way.
postIsLost(p) ==
    /\ "lost" \in Faults /\ faults < MaxFaults
    /\ At(p, "POST") /\ Goal(p).do = "post" /\ duplicateHashVictim(Goal(p).name) = {}
    /\ firefly' \in {Landed(Goal(p).name), [firefly EXCEPT !.flight = @ \cup {Goal(p).name}]}
    /\ proc' = [proc EXCEPT ![p] = Failed(@)]
    /\ Told(p, "error")
    /\ faults' = faults + 1
    /\ UNCHANGED <<docs, wish, stray, starts, edits>>

\* A posting that was given up lands after all, unless its hash is there by now.
landsLate(key) ==
    /\ firefly' = [(IF duplicateHashVictim(key) = {} THEN Landed(key) ELSE firefly) EXCEPT !.flight = @ \ {key}]
    /\ UNCHANGED <<docs, proc, said, wish, stray, counts>>

\* The compose file runs one Runtime and the loader pauses it: no two keys are being posted at once.
OthersPost(p) ==
    \/ firefly.flight \ {Goal(p).name} # {}
    \/ \E q \in Runs \ {p} : At(q, "same") \/ (At(q, "POST") /\ Goal(q).do = "post")

Firefly(p) ==
    \/ listAccounts(p) \/ createAccount(p) \/ listBudgets(p) \/ createBudget(p) \/ setBudgetLimit(p)
    \/ postOnce(p) \/ postIsLost(p)
    \/ (findByExternalId(p) /\ ~OthersPost(p))
    \/ findSamePostingForThing(p)

----------------------------------------------------------------------------
(* The User. *)

\* Nobody is between looking at Thing r and writing it.
AtRest(r) == \A p \in Runs : proc[p].ref # r

\* A load remembers the kill switch from isPaused until its end.
NoLoad == \A p \in Runs : proc[p].was = "none"

Edit(r, field, value) ==
    /\ edits < MaxEdits /\ edits' = edits + 1
    /\ docs[r].there
    /\ "gap" \in Faults \/ (AtRest(r) /\ (docs[r].model = "RuntimeState" => NoLoad))
    /\ docs' = [docs EXCEPT ![r] = [@ EXCEPT ![field] = value]]
    /\ UNCHANGED <<proc, said, firefly, starts, faults>>

\* A switch or an approval of an Operation.
UserDecides(r) == "decision" \in Edits /\ docs[r].model = "Operation" /\ Edit(r, "human", "user")
                  /\ UNCHANGED <<wish, stray>>

\* A transcription of a Document.
UserTranscribes(r) == "text" \in Edits /\ docs[r].model = "Document" /\ Edit(r, "human", "user")
                      /\ UNCHANGED <<wish, stray>>

\* A step of a Process.
UserAddsRow(r) == "rows" \in Edits /\ docs[r].model = "Process"
                  /\ Edit(r, "rows", docs[r].rows \cup {[seq |-> 1, by |-> "user"]})
                  /\ UNCHANGED <<wish, stray>>

\* just pause, just resume.
setPaused(r, to) == "pause" \in Edits /\ docs[r].model = "RuntimeState" /\ Edit(r, "human", to)
                    /\ wish' = to /\ stray' = FALSE

\* A correction: the User removes a journal.
UserDeletesJournal(j) ==
    /\ "journal" \in Edits /\ edits < MaxEdits /\ edits' = edits + 1 /\ j.live
    /\ firefly' = [firefly EXCEPT !.journals = (@ \ {j}) \cup {[j EXCEPT !.live = FALSE]}]
    /\ UNCHANGED <<docs, proc, said, wish, stray, starts, faults>>

User ==
    \/ \E r \in Refs : \/ UserDecides(r) \/ UserTranscribes(r) \/ UserAddsRow(r)
                       \/ \E to \in {"on", "off"} : setPaused(r, to)
    \/ \E j \in firefly.journals : UserDeletesJournal(j)

Next ==
    \/ \E p \in Runs : main(p) \/ Store(p) \/ Fault(p) \/ Firefly(p)
    \/ \E op \in Operations : Execute(op) \/ reconcileCall(op)
    \/ \E key \in firefly.flight : landsLate(key)
    \/ User

Spec == Init /\ [][Next]_vars

----------------------------------------------------------------------------
(* Properties. *)

(***************************************************************************)
(* Loading twice is a no-op rather than a second household, and a call     *)
(* that was interrupted is not made again when it has landed: however      *)
(* often a program is run, fails, dies or loses an answer, one Thing is    *)
(* made of each kind, and one live journal of each posting.                *)
(***************************************************************************)
OneOfEach ==
    /\ \A r, s \in Refs : docs[r].there /\ docs[s].there /\ docs[r].key[1] = docs[s].key[1] => r = s
    /\ Cardinality(Live) <= 1

\* A reader that was told to replace the text is about to write.
Replacing == \E op \in Operations : said[op].at = "running" /\ said[op].replace

(***************************************************************************)
(* What the User has decided, typed or added stays, and so does what the   *)
(* map of fields does not know: no program's write takes it away, but a    *)
(* reading that was asked to replace the text.                             *)
(***************************************************************************)
UsersWorkIsKept ==
    [][\A r \in Refs : docs[r].there =>
          /\ docs[r].human = "user" => docs'[r].human = "user" \/ Replacing
          /\ {row \in docs[r].rows : row.by = "user"} \subseteq docs'[r].rows
          /\ docs[r].file => docs'[r].file]_docs

\* A load leaves the kill switch as the User wants it, unless it dies.
PausedAsWished ==
    NoLoad /\ ~stray => \A r \in Refs : docs[r].model = "RuntimeState" => docs[r].human = wish
=============================================================================
