-------------------------- MODULE HouseholdProofs --------------------------
(***************************************************************************)
(* What loading the household keeps, for every set of docRefs, programs,   *)
(* Operations, faults and edits.                                           *)
(*                                                                         *)
(* One invariant holds whatever fails (Inv): Shape says what a Thing and a *)
(* program may be and where a program stands towards the Thing it is at;   *)
(* Calls ties the Turn to the one call that is running; Things says that a *)
(* Thing's number is that of the last call of its Operation, which is not  *)
(* made again while the Thing is there; Journals that all live journals,   *)
(* postings under way and posters agree on one key.  NoSecondHousehold     *)
(* follows from it.                                                        *)
(*                                                                         *)
(* Beside a User who edits no Thing between the two requests of an update  *)
(* ("gap" is no fault of the instance), what a program is about to write   *)
(* is what it would find now (Fresh), since no two programs write to one   *)
(* Thing (Owners).  UsersWorkStays follows, and with what a load remembers *)
(* of the kill switch (Wished) SwitchIsGivenBack.                          *)
(***************************************************************************)
EXTENDS Household, FiniteSetTheorems, TLAPS

\* The fields of a Thing and of a program.
DocFields == {"there", "model", "key", "machine", "human", "rows", "file"}
ProcFields == {"todo", "pc", "ref", "raw", "write", "was"}

\* The labels of Things: those no call makes, and the Operations that make some.
Fixed == {"none", "operation", "assistant", "state", "party", "document", "invoice", "post"}
Labels == Fixed \cup Creators

\* A user's row is of the number the User gives.
RowsOK(rows) == \A row \in rows : row.by = "user" => row.seq = 1

\* A Thing: the RuntimeState is known by its key, and what was not made by a call has number 0.
IsDoc(d) ==
    /\ DOMAIN d = DocFields
    /\ d.there \in BOOLEAN
    /\ d.there => d.model \in DOMAIN SPECS
    /\ d.key \in Labels \X Nat
    /\ d.key[1] \in Fixed => d.key[2] = 0
    /\ d.key = state <=> d.model = "RuntimeState"
    /\ d.model = "RuntimeState" => d.there /\ d.human \in {"on", "off"}
    /\ RowsOK(d.rows)

\* The goals of bootstrap, of a load, and of the Operations a Turn executes.
SeedGoals == {Make("seed", Thing("Operation", <<"operation", 0>>, "seed", FALSE)),
              Make("seed", Thing("Assistant", <<"assistant", 0>>, "seed", FALSE)),
              Make("seed", Thing("RuntimeState", state, "off", FALSE))}

\* The load's three goals about the kill switch.
IsPaused == Find("isPaused", "RuntimeState", state)
Pause == Find("pause", "RuntimeState", state)
Restore == Find("restore", "RuntimeState", state)

\* What a load does while the Runtime is paused.
LoadGoals == {Make("create", Thing("Party", <<"party", 0>>, "seed", FALSE)),
              Make("create", [Thing("Document", <<"document", 0>>, "seed", FALSE) EXCEPT !.machine = "old"]),
              Make("create", Thing("Invoice", <<"invoice", 0>>, "seed", FALSE)),
              Find("link", "Document", <<"document", 0>>),
              Book("account", "Payables"), Book("budget", "Health"), Book("limit", "Health"),
              Book("post", "demo:invoice"),
              Find("watermark", "RuntimeState", state)}

DemoGoals == LoadGoals \cup {IsPaused, Pause, Restore}

GoalsOfCall(op, n) == {todo[1] : todo \in execute(op, <<op, n>>) \ {Refused}}
TurnGoals == UNION {GoalsOfCall(op, n) : op \in Operations, n \in Nat}

GoalsOf == [bootstrap |-> SeedGoals, demo |-> DemoGoals, turn |-> TurnGoals]

\* A load ends with its restore; it is at isPaused as long as it does not know the answer.
Loading(t, was) ==
    IF t = <<>> THEN was = "none"
    ELSE /\ t[Len(t)] = Restore
         /\ \A i \in 1..(Len(t) - 1) : /\ t[i] # Restore
                                       /\ t[i] = IsPaused => i = 1
                                       /\ t[i] = Pause => i = 1 \/ (i = 2 /\ t[1] = IsPaused)
         /\ t[1] = IsPaused => t[2] = Pause
         /\ was = "none" <=> t[1] = IsPaused

\* Goals that end in an update, and what is ready to be written of one.
Writer(g) ==
    \/ g.do \in {"pause", "restore", "link", "watermark", "merge", "extract", "scan"}
    \/ g.do = "seed" /\ g.model # "RuntimeState"

WriteOK(g, w) ==
    /\ DOMAIN w \subseteq {"machine", "human", "rows"}
    /\ "human" \in DOMAIN w /\ g.key = state => w["human"] \in {"on", "off"}
    /\ "rows" \in DOMAIN w => RowsOK(w["rows"])

\* The places from which a program writes.
Writing == {"download", "layer", "vision", "raw", "modify"}

\* Where a program can be with its goal.
Placed(q) ==
    LET g == Head(q.todo) IN
    /\ q.pc \in {"find", "insert", "check", "same", "POST"} \cup Writing
    /\ q.pc \in {"insert", "check"} => Creates(g)
    /\ q.pc \in Writing => Writer(g) /\ WriteOK(g, q.write)
    /\ q.pc \in {"download", "layer", "vision"} => Reads(g)
    /\ q.pc = "same" => g.do = "post"
    /\ q.pc = "POST" => g.do \in {"account", "budget", "post"}
    /\ q.pc = "modify" => IsDoc(q.raw)

\* A program: what is left for it to do, and where it stands.
IsProc(p, q) ==
    /\ DOMAIN q = ProcFields
    /\ q.todo \in Seq(GoalsOf[p])
    /\ q.was \in {"none", "on", "off"}
    /\ IF p = "demo" THEN Loading(q.todo, q.was) ELSE q.was = "none"
    /\ p = "turn" => Len(q.todo) <= 1
    /\ IF q.todo = <<>> THEN q.pc = "find" ELSE Placed(q)

\* Where a program stands towards the Things d.
Standing(d, q) ==
    LET g == Head(q.todo) IN
    /\ q.pc = "insert" => \A r \in Refs : d[r].there => d[r].key # g.key
    /\ q.pc \in Writing => q.ref \in Refs /\ d[q.ref].there /\ d[q.ref].key = g.key
    /\ q.pc = "modify" => q.raw.there /\ q.raw.key = g.key /\ q.raw.model = d[q.ref].model

\* What is said of an Operation's last call.
IsCall(c) == DOMAIN c = {"at", "n", "replace"} /\ c.n \in Nat /\ c.replace \in BOOLEAN

\* The Turn is executing the call that is running.
TurnIs(op, c, todo) ==
    /\ c.at = "running"
    /\ todo \in execute(op, <<op, c.n>>) \ {Refused}
    /\ c.replace = ("replace" \in DOMAIN todo[1] /\ todo[1].replace)

\* Things are Things, programs are programs, and each stands where it may.
Shape ==
    /\ DOMAIN docs = Refs /\ \A r \in Refs : IsDoc(docs[r])
    /\ DOMAIN proc = Runs /\ \A p \in Runs : IsProc(p, proc[p])
    /\ \A p \in Runs : proc[p].todo # <<>> => Standing(docs, proc[p])

\* One call runs at a time, and the Turn executes it.
Calls ==
    /\ DOMAIN said = Operations /\ \A op \in Operations : IsCall(said[op])
    /\ \A op, o \in Operations : {said[op].at, said[o].at} \subseteq {"running", "interrupted"} => op = o
    /\ \A op \in Operations : said[op].at = "running" => TurnIs(op, said[op], proc["turn"].todo)
    /\ "turn" \in Runs /\ proc["turn"].todo # <<>> => \E op \in Operations : said[op].at = "running"

\* A call has made what bears its number, and nothing while it may be made again.
Made1(op) ==
    \A r \in Refs : docs[r].there /\ docs[r].key[1] = op =>
        docs[r].key[2] = said[op].n /\ said[op].at \notin {"never", "not done"}

\* A made Thing bears the number of its Operation's last call; every label belongs to somebody.
Numbered == \A op \in Creators : op \in Operations => Made1(op)
Foreign == \A r \in Refs : docs[r].there => docs[r].key[1] \in Fixed \cup Operations

\* No label is borne twice.
OneThing == \A r, s \in Refs : docs[r].there /\ docs[s].there /\ docs[r].key[1] = docs[s].key[1] => r = s

\* A program between its search for the posting's key and the posting's answer.
Posting(q) == q.todo # <<>> /\ q.pc \in {"same", "POST"} /\ Head(q.todo).do = "post"

\* One program posts at a time, and what is live or under way is what it posts.
Journals ==
    /\ DOMAIN firefly = {"accounts", "budgets", "limits", "journals", "flight"}
    /\ \A j \in firefly.journals : DOMAIN j = {"key", "live", "id"} /\ j.live \in BOOLEAN
    /\ \A i, j \in Live : i = j
    /\ \A k \in firefly.flight : firefly.flight = {k} /\ \A j \in Live : j.key = k
    /\ \A p \in Runs : Posting(proc[p]) =>
           /\ \A q \in Runs : Posting(proc[q]) => q = p
           /\ firefly.flight \subseteq {Goal(p).name}
           /\ proc[p].pc = "POST" => \A j \in Live : j.key = Goal(p).name

\* What is about to be written is what would be found now.
FreshAt(d, q) ==
    /\ q.pc \in Writing => q.write = Writes(Head(q.todo), d[q.ref], q.was)
    /\ q.pc = "modify" => q.raw = d[q.ref]

Fresh == \A p \in Runs : proc[p].todo # <<>> => FreshAt(docs, proc[p])

\* A load that is under way remembers what the User wants; beside no load the store says it.
Wished ==
    /\ ~stray => \A p \in Runs : proc[p].was # "none" => proc[p].was = wish
    /\ (\A r \in Refs : docs[r].model # "RuntimeState") => wish = "off"
    /\ PausedAsWished
-----------------------------------------------------------------------------
(* The goals of each program.                                                *)

\* The labels of the Things each program makes, and of those it writes to.
MadeBy == [bootstrap |-> {"operation", "assistant", "state"}, demo |-> {"party", "document", "invoice"}, turn |-> Creators]
WrittenBy == [bootstrap |-> {"operation", "assistant"}, demo |-> {"document", "state"}, turn |-> {"thingstore.create", "post"}]

\* What a goal creates.
MakesOK(p, g) ==
    Creates(g) => /\ "key" \in DOMAIN g /\ g.new.key = g.key /\ IsDoc(g.new) /\ g.new.there
                  /\ g.key[1] \in MadeBy[p]
                  /\ g.key = state => g.new.human = "off"

\* What a goal writes to.
WritesOK(p, g) == Writer(g) => g.key[1] \in WrittenBy[p] /\ "key" \in DOMAIN g

\* A Thing as it is made.
LEMMA ThingIs ==
    ASSUME NEW m \in DOMAIN SPECS \ {"RuntimeState"}, NEW l \in Labels \ {"state"}, NEW n \in Nat, l \in Fixed => n = 0,
           NEW h, NEW f
    PROVE  IsDoc(Thing(m, <<l, n>>, h, f))
  BY DEF Thing, IsDoc, DocFields, RowsOK, state

\* The RuntimeState as it is made.
LEMMA StateIs == IsDoc(Thing("RuntimeState", state, "off", FALSE))
  BY DEF Thing, IsDoc, DocFields, RowsOK, state, SPECS, Labels, Fixed

\* The goals of bootstrap.
LEMMA SeedFacts ==
    ASSUME NEW g \in SeedGoals
    PROVE  /\ g.do = "seed" /\ MakesOK("bootstrap", g) /\ WritesOK("bootstrap", g)
           /\ g.model \in {"Operation", "Assistant", "RuntimeState"}
           /\ g.key = state <=> g.model = "RuntimeState"
  <1>1. /\ IsDoc(Thing("Operation", <<"operation", 0>>, "seed", FALSE))
        /\ IsDoc(Thing("Assistant", <<"assistant", 0>>, "seed", FALSE))
    BY ThingIs DEF SPECS, Labels, Fixed
  <1>2. CASE g = Make("seed", Thing("Operation", <<"operation", 0>>, "seed", FALSE))
    BY <1>1, <1>2 DEF Make, Thing, MakesOK, WritesOK, MadeBy, WrittenBy, Writer, Creates, state
  <1>3. CASE g = Make("seed", Thing("Assistant", <<"assistant", 0>>, "seed", FALSE))
    BY <1>1, <1>3 DEF Make, Thing, MakesOK, WritesOK, MadeBy, WrittenBy, Writer, Creates, state
  <1>4. CASE g = Make("seed", Thing("RuntimeState", state, "off", FALSE))
    BY StateIs, <1>4 DEF Make, Thing, MakesOK, WritesOK, MadeBy, WrittenBy, Writer, Creates, state
  <1> QED  BY <1>2, <1>3, <1>4 DEF SeedGoals

\* The goals of the demo loader.
LEMMA DemoFacts ==
    ASSUME NEW g \in DemoGoals
    PROVE  /\ MakesOK("demo", g) /\ WritesOK("demo", g)
           /\ g.do \in {"create", "link", "account", "budget", "limit", "post", "watermark", "isPaused", "pause", "restore"}
           /\ "key" \in DOMAIN g <=> g.do \notin {"account", "budget", "limit", "post"}
           /\ g.do \in {"watermark", "isPaused", "pause", "restore"} => g.key = state
           /\ g.do = "link" => g.key = <<"document", 0>>
           /\ g.do = "isPaused" <=> g = IsPaused
           /\ g.do = "pause" <=> g = Pause
           /\ g.do = "restore" <=> g = Restore
  <1> USE DEF Make, Find, Book, Thing, MakesOK, WritesOK, MadeBy, WrittenBy, Writer, Creates, state, IsPaused, Pause, Restore
  <1>1. /\ IsDoc(Thing("Party", <<"party", 0>>, "seed", FALSE))
        /\ IsDoc(Thing("Invoice", <<"invoice", 0>>, "seed", FALSE))
        /\ IsDoc(Thing("Document", <<"document", 0>>, "seed", FALSE))
    BY ThingIs DEF SPECS, Labels, Fixed
  <1>2. CASE g = Make("create", Thing("Party", <<"party", 0>>, "seed", FALSE))
    BY <1>1, <1>2
  <1>3. CASE g = Make("create", Thing("Invoice", <<"invoice", 0>>, "seed", FALSE))
    BY <1>1, <1>3
  <1>4. CASE g = Make("create", [Thing("Document", <<"document", 0>>, "seed", FALSE) EXCEPT !.machine = "old"])
    <2>1. IsDoc([Thing("Document", <<"document", 0>>, "seed", FALSE) EXCEPT !.machine = "old"])
      BY <1>1 DEF IsDoc, DocFields
    <2> QED  BY <1>4, <2>1
  <1>5. CASE g \in {Book("account", "Payables"), Book("budget", "Health"), Book("limit", "Health"), Book("post", "demo:invoice")}
    BY <1>5
  <1>6. CASE g \in {Find("link", "Document", <<"document", 0>>), Find("watermark", "RuntimeState", state)}
    BY <1>6
  <1>7. CASE g \in {IsPaused, Pause, Restore}
    BY <1>7
  <1> QED  BY <1>2, <1>3, <1>4, <1>5, <1>6, <1>7 DEF DemoGoals, LoadGoals

\* What a goal of the Turn is, by the Operation it executes.
TurnGoal(op, n, g) ==
    /\ MakesOK("turn", g) /\ WritesOK("turn", g)
    /\ g.do \in {"create", "merge", "look", "extract", "scan", "post"}
    /\ "key" \in DOMAIN g <=> g.do # "post"
    /\ g.do = "create" => op \in Creators /\ g.key = <<op, n>>
    /\ g.do = "merge" => g.key = <<"thingstore.create", 1>> /\ g.new.rows = {[seq |-> 2, by |-> "assistant"]}
    /\ Reads(g) => g.key = post /\ "replace" \in DOMAIN g /\ g.replace \in BOOLEAN
    /\ ~Reads(g) => "replace" \notin DOMAIN g

\* A Turn executes one goal at a time.
LEMMA TurnFacts ==
    ASSUME NEW op \in Operations, NEW n \in Nat, NEW todo \in execute(op, <<op, n>>) \ {Refused}
    PROVE  todo = <<todo[1]>> /\ TurnGoal(op, n, todo[1])
  <1> USE DEF TurnGoal, MakesOK, WritesOK, Creates, Writer, Reads, MadeBy, WrittenBy, Make, Find, Book, state
  <1>1. CASE op = "thingstore.create"
    <2>1. PICK m \in {"Process", "Assistant"} : /\ m \in WRITABLE_MODELS
                                                /\ todo = <<Make("create", Thing(m, <<op, n>>, "seed", FALSE))>>
      BY <1>1 DEF execute, thingstoreCreate, Refused
    <2>2. IsDoc(Thing("Process", <<op, n>>, "seed", FALSE))
      BY <1>1, ThingIs DEF SPECS, Labels, Fixed, Creators
    <2>3. m = "Process"
      BY <2>1 DEF WRITABLE_MODELS
    <2> QED  BY <1>1, <2>1, <2>2, <2>3 DEF Thing, Creators
  <1>2. CASE op = "thingstore.update"
    <2>1. todo = <<[do |-> "merge", model |-> "Process", key |-> <<"thingstore.create", 1>>,
                    new |-> [Nobody EXCEPT !.rows = {[seq |-> 2, by |-> "assistant"]}]]>>
      BY <1>2 DEF execute, thingstoreUpdate
    <2> QED  BY <2>1 DEF Nobody
  <1>3. CASE op \in {"thingstore.get", "thingstore.search"}
    <2>1. todo \in thingstoreGet(<<op, n>>) \ {Refused}
      BY <1>3 DEF execute, thingstoreSearch
    <2>2. PICK m \in {"Document", "Operation"} : todo = <<Find("look", m, post)>>
      BY <2>1 DEF thingstoreGet
    <2> QED  BY <2>2
  <1>4. CASE op \in {"ui.askUser", "bank.sendMoney"}
    <2>1. todo = <<Make("create", Thing("OpenQuestion", <<op, n>>, "none", FALSE))>>
      BY <1>4 DEF execute, askUser, manualConnector
    <2>2. IsDoc(Thing("OpenQuestion", <<op, n>>, "none", FALSE))
      BY <1>4, ThingIs DEF SPECS, Labels, Fixed, Creators
    <2> QED  BY <1>4, <2>1, <2>2 DEF Thing, Creators
  <1>5. CASE op \in {"document.extractText", "document.readScan"}
    <2>1. PICK do \in {"extract", "scan"}, replace \in BOOLEAN : todo = Reading(do, replace)
      BY <1>5 DEF execute, extractText, readScan
    <2> QED  BY <2>1 DEF Reading, post
  <1>6. CASE op = "email.receive"
    BY <1>6 DEF execute, emailReceive
  <1>7. CASE op = "postTransaction"
    <2>1. todo = <<Book("post", "turn:invoice")>>
      BY <1>7 DEF execute
    <2> QED  BY <2>1
  <1> QED  BY <1>1, <1>2, <1>3, <1>4, <1>5, <1>6, <1>7, HouseholdAssumption

\* The goals of a Turn.
LEMMA TurnGoalFacts ==
    ASSUME NEW g \in TurnGoals
    PROVE  \E op \in Operations : \E n \in Nat : TurnGoal(op, n, g)
  <1>1. PICK op \in Operations, n \in Nat : g \in GoalsOfCall(op, n)
    BY DEF TurnGoals
  <1>2. PICK todo \in execute(op, <<op, n>>) \ {Refused} : g = todo[1]
    BY <1>1 DEF GoalsOfCall
  <1> QED  BY <1>2, TurnFacts

\* What every goal satisfies.
LEMMA GoalFacts ==
    ASSUME NEW p \in Runs, NEW g \in GoalsOf[p]
    PROVE  /\ MakesOK(p, g) /\ WritesOK(p, g)
           /\ g.do = "restore" <=> p = "demo" /\ g = Restore
           /\ g.do \in {"isPaused", "pause"} <=> p = "demo" /\ g \in {IsPaused, Pause}
  <1>1. CASE p = "bootstrap"
    BY <1>1, SeedFacts DEF GoalsOf
  <1>2. CASE p = "demo"
    BY <1>2, DemoFacts DEF GoalsOf
  <1>3. CASE p = "turn"
    BY <1>3, TurnGoalFacts DEF GoalsOf, TurnGoal
  <1> QED  BY <1>1, <1>2, <1>3, HouseholdAssumption

\* Each program makes and writes Things of its own.
LEMMA Owners ==
    ASSUME NEW p \in Runs, NEW q \in Runs, p # q
    PROVE  MadeBy[p] \cap MadeBy[q] = {} /\ WrittenBy[p] \cap WrittenBy[q] = {}
  BY HouseholdAssumption DEF MadeBy, WrittenBy, Creators

-----------------------------------------------------------------------------
(* What a goal writes.                                                       *)

\* NoWrite has no fields.
LEMMA NoWriteIs == DOMAIN NoWrite = {}
  BY DEF NoWrite

\* The map of fields of a Document or of the RuntimeState.
LEMMA MapIs ==
    ASSUME NEW d, d.model \in DOMAIN SPECS
    PROVE  /\ DOMAIN fromDocument(d) \subseteq {"machine", "human", "rows"}
           /\ \A f \in DOMAIN fromDocument(d) : fromDocument(d)[f] = d[f]
  <1>1. SPECS[d.model] \subseteq {"machine", "human", "rows"}
    BY DEF SPECS
  <1> QED  BY <1>1 DEF fromDocument

\* What is written to a Thing that was found keeps it a Thing.
LEMMA WritesIs ==
    ASSUME NEW p \in Runs, NEW g \in GoalsOf[p], NEW d, IsDoc(d), d.there, "key" \in DOMAIN g, d.key = g.key,
           NEW was \in {"none", "on", "off"}, g = Restore => was # "none",
           Writes(g, d, was) # NoWrite
    PROVE  Writer(g) /\ WriteOK(g, Writes(g, d, was))
  <1>1. CASE p = "bootstrap"
    <2>1. g.do = "seed" /\ g.model \in {"Operation", "Assistant", "RuntimeState"} /\ (g.key = state <=> g.model = "RuntimeState")
      BY <1>1, SeedFacts DEF GoalsOf
    <2>2. Writes(g, d, was) = [machine |-> "new"] /\ g.model # "RuntimeState"
      BY <2>1 DEF Writes, mirror, Reads
    <2> QED  BY <2>1, <2>2 DEF Writer, WriteOK
  <1>2. CASE p = "demo"
    <2>0. /\ g.do \in {"create", "link", "watermark", "isPaused", "pause", "restore"}
          /\ g.do = "restore" => g = Restore
          /\ g.do # "link" /\ g.do # "create" => g.key = state
          /\ g.do = "link" => g.key = <<"document", 0>>
      BY <1>2, DemoFacts DEF GoalsOf
    <2>1. CASE g.do = "pause"
      BY <2>1 DEF Writes, Writer, WriteOK, Reads
    <2>2. CASE g.do = "restore"
      BY <2>0, <2>2 DEF Writes, Writer, WriteOK, Reads
    <2>3. CASE g.do \in {"link", "watermark"}
      <3>1. Writes(g, d, was) = [fromDocument(d) EXCEPT !.machine = "new"]
        BY <2>3 DEF Writes, Reads
      <3>2. /\ DOMAIN fromDocument(d) \subseteq {"machine", "human", "rows"}
            /\ \A f \in DOMAIN fromDocument(d) : fromDocument(d)[f] = d[f]
        BY MapIs DEF IsDoc
      <3>3. g.key = state => d.human \in {"on", "off"}
        BY DEF IsDoc
      <3>4. RowsOK(d.rows)
        BY DEF IsDoc
      <3> QED  BY <2>3, <3>1, <3>2, <3>3, <3>4 DEF Writer, WriteOK
    <2>4. CASE g.do \in {"create", "isPaused"}
      BY <2>4 DEF Writes, Reads
    <2> QED  BY <2>0, <2>1, <2>2, <2>3, <2>4
  <1>3. CASE p = "turn"
    <2>0. PICK op \in Operations, n \in Nat : TurnGoal(op, n, g)
      BY <1>3, TurnGoalFacts DEF GoalsOf
    <2>1. g.do \in {"create", "merge", "look", "extract", "scan"}
      BY <2>0 DEF TurnGoal
    <2>2. CASE g.do = "merge"
      <3>1. Writes(g, d, was) = [rows |-> mergeRows(d.rows, g.new.rows)]
        BY <2>2 DEF Writes, Reads
      <3>2. RowsOK(mergeRows(d.rows, g.new.rows))
        BY <2>0, <2>2 DEF TurnGoal, RowsOK, mergeRows, IsDoc
      <3> QED  BY <2>2, <3>1, <3>2 DEF Writer, WriteOK
    <2>3. CASE Reads(g)
      <3>1. Writes(g, d, was) = [human |-> "read"]
        BY <2>3 DEF Writes, Reads
      <3>2. g.key # state
        BY <2>0, <2>3 DEF TurnGoal, post, state
      <3> QED  BY <2>3, <3>1, <3>2 DEF Writer, WriteOK, Reads
    <2>4. CASE g.do \in {"create", "look"}
      BY <2>4 DEF Writes, Reads
    <2> QED  BY <2>1, <2>2, <2>3, <2>4 DEF Reads
  <1> QED  BY <1>1, <1>2, <1>3, HouseholdAssumption

\* A write over what was read keeps the Thing and what it is.
LEMMA DocumentIs ==
    ASSUME NEW g, NEW raw, NEW w, IsDoc(raw), raw.there, raw.key = g.key, WriteOK(g, w)
    PROVE  LET d == toDocument(raw, w) IN
           /\ IsDoc(d) /\ d.there /\ d.key = raw.key /\ d.model = raw.model /\ d.file = raw.file
           /\ d.human = IF "human" \in DOMAIN w THEN w["human"] ELSE raw.human
           /\ d.rows = IF "rows" \in DOMAIN w THEN w["rows"] ELSE raw.rows
  <1> DEFINE d == toDocument(raw, w)
  <1>1. DOMAIN raw = DocFields /\ DOMAIN d = DocFields
    BY DEF IsDoc, toDocument
  <1>2. \A f \in DocFields : d[f] = IF f \in DOMAIN w THEN w[f] ELSE raw[f]
    BY <1>1 DEF toDocument
  <1> HIDE DEF d
  <1>3. /\ d.there = raw.there /\ d.key = raw.key /\ d.model = raw.model /\ d.file = raw.file
        /\ d.human = IF "human" \in DOMAIN w THEN w["human"] ELSE raw.human
        /\ d.rows = IF "rows" \in DOMAIN w THEN w["rows"] ELSE raw.rows
    BY <1>2 DEF WriteOK, DocFields
  <1>4. IsDoc(d)
    BY <1>1, <1>3 DEF IsDoc, WriteOK
  <1> QED  BY <1>3, <1>4 DEF d

-----------------------------------------------------------------------------
(* The programs.                                                             *)

\* The empty program.
LEMMA EmptySeq == ASSUME NEW S PROVE <<>> \in Seq(S) /\ Len(<<>>) = 0
  OBVIOUS

\* Bootstrap is made of seeds.
LEMMA BootTodo == bootstrap \in Seq(SeedGoals)
  <1>1. seedOperations \in Seq(SeedGoals) /\ seedState \in Seq(SeedGoals)
    BY DEF seedOperations, seedState, SeedGoals
  <1>2. seedAssistants \in Seq(SeedGoals)
    <2> DEFINE a == Thing("Assistant", <<"assistant", 0>>, "seed", FALSE)
    <2>1. ASSISTANT_SEEDS = <<a>> /\ Make("seed", a) \in SeedGoals
      BY DEF ASSISTANT_SEEDS, SeedGoals
    <2> HIDE DEF a
    <2>2. DOMAIN ASSISTANT_SEEDS = 1..1 /\ ASSISTANT_SEEDS[1] = a
      BY <2>1
    <2>3. seedAssistants = [i \in 1..1 |-> Make("seed", ASSISTANT_SEEDS[i])]
      BY <2>2 DEF seedAssistants
    <2>4. \A i \in 1..1 : Make("seed", ASSISTANT_SEEDS[i]) \in SeedGoals
      BY <2>1, <2>2
    <2> QED  BY <2>3, <2>4
  <1> QED  BY <1>1, <1>2 DEF bootstrap

\* Two sequences of goals make one.
LEMMA Joined ==
    ASSUME NEW S, NEW s \in Seq(S), NEW t \in Seq(S)
    PROVE  s \o t \in Seq(S) /\ Len(s \o t) = Len(s) + Len(t)
  OBVIOUS

\* One more.
LEMMA AppendOne ==
    ASSUME NEW S, NEW s \in Seq(S), NEW a \in S
    PROVE  /\ s \o <<a>> \in Seq(S) /\ Len(s \o <<a>>) = Len(s) + 1
           /\ \A i \in 1..Len(s) : (s \o <<a>>)[i] = s[i]
           /\ (s \o <<a>>)[Len(s) + 1] = a
  OBVIOUS

\* A sequence of one.
LEMMA OneGoal ==
    ASSUME NEW S, NEW a \in S
    PROVE  <<a>> \in Seq(S) /\ Len(<<a>>) = 1 /\ <<a>>[1] = a /\ <<a>> # <<>>
  OBVIOUS

\* Three things in a row.
LEMMA Three ==
    ASSUME NEW a, NEW b, NEW c
    PROVE  LET s == <<a>> \o <<b>> \o <<c>> IN DOMAIN s = 1..3 /\ s[1] = a /\ s[2] = b /\ s[3] = c
  <1> DEFINE s == <<a>> \o <<b>>
             S == {a, b, c}
  <1>1. s \in Seq(S) /\ c \in S /\ Len(s) = 2 /\ s[1] = a /\ s[2] = b
    OBVIOUS
  <1> HIDE DEF s, S
  <1>2. /\ s \o <<c>> \in Seq(S) /\ Len(s \o <<c>>) = Len(s) + 1
        /\ \A i \in 1..Len(s) : (s \o <<c>>)[i] = s[i]
        /\ (s \o <<c>>)[Len(s) + 1] = c
    BY <1>1, AppendOne
  <1>3. DOMAIN (s \o <<c>>) = 1..3
    BY <1>1, <1>2
  <1> QED  BY <1>1, <1>2, <1>3 DEF s

\* The last two of a sequence to which two were added.
LEMMA AppendTwo ==
    ASSUME NEW S, NEW s \in Seq(S), NEW a \in S, NEW b \in S
    PROVE  (s \o <<a, b>>)[Len(s) + 1] = a /\ (s \o <<a, b>>)[Len(s) + 2] = b
  OBVIOUS

\* A positive number is one, or more.
LEMMA OneOrMore ==
    ASSUME NEW n \in Nat, n >= 1
    PROVE  n = 1 \/ (n > 1 /\ n # 1)
  OBVIOUS

\* Only the empty sequence has no elements.
LEMMA NoElements == ASSUME NEW S, NEW t \in Seq(S) PROVE Len(t) = 0 <=> t = <<>>
  OBVIOUS

\* A sequence of goals that is not done.
LEMMA NotDone ==
    ASSUME NEW S, NEW t \in Seq(S), t # <<>>
    PROVE  /\ Len(t) \in Nat /\ Len(t) >= 1 /\ (Len(t) = 1 \/ (Len(t) > 1 /\ Len(t) # 1))
           /\ Head(t) = t[1] /\ t[1] \in S /\ t[Len(t)] \in S
           /\ Tail(t) \in Seq(S) /\ Len(Tail(t)) = Len(t) - 1
           /\ \A i \in 1..(Len(t) - 1) : Tail(t)[i] = t[i + 1]
           /\ Len(t) = 1 <=> Tail(t) = <<>>
  <1>1. Len(t) \in Nat /\ Len(t) >= 1
    OBVIOUS
  <1>2. Len(t) = 1 \/ (Len(t) > 1 /\ Len(t) # 1)
    BY <1>1, OneOrMore
  <1>3. Head(t) = t[1] /\ t[1] \in S /\ t[Len(t)] \in S
    BY <1>1
  <1>4. Tail(t) \in Seq(S) /\ Len(Tail(t)) = Len(t) - 1 /\ \A i \in 1..(Len(t) - 1) : Tail(t)[i] = t[i + 1]
    BY <1>1
  <1>5. Len(t) = 1 <=> Tail(t) = <<>>
    <2>1. Len(t) = 1 <=> Len(Tail(t)) = 0
      BY <1>1, <1>4
    <2> QED  BY <1>4, <2>1, NoElements
  <1> QED  BY <1>1, <1>2, <1>3, <1>4, <1>5

\* What a load does while the Runtime is paused.
LEMMA LoadTodo ==
    /\ demoThings \in Seq(LoadGoals) /\ linkDocuments \in Seq(LoadGoals)
    /\ books \in Seq(LoadGoals) /\ <<>> \in Seq(LoadGoals)
  <1>1. linkDocuments \in Seq(LoadGoals) /\ books \in Seq(LoadGoals) /\ <<>> \in Seq(LoadGoals)
    BY DEF linkDocuments, books, LoadGoals
  <1>2. /\ DOMAIN DEMO_THINGS = 1..3
        /\ DEMO_THINGS[1] = Thing("Party", <<"party", 0>>, "seed", FALSE)
        /\ DEMO_THINGS[2] = [Thing("Document", <<"document", 0>>, "seed", FALSE) EXCEPT !.machine = "old"]
        /\ DEMO_THINGS[3] = Thing("Invoice", <<"invoice", 0>>, "seed", FALSE)
    <2> DEFINE a == Thing("Party", <<"party", 0>>, "seed", FALSE)
               b == [Thing("Document", <<"document", 0>>, "seed", FALSE) EXCEPT !.machine = "old"]
               c == Thing("Invoice", <<"invoice", 0>>, "seed", FALSE)
    <2>1. DEMO_THINGS = <<a>> \o <<b>> \o <<c>>
      BY DEF DEMO_THINGS, DEMO_PARTIES, DEMO_DOCUMENTS, DEMO_INVOICES
    <2> HIDE DEF a, b, c
    <2>2. /\ DOMAIN (<<a>> \o <<b>> \o <<c>>) = 1..3 /\ (<<a>> \o <<b>> \o <<c>>)[1] = a
          /\ (<<a>> \o <<b>> \o <<c>>)[2] = b /\ (<<a>> \o <<b>> \o <<c>>)[3] = c
      BY Three
    <2> QED  BY <2>1, <2>2 DEF a, b, c
  <1>3. DOMAIN DEMO_THINGS = 1..3
    BY <1>2
  <1>4. \A i \in 1..3 : Make("create", DEMO_THINGS[i]) \in LoadGoals
    <2>1. /\ Make("create", DEMO_THINGS[1]) \in LoadGoals
          /\ Make("create", DEMO_THINGS[2]) \in LoadGoals
          /\ Make("create", DEMO_THINGS[3]) \in LoadGoals
      BY ONLY <1>2, Zenon DEF LoadGoals
    <2> QED  BY <2>1
  <1> HIDE DEF DEMO_THINGS
  <1>5. demoThings = [i \in 1..3 |-> Make("create", DEMO_THINGS[i])]
    BY <1>3 DEF demoThings
  <1> QED  BY <1>1, <1>4, <1>5

\* While it is paused, a load neither asks nor gives back.
LEMMA LoadGoalsAre == \A g \in LoadGoals : g \in DemoGoals /\ g # Restore /\ g # IsPaused /\ g # Pause
  <1>0. \A t : Make("create", t).do = "create"
    BY DEF Make
  <1>1. \A g \in LoadGoals : g.do \in {"create", "link", "watermark", "account", "budget", "limit", "post"}
    <2>1. \A d, m, k : Find(d, m, k).do = d
      BY DEF Find
    <2>2. \A d, n : Book(d, n).do = d
      BY DEF Book
    <2>3. Make("create", [Thing("Document", <<"document", 0>>, "seed", FALSE) EXCEPT !.machine = "old"]).do = "create"
      BY <1>0
    <2>4. /\ Make("create", Thing("Party", <<"party", 0>>, "seed", FALSE)).do = "create"
          /\ Make("create", Thing("Invoice", <<"invoice", 0>>, "seed", FALSE)).do = "create"
      BY <1>0
    <2>5. /\ Find("link", "Document", <<"document", 0>>).do = "link"
          /\ Find("watermark", "RuntimeState", state).do = "watermark"
      BY <2>1
    <2>6. /\ Book("account", "Payables").do = "account" /\ Book("budget", "Health").do = "budget"
          /\ Book("limit", "Health").do = "limit" /\ Book("post", "demo:invoice").do = "post"
      BY <2>2
    <2> QED  BY <2>3, <2>4, <2>5, <2>6, Zenon DEF LoadGoals
  <1>2. IsPaused.do = "isPaused" /\ Pause.do = "pause" /\ Restore.do = "restore"
    BY DEF IsPaused, Pause, Restore, Find
  <1> QED  BY <1>1, <1>2 DEF DemoGoals

\* The first part of a load: it asks, pauses and works.
Opening(s) ==
    /\ s \in Seq(DemoGoals) /\ Len(s) >= 2
    /\ s[1] = IsPaused /\ s[2] = Pause
    /\ \A i \in 3..Len(s) : s[i] \in LoadGoals

\* More work keeps it so.
LEMMA OpeningGrows ==
    ASSUME NEW s, Opening(s), NEW t \in Seq(LoadGoals)
    PROVE  Opening(s \o t)
  <1>1. t \in Seq(DemoGoals)
    BY DEF DemoGoals
  <1>2. s \in Seq(DemoGoals) /\ Len(s) \in Nat /\ Len(t) \in Nat /\ Len(s) >= 2
    BY DEF Opening
  <1>3. s \o t \in Seq(DemoGoals) /\ Len(s \o t) = Len(s) + Len(t)
    BY <1>1, <1>2, Joined
  <1>4. \A i \in 1..Len(s) : (s \o t)[i] = s[i]
    BY <1>1, <1>2
  <1>5. \A i \in (Len(s) + 1)..(Len(s) + Len(t)) : (s \o t)[i] \in LoadGoals
    BY <1>1, <1>2
  <1>6. \A i \in 3..Len(s \o t) : (s \o t)[i] \in LoadGoals
    <2> SUFFICES ASSUME NEW i \in 3..Len(s \o t) PROVE (s \o t)[i] \in LoadGoals
      OBVIOUS
    <2>1. CASE i <= Len(s)
      BY <1>2, <1>4, <2>1 DEF Opening
    <2>2. CASE i > Len(s)
      BY <1>2, <1>3, <1>5, <2>2
    <2> QED  BY <1>2, <2>1, <2>2
  <1> QED  BY <1>2, <1>3, <1>4, <1>6 DEF Opening

\* A load asks, pauses, works and gives back what it found.
LEMMA DemoTodo ==
    ASSUME NEW up \in BOOLEAN
    PROVE  loadDemo(up) \in Seq(DemoGoals) /\ Loading(loadDemo(up), "none") /\ loadDemo(up) # <<>>
  <1> DEFINE Watermark == Find("watermark", "RuntimeState", state)
             s == <<IsPaused, Pause>> \o demoThings \o linkDocuments \o (IF up THEN books ELSE <<>>)
             t == <<Watermark, Restore>>
  <1>1. Opening(<<IsPaused, Pause>>)
    BY DEF Opening, DemoGoals
  <1>2. Opening(s)
    <2>1. (IF up THEN books ELSE <<>>) \in Seq(LoadGoals)
      BY LoadTodo
    <2>2. Opening(<<IsPaused, Pause>> \o demoThings)
      BY <1>1, LoadTodo, OpeningGrows
    <2>3. Opening(<<IsPaused, Pause>> \o demoThings \o linkDocuments)
      BY <2>2, LoadTodo, OpeningGrows
    <2> QED  BY <2>1, <2>3, OpeningGrows
  <1>3. loadDemo(up) = s \o t
    BY DEF loadDemo, IsPaused, Pause, Restore
  <1>4. t \in Seq(DemoGoals) /\ Len(t) = 2 /\ t[1] = Watermark /\ t[2] = Restore /\ Watermark \in LoadGoals
    BY DEF DemoGoals, LoadGoals
  <1> HIDE DEF s, t, Watermark
  <1>5. s \in Seq(DemoGoals) /\ Len(s) \in Nat /\ Len(s) >= 2
    BY <1>2 DEF Opening
  <1>6. /\ s \o t \in Seq(DemoGoals) /\ Len(s \o t) = Len(s) + 2
        /\ \A i \in 1..Len(s) : (s \o t)[i] = s[i]
        /\ (s \o t)[Len(s) + 1] = t[1] /\ (s \o t)[Len(s) + 2] = t[2]
    <2>1. s \o t \in Seq(DemoGoals) /\ Len(s \o t) = Len(s) + 2
      BY <1>4, <1>5, Joined
    <2>2. \A i \in 1..Len(s) : (s \o t)[i] = s[i]
      BY <1>4, <1>5
    <2>3. (s \o t)[Len(s) + 1] = Watermark /\ (s \o t)[Len(s) + 2] = Restore
      BY <1>4, <1>5, LoadGoalsAre, AppendTwo DEF t, DemoGoals
    <2> QED  BY <1>4, <2>1, <2>2, <2>3
  <1>7. /\ (s \o t)[1] = IsPaused /\ (s \o t)[2] = Pause
        /\ \A i \in 3..(Len(s) + 1) : (s \o t)[i] \in LoadGoals
    <2>1. \A i \in 3..Len(s) : (s \o t)[i] \in LoadGoals
      BY <1>2, <1>5, <1>6 DEF Opening
    <2> QED  BY <1>2, <1>4, <1>5, <1>6, <2>1 DEF Opening
  <1> DEFINE u == s \o t
  <1>8. IsPaused # Pause /\ IsPaused # Restore /\ Pause # Restore
    BY DEF IsPaused, Pause, Restore, Find
  <1> HIDE DEF u
  <1>9. /\ Len(u) = Len(s) + 2 /\ u[Len(s) + 2] = Restore /\ u[1] = IsPaused /\ u[2] = Pause
        /\ \A i \in 3..(Len(s) + 1) : u[i] \in LoadGoals
    BY <1>4, <1>6, <1>7 DEF u
  <1>10. \A i \in 1..(Len(u) - 1) : /\ u[i] # Restore /\ (u[i] = IsPaused => i = 1) /\ (u[i] = Pause => i = 1 \/ (i = 2 /\ u[1] = IsPaused))
    <2> SUFFICES ASSUME NEW i \in 1..(Len(s) + 1)
                 PROVE  u[i] # Restore /\ (u[i] = IsPaused => i = 1) /\ (u[i] = Pause => i = 1 \/ (i = 2 /\ u[1] = IsPaused))
      BY <1>5, <1>9
    <2>1. CASE i = 1
      BY <1>8, <1>9, <2>1
    <2>2. CASE i = 2
      BY <1>8, <1>9, <2>2
    <2>3. CASE i \in 3..(Len(s) + 1)
      BY <1>9, <2>3, LoadGoalsAre
    <2> QED  BY <1>5, <2>1, <2>2, <2>3
  <1>11. u # <<>>
    BY <1>5, <1>9
  <1>12. Loading(u, "none")
    BY <1>5, <1>9, <1>10, <1>11 DEF Loading
  <1> QED  BY <1>3, <1>6, <1>11, <1>12 DEF u

\* The next goal of a load.
LEMMA LoadingTail ==
    ASSUME NEW t \in Seq(DemoGoals), NEW was, Loading(t, was), t # <<>>, NEW v, v # "none"
    PROVE  Loading(Tail(t), IF Len(t) = 1 THEN "none" ELSE v)
  <1>1. /\ Len(t) \in Nat /\ Len(t) >= 1 /\ Len(Tail(t)) = Len(t) - 1
        /\ Len(t) = 1 <=> Tail(t) = <<>>
    BY NotDone
  <1>2. \A i \in 1..Len(Tail(t)) : Tail(t)[i] = t[i + 1]
    BY NotDone
  <1>3. CASE Len(t) = 1
    <2>1. Tail(t) = <<>>
      BY <1>1, <1>3
    <2> QED  BY <1>3, <2>1 DEF Loading
  <1>4. CASE Len(t) > 1
    <2> DEFINE u == Tail(t)
    <2>1. Len(u) = Len(t) - 1 /\ u # <<>> /\ \A i \in 1..Len(u) : u[i] = t[i + 1]
      BY <1>1, <1>2, <1>4
    <2> HIDE DEF u
    <2>2. u[Len(u)] = Restore
      BY <1>1, <1>4, <2>1 DEF Loading
    <2>3. \A i \in 1..(Len(u) - 1) : u[i] # Restore /\ u[i] # IsPaused /\ (u[i] = Pause => i = 1)
      <3> SUFFICES ASSUME NEW i \in 1..(Len(u) - 1)
                   PROVE  u[i] # Restore /\ u[i] # IsPaused /\ (u[i] = Pause => i = 1)
        OBVIOUS
      <3>1. i + 1 \in 1..(Len(t) - 1) /\ u[i] = t[i + 1] /\ i + 1 # 1
        BY <1>1, <1>4, <2>1
      <3>2. /\ t[i + 1] # Restore
            /\ t[i + 1] = IsPaused => i + 1 = 1
            /\ t[i + 1] = Pause => i + 1 = 1 \/ (i + 1 = 2 /\ t[1] = IsPaused)
        BY <3>1 DEF Loading
      <3>3. i + 1 = 2 => i = 1
        OBVIOUS
      <3> QED  BY <3>1, <3>2, <3>3
    <2>4. u[1] # IsPaused
      <3>1. IsPaused # Restore
        BY DEF IsPaused, Restore, Find
      <3>2. CASE Len(u) = 1
        BY <2>2, <3>1, <3>2
      <3>3. CASE Len(u) > 1
        BY <1>1, <2>1, <2>3, <3>3
      <3> QED  BY <1>1, <1>4, <2>1, <3>2, <3>3
    <2>5. Loading(u, v)
      BY <1>1, <2>1, <2>2, <2>3, <2>4 DEF Loading
    <2>6. Len(t) # 1
      BY <1>1, <1>4
    <2> QED  BY <2>5, <2>6 DEF u
  <1> QED  BY <1>1, <1>3, <1>4

\* A load that is not at its restore has been paused, or is at the beginning.
LEMMA LoadingHead ==
    ASSUME NEW t \in Seq(DemoGoals), NEW was, Loading(t, was), t # <<>>
    PROVE  /\ Head(t) = t[1] /\ Head(t) \in DemoGoals
           /\ was = "none" <=> Head(t) = IsPaused
           /\ Head(t) = IsPaused => Len(t) > 1
           /\ Len(t) = 1 <=> Head(t) = Restore
  <1>1. Len(t) \in Nat /\ Len(t) >= 1 /\ Head(t) = t[1] /\ t[1] \in DemoGoals
    BY NotDone
  <1>2. IsPaused # Restore
    BY DEF IsPaused, Restore, Find
  <1>3. Head(t) \in DemoGoals
    BY <1>1
  <1>4. Len(t) = 1 => t[1] = Restore
    BY DEF Loading
  <1>5. Len(t) > 1 => t[1] # Restore
    <2>1. Len(t) > 1 => 1 \in 1..(Len(t) - 1)
      BY <1>1
    <2> QED  BY <2>1 DEF Loading
  <1>6. was = "none" <=> t[1] = IsPaused
    BY DEF Loading
  <1>7. Len(t) = 1 \/ Len(t) > 1
    BY NotDone
  <1> QED  BY <1>1, <1>2, <1>3, <1>4, <1>5, <1>6, <1>7

-----------------------------------------------------------------------------
(* How a program goes on.                                                    *)

\* The first goal of what is left is a goal of the program.
LEMMA HeadIs ==
    ASSUME NEW p \in Runs, NEW q, IsProc(p, q), q.todo # <<>>
    PROVE  /\ Head(q.todo) \in GoalsOf[p]
           /\ Head(q.todo) = IsPaused => p = "demo" /\ Len(q.todo) # 1
           /\ Head(q.todo) = Restore => p = "demo" /\ q.was # "none" /\ Len(q.todo) = 1
           /\ p = "demo" => (q.was = "none" <=> Head(q.todo) = IsPaused) /\ (Len(q.todo) = 1 <=> Head(q.todo) = Restore)
           /\ p # "demo" => q.was = "none"
  <1>1. Head(q.todo) \in GoalsOf[p]
    BY NotDone DEF IsProc
  <1>2. IsPaused.do = "isPaused" /\ Restore.do = "restore" /\ IsPaused # Restore
    BY DEF IsPaused, Restore, Find
  <1>3. Head(q.todo) \in {IsPaused, Restore} => p = "demo"
    BY <1>1, <1>2, GoalFacts
  <1>4. p = "demo" => /\ q.was = "none" <=> Head(q.todo) = IsPaused
                      /\ Head(q.todo) = IsPaused => Len(q.todo) > 1
                      /\ Len(q.todo) = 1 <=> Head(q.todo) = Restore
    BY LoadingHead DEF IsProc, GoalsOf
  <1>5. p # "demo" => q.was = "none"
    BY DEF IsProc
  <1> QED  BY <1>1, <1>2, <1>3, <1>4, <1>5

\* A program at the beginning of a goal.
LEMMA AtFind ==
    ASSUME NEW p \in Runs, NEW x, DOMAIN x = ProcFields, x.pc = "find", x.todo \in Seq(GoalsOf[p]),
           x.was \in {"none", "on", "off"}, IF p = "demo" THEN Loading(x.todo, x.was) ELSE x.was = "none",
           p = "turn" => Len(x.todo) <= 1
    PROVE  IsProc(p, x) /\ \A d : Standing(d, x)
  BY DEF IsProc, Placed, Standing, Writing

\* A program that has ended.
LEMMA EndedIs ==
    ASSUME NEW p \in Runs
    PROVE  /\ IsProc(p, Ended) /\ Ended.todo = <<>> /\ Ended.was = "none" /\ DOMAIN Ended = ProcFields
           /\ Ended.pc = "find" /\ Ended.ref = 0
  <1>1. /\ DOMAIN Ended = ProcFields /\ Ended.pc = "find" /\ Ended.todo = <<>> /\ Ended.was = "none" /\ Ended.ref = 0
    BY DEF Ended, ProcFields
  <1> HIDE DEF Ended
  <1>2. <<>> \in Seq(GoalsOf[p]) /\ Len(<<>>) = 0
    BY EmptySeq
  <1>3. Loading(Ended.todo, Ended.was) /\ Ended.todo \in Seq(GoalsOf[p]) /\ Len(Ended.todo) <= 1
    BY <1>1, <1>2 DEF Loading
  <1>4. IsProc(p, Ended)
    BY <1>1, <1>3, AtFind
  <1> QED  BY <1>1, <1>4

\* On to the next goal, with v known of the kill switch.
LEMMA ReturnsIs ==
    ASSUME NEW p \in Runs, NEW q, IsProc(p, q), q.todo # <<>>, NEW v \in {"none", "on", "off"},
           p = "demo" => v # "none", p # "demo" => v = "none",
           NEW x, DOMAIN x = ProcFields, x.pc = "find", x.todo = Tail(q.todo),
           x.was = IF Len(q.todo) = 1 THEN "none" ELSE v
    PROVE  IsProc(p, x)
  <1>1. x.todo \in Seq(GoalsOf[p]) /\ Len(x.todo) = Len(q.todo) - 1 /\ Len(q.todo) \in Nat
    BY NotDone DEF IsProc
  <1>2. ASSUME p = "demo" PROVE Loading(x.todo, x.was)
    <2>1. q.todo \in Seq(DemoGoals) /\ Loading(q.todo, q.was) /\ v # "none"
      BY <1>2 DEF IsProc, GoalsOf
    <2>2. Loading(Tail(q.todo), IF Len(q.todo) = 1 THEN "none" ELSE v)
      BY <2>1, LoadingTail
    <2> QED  BY <2>2
  <1>3. p = "turn" => Len(x.todo) <= 1
    BY <1>1 DEF IsProc
  <1> QED  BY <1>1, <1>2, <1>3, AtFind

\* What Return makes of a program.
LEMMA ReturnIs ==
    ASSUME NEW S, NEW q, DOMAIN q = ProcFields, q.todo \in Seq(S), q.todo # <<>>
    PROVE  /\ DOMAIN Return(q) = ProcFields /\ Return(q).pc = "find" /\ Return(q).todo = Tail(q.todo)
           /\ Return(q).was = (IF Len(q.todo) = 1 THEN "none" ELSE q.was) /\ Return(q).ref = 0
  <1>1. Len(q.todo) = 1 => Tail(q.todo) = <<>>
    BY NotDone
  <1>2. CASE Len(q.todo) = 1
    BY <1>1, <1>2 DEF Return, Ended, ProcFields
  <1>3. CASE Len(q.todo) # 1
    BY <1>3 DEF Return, Ended, ProcFields
  <1> QED  BY <1>2, <1>3

\* A goal other than isPaused is reached.
LEMMA Returned ==
    ASSUME NEW p \in Runs, NEW q, IsProc(p, q), q.todo # <<>>, Head(q.todo) # IsPaused
    PROVE  /\ IsProc(p, Return(q)) /\ Return(q).pc = "find" /\ Return(q).ref = 0
           /\ Return(q).todo = Tail(q.todo)
           /\ Return(q).was = (IF Len(q.todo) = 1 THEN "none" ELSE q.was)
  <1>1. /\ DOMAIN Return(q) = ProcFields /\ Return(q).pc = "find" /\ Return(q).todo = Tail(q.todo)
        /\ Return(q).was = (IF Len(q.todo) = 1 THEN "none" ELSE q.was) /\ Return(q).ref = 0
    BY ReturnIs DEF IsProc
  <1>2. /\ q.was \in {"none", "on", "off"} /\ (p = "demo" => q.was # "none") /\ (p # "demo" => q.was = "none")
    BY HeadIs DEF IsProc
  <1>3. IsProc(p, Return(q))
    BY <1>1, <1>2, ReturnsIs
  <1> QED  BY <1>1, <1>3

\* A program fails: it ends, or goes to give back the kill switch.
LEMMA FailedIs ==
    ASSUME NEW p \in Runs, NEW q, IsProc(p, q), q.todo # <<>>
    PROVE  /\ IsProc(p, Failed(q)) /\ Failed(q).pc = "find" /\ Failed(q).ref = 0
           /\ \/ Failed(q).todo = <<>> /\ Failed(q).was = "none"
                 /\ (q.was = "none" \/ \E i \in DOMAIN q.todo : q.todo[i].do = "pause" \/ Len(q.todo) = 1)
              \/ Failed(q).todo = <<Restore>> /\ Failed(q).was = q.was /\ p = "demo"
  <1> DEFINE pauses == \E i \in DOMAIN q.todo : q.todo[i].do \in {"isPaused", "pause"}
             last == q.todo[Len(q.todo)]
  <1>1. /\ Len(q.todo) \in Nat /\ Len(q.todo) >= 1 /\ last \in GoalsOf[p] /\ Head(q.todo) = q.todo[1]
        /\ Len(q.todo) = 1 \/ Len(q.todo) > 1
    BY NotDone DEF IsProc
  <1>2. last.do = "restore" => p = "demo" /\ last = Restore
    BY <1>1, GoalFacts
  <1>3. CASE last.do = "restore" /\ Len(q.todo) > 1 /\ ~pauses
    <2>1. Failed(q) = [Ended EXCEPT !.todo = <<last>>, !.was = q.was]
      BY <1>3 DEF Failed
    <2> DEFINE x == Failed(q)
    <2>2. /\ DOMAIN x = ProcFields /\ x.pc = "find" /\ x.todo = <<Restore>> /\ x.was = q.was /\ x.ref = 0
      BY <1>2, <1>3, <2>1 DEF Ended, ProcFields
    <2>3. q.was # "none"
      <3>1. IsPaused.do = "isPaused" /\ 1 \in DOMAIN q.todo
        BY <1>1 DEF IsPaused, Find, IsProc
      <3>2. Head(q.todo) # IsPaused
        BY <1>1, <1>3, <3>1
      <3> QED  BY <1>2, <1>3, <3>2, HeadIs
    <2>4. Restore \in GoalsOf[p] /\ Restore # IsPaused
      BY <1>1, <1>2, <1>3 DEF IsPaused, Restore, Find
    <2> HIDE DEF x
    <2>5. <<Restore>> \in Seq(GoalsOf[p]) /\ Len(<<Restore>>) = 1 /\ <<Restore>>[1] = Restore /\ <<Restore>> # <<>>
      BY <2>4, OneGoal
    <2>6. Loading(x.todo, x.was)
      BY <2>2, <2>3, <2>4, <2>5 DEF Loading
    <2>7. IsProc(p, x)
      BY <1>2, <1>3, <2>2, <2>5, <2>6, AtFind DEF IsProc
    <2> QED  BY <1>2, <1>3, <2>2, <2>7 DEF x
  <1>4. CASE ~(last.do = "restore" /\ Len(q.todo) > 1 /\ ~pauses)
    <2>1. Failed(q) = Ended
      BY <1>4 DEF Failed
    <2>2. q.was = "none" \/ \E i \in DOMAIN q.todo : q.todo[i].do = "pause" \/ Len(q.todo) = 1
      <3>1. SUFFICES ASSUME q.was # "none", Len(q.todo) # 1 PROVE \E i \in DOMAIN q.todo : q.todo[i].do = "pause"
        <4>1. 1 \in DOMAIN q.todo
          BY <1>1 DEF IsProc
        <4> QED  BY <4>1
      <3>2. p = "demo" /\ Loading(q.todo, q.was)
        BY <3>1 DEF IsProc
      <3>3. last = Restore /\ Restore.do = "restore"
        BY <3>2 DEF Loading, Restore, Find
      <3>4. PICK i \in DOMAIN q.todo : q.todo[i].do \in {"isPaused", "pause"}
        BY <1>1, <1>4, <3>1, <3>3
      <3>5. i \in 1..Len(q.todo) /\ q.todo[i] \in DemoGoals
        BY <3>2, <3>4 DEF IsProc, GoalsOf
      <3>6. q.todo[i].do # "isPaused"
        <4> SUFFICES ASSUME q.todo[i].do = "isPaused" PROVE FALSE
          OBVIOUS
        <4>1. q.todo[i] = IsPaused
          BY <3>5, DemoFacts
        <4>2. IsPaused # Restore
          BY DEF IsPaused, Restore, Find
        <4>3. i = 1
          BY <1>1, <3>2, <3>3, <3>5, <4>1, <4>2 DEF Loading
        <4> QED  BY <1>1, <3>1, <3>2, <4>1, <4>3, HeadIs
      <3> QED  BY <3>4, <3>6
    <2> QED  BY <2>1, <2>2, EndedIs
  <1> QED  BY <1>3, <1>4

\* Further with the same goal.
LEMMA Onward ==
    ASSUME NEW p, NEW q, IsProc(p, q), q.todo # <<>>, NEW x, DOMAIN x = ProcFields, x.todo = q.todo, x.was = q.was, Placed(x)
    PROVE  IsProc(p, x)
  BY DEF IsProc

-----------------------------------------------------------------------------
(* What a step does to the Things.                                           *)

\* Things stay what they are, and what program p adds is one of its own.
Keeps(p, d, e) ==
    /\ DOMAIN e = Refs /\ \A r \in Refs : IsDoc(e[r])
    /\ \A r \in Refs : d[r].there => e[r].there /\ e[r].key = d[r].key /\ e[r].model = d[r].model
    /\ \A r \in Refs : ~d[r].there /\ e[r].there => e[r].key[1] \in MadeBy[p]

\* Nothing, a Thing that is made, or one that is written.
LEMMA DocSteps ==
    ASSUME Shape, NEW p \in Runs, docs' = docs \/ Insert(p) \/ Modify(p)
    PROVE  Keeps(p, docs, docs')
  <1>0. /\ DOMAIN docs = Refs /\ \A r \in Refs : IsDoc(docs[r])
        /\ IsProc(p, proc[p]) /\ (proc[p].todo # <<>> => Standing(docs, proc[p]) /\ Placed(proc[p]))
    BY DEF Shape, IsProc
  <1>1. CASE docs' = docs
    BY <1>0, <1>1 DEF Keeps
  <1>2. CASE Insert(p)
    <2>1. PICK r \in Refs : ~docs[r].there /\ docs' = [docs EXCEPT ![r] = Goal(p).new]
      BY <1>2 DEF Insert
    <2>2. Goal(p) \in GoalsOf[p] /\ Creates(Goal(p))
      BY <1>0, <1>2, HeadIs DEF Insert, At, Goal, Placed
    <2>3. IsDoc(Goal(p).new) /\ Goal(p).new.key[1] \in MadeBy[p]
      BY <2>2, GoalFacts DEF MakesOK
    <2> QED  BY <1>0, <2>1, <2>3 DEF Keeps
  <1>3. CASE Modify(p)
    <2> DEFINE q == proc[p]
    <2>1. docs' = [docs EXCEPT ![q.ref] = toDocument(q.raw, q.write)] /\ q.todo # <<>> /\ q.pc = "modify"
      BY <1>3 DEF Modify, At
    <2>2. /\ q.ref \in Refs /\ docs[q.ref].there /\ docs[q.ref].key = Head(q.todo).key
          /\ q.raw.there /\ q.raw.key = Head(q.todo).key /\ q.raw.model = docs[q.ref].model
          /\ IsDoc(q.raw) /\ WriteOK(Head(q.todo), q.write)
      BY <1>0, <2>1 DEF Standing, Placed, Writing
    <2>3. LET d == toDocument(q.raw, q.write) IN IsDoc(d) /\ d.there /\ d.key = q.raw.key /\ d.model = q.raw.model
      BY <2>2, DocumentIs
    <2> QED  BY <1>0, <2>1, <2>2, <2>3 DEF Keeps
  <1> QED  BY <1>1, <1>2, <1>3

\* A step of one program leaves the others standing where they are.
LEMMA ShapeKept ==
    ASSUME Shape, NEW p \in Runs, Keeps(p, docs, docs'), NEW x, proc' = [proc EXCEPT ![p] = x],
           IsProc(p, x), x.todo # <<>> => Standing(docs', x)
    PROVE  Shape'
  <1>1. DOMAIN docs' = Refs /\ \A r \in Refs : IsDoc(docs'[r])
    BY DEF Keeps
  <1>2. DOMAIN proc' = Runs /\ proc'[p] = x /\ \A q \in Runs : q # p => proc'[q] = proc[q]
    BY DEF Shape
  <1>3. \A q \in Runs : IsProc(q, proc'[q])
    BY <1>2 DEF Shape
  <1>4. ASSUME NEW q \in Runs, q # p, proc[q].todo # <<>> PROVE Standing(docs', proc[q])
    <2> DEFINE g == Head(proc[q].todo)
    <2>1. Standing(docs, proc[q]) /\ IsProc(q, proc[q]) /\ Placed(proc[q])
      BY <1>4 DEF Shape, IsProc
    <2>2. proc[q].pc = "insert" => \A r \in Refs : docs'[r].there => docs'[r].key # g.key
      <3> SUFFICES ASSUME proc[q].pc = "insert", NEW r \in Refs, docs'[r].there, docs'[r].key = g.key PROVE FALSE
        OBVIOUS
      <3>1. ~docs[r].there
        BY <2>1 DEF Standing, Keeps
      <3>2. docs'[r].key[1] \in MadeBy[p]
        BY <3>1 DEF Keeps
      <3>3. g \in GoalsOf[q] /\ Creates(g)
        BY <1>4, <2>1, HeadIs DEF Placed
      <3>4. g.key[1] \in MadeBy[q]
        BY <3>3, GoalFacts DEF MakesOK
      <3> QED  BY <1>4, <3>2, <3>4, Owners
    <2>3. proc[q].pc \in Writing => LET ref == proc[q].ref IN
              ref \in Refs /\ docs'[ref].there /\ docs'[ref].key = g.key /\ docs'[ref].model = docs[ref].model
      BY <2>1 DEF Standing, Keeps
    <2> QED  BY <2>1, <2>2, <2>3 DEF Standing, Writing
  <1> QED  BY <1>1, <1>2, <1>3, <1>4 DEF Shape

-----------------------------------------------------------------------------
(* The shape of things, step by step.                                        *)

\* Program p lands where a program may stand.
Lands(p) ==
    /\ proc' = [proc EXCEPT ![p] = proc'[p]]
    /\ IsProc(p, proc'[p])
    /\ proc'[p].todo # <<>> => Standing(docs', proc'[p])

\* What is known of a program that runs.
LEMMA Running ==
    ASSUME Shape, NEW p \in Runs, proc[p].todo # <<>>
    PROVE  /\ DOMAIN proc = Runs /\ IsProc(p, proc[p]) /\ Placed(proc[p]) /\ Standing(docs, proc[p])
           /\ DOMAIN proc[p] = ProcFields /\ Goal(p) = Head(proc[p].todo) /\ Goal(p) \in GoalsOf[p]
           /\ DOMAIN docs = Refs /\ \A r \in Refs : IsDoc(docs[r])
  BY HeadIs DEF Shape, IsProc, Goal

\* A program at the beginning of a goal lands.
LEMMA LandsAtFind ==
    ASSUME Shape, NEW p \in Runs, NEW x, proc' = [proc EXCEPT ![p] = x], IsProc(p, x), x.pc = "find"
    PROVE  Lands(p)
  <1>1. proc'[p] = x
    BY DEF Shape
  <1>2. Standing(docs', x)
    BY DEF Standing, Writing
  <1> QED  BY <1>1, <1>2 DEF Lands

\* One that reaches its goal, or fails, or ends.
LEMMA LandsAfter ==
    ASSUME Shape, NEW p \in Runs, proc[p].todo # <<>>,
           \/ proc' = [proc EXCEPT ![p] = Return(proc[p])] /\ Goal(p) # IsPaused
           \/ proc' = [proc EXCEPT ![p] = Failed(proc[p])]
           \/ proc' = [proc EXCEPT ![p] = Ended]
    PROVE  Lands(p)
  <1>1. IsProc(p, proc[p]) /\ Goal(p) = Head(proc[p].todo)
    BY Running
  <1>2. CASE proc' = [proc EXCEPT ![p] = Return(proc[p])] /\ Goal(p) # IsPaused
    BY <1>1, <1>2, Returned, LandsAtFind
  <1>3. CASE proc' = [proc EXCEPT ![p] = Failed(proc[p])]
    BY <1>1, <1>3, FailedIs, LandsAtFind
  <1>4. CASE proc' = [proc EXCEPT ![p] = Ended]
    BY <1>1, <1>4, EndedIs, LandsAtFind
  <1> QED  BY <1>2, <1>3, <1>4

\* A program whose place in the goal is not its beginning is not at isPaused.
LEMMA PastIsPaused ==
    ASSUME Shape, NEW p \in Runs, proc[p].todo # <<>>, proc[p].pc # "find"
    PROVE  Goal(p) # IsPaused
  <1>1. IsPaused.do = "isPaused"
    BY DEF IsPaused, Find
  <1> QED  BY <1>1, Running DEF Placed, Writing, Writer, Creates

\* What is found by its key: isPaused remembers it.
LEMMA FindsIsPaused ==
    ASSUME Shape, NEW p \in Runs, findByIdempotencyKey(p), Goal(p) = IsPaused
    PROVE  \E r \in Refs : /\ docs[r].there /\ docs[r].model = "RuntimeState" /\ docs[r].human \in {"on", "off"}
                           /\ DOMAIN proc'[p] = ProcFields /\ proc'[p].pc = "find"
                           /\ proc' = [proc EXCEPT ![p] = proc'[p]]
                           /\ proc'[p].todo = Tail(proc[p].todo) /\ proc'[p].was = docs[r].human
                           /\ IsProc(p, proc'[p]) /\ p = "demo"
  <1> DEFINE q == proc[p]
  <1>0. proc[p].todo # <<>> /\ DOMAIN proc = Runs
    BY DEF findByIdempotencyKey, At, Shape
  <1>1. PICK r \in Holding(Goal(p).key) :
           LET write == Writes(Goal(p), docs[r], proc[p].was)
               self == IF Goal(p).do = "isPaused" THEN [proc[p] EXCEPT !.was = docs[r].human] ELSE proc[p]
           IN  proc' = [proc EXCEPT ![p] = IF write = NoWrite THEN Return(self)
                                           ELSE [self EXCEPT !.ref = r, !.write = write,
                                                             !.pc = IF Reads(Goal(p)) THEN "download" ELSE "raw"]]
    BY DEF findByIdempotencyKey
  <1>2. Goal(p).do = "isPaused" /\ Goal(p).key = state
    BY DEF IsPaused, Find
  <1>3. Writes(Goal(p), docs[r], proc[p].was) = NoWrite
    BY <1>2 DEF Writes, Reads
  <1> DEFINE self == [q EXCEPT !.was = docs[r].human]
  <1>4. proc' = [proc EXCEPT ![p] = Return(self)]
    BY <1>1, <1>2, <1>3
  <1>5. r \in Refs /\ docs[r].there /\ docs[r].model = "RuntimeState" /\ docs[r].human \in {"on", "off"}
    BY <1>0, <1>1, <1>2, Running DEF Holding, IsDoc
  <1>6. DOMAIN self = ProcFields /\ self.todo = q.todo /\ self.was = docs[r].human
    BY <1>0, Running DEF ProcFields
  <1>7. IsProc(p, q) /\ p = "demo" /\ Len(q.todo) # 1 /\ q.todo \in Seq(GoalsOf[p]) /\ q.todo # <<>>
    BY <1>0, Running, HeadIs DEF IsProc
  <1> HIDE DEF self
  <1>8. /\ DOMAIN Return(self) = ProcFields /\ Return(self).pc = "find" /\ Return(self).todo = Tail(q.todo)
        /\ Return(self).was = docs[r].human
    BY <1>6, <1>7, ReturnIs
  <1>9. IsProc(p, Return(self))
    BY <1>5, <1>7, <1>8, ReturnsIs
  <1>10. proc'[p] = Return(self)
    BY <1>0, <1>4
  <1> QED  BY <1>4, <1>5, <1>7, <1>8, <1>9, <1>10

\* Any other goal is reached, or is about to write.
LEMMA FindsAnother ==
    ASSUME Shape, NEW p \in Runs, findByIdempotencyKey(p), Goal(p) # IsPaused
    PROVE  \/ /\ proc' = [proc EXCEPT ![p] = Return(proc[p])]
              /\ \E r \in Refs : Writes(Goal(p), docs[r], proc[p].was) = NoWrite
           \/ \E r \in Refs :
                LET w == Writes(Goal(p), docs[r], proc[p].was) IN
                /\ docs[r].there /\ docs[r].key = Goal(p).key
                /\ w # NoWrite /\ Writer(Goal(p)) /\ WriteOK(Goal(p), w)
                /\ proc' = [proc EXCEPT ![p] = [proc[p] EXCEPT !.ref = r, !.write = w,
                                                !.pc = IF Reads(Goal(p)) THEN "download" ELSE "raw"]]
  <1>0. proc[p].todo # <<>> /\ "key" \in DOMAIN Goal(p) /\ DOMAIN proc = Runs
    BY DEF findByIdempotencyKey, At, Shape
  <1>1. PICK r \in Holding(Goal(p).key) :
           LET write == Writes(Goal(p), docs[r], proc[p].was)
               self == IF Goal(p).do = "isPaused" THEN [proc[p] EXCEPT !.was = docs[r].human] ELSE proc[p]
           IN  proc' = [proc EXCEPT ![p] = IF write = NoWrite THEN Return(self)
                                           ELSE [self EXCEPT !.ref = r, !.write = write,
                                                             !.pc = IF Reads(Goal(p)) THEN "download" ELSE "raw"]]
    BY DEF findByIdempotencyKey
  <1>2. Goal(p).do # "isPaused"
    <2>1. Pause.do = "pause"
      BY DEF Pause, Find
    <2>2. Goal(p) \in GoalsOf[p]
      BY <1>0, Running
    <2> QED  BY <2>1, <2>2, GoalFacts
  <1>3. r \in Refs /\ docs[r].there /\ docs[r].key = Goal(p).key /\ IsDoc(docs[r])
    BY <1>0, <1>1, Running DEF Holding
  <1>4. /\ Goal(p) \in GoalsOf[p] /\ proc[p].was \in {"none", "on", "off"}
        /\ Goal(p) = Restore => proc[p].was # "none"
    BY <1>0, Running, HeadIs DEF IsProc
  <1>5. CASE Writes(Goal(p), docs[r], proc[p].was) = NoWrite
    BY <1>1, <1>2, <1>3, <1>5
  <1>6. CASE Writes(Goal(p), docs[r], proc[p].was) # NoWrite
    <2>1. Writer(Goal(p)) /\ WriteOK(Goal(p), Writes(Goal(p), docs[r], proc[p].was))
      BY <1>0, <1>3, <1>4, <1>6, WritesIs
    <2> QED  BY <1>1, <1>2, <1>3, <1>6, <2>1
  <1> QED  BY <1>5, <1>6

\* Nothing is found.
LEMMA FindsNone ==
    ASSUME Shape, NEW p \in Runs, findsNothing(p)
    PROVE  \/ Creates(Goal(p)) /\ proc' = [proc EXCEPT ![p] = [proc[p] EXCEPT !.pc = "insert"]]
           \/ /\ Goal(p) = IsPaused /\ p = "demo" /\ Holding(state) = {}
              /\ DOMAIN proc'[p] = ProcFields /\ proc'[p].pc = "find"
              /\ proc' = [proc EXCEPT ![p] = proc'[p]]
              /\ proc'[p].todo = Tail(proc[p].todo) /\ proc'[p].was = "off"
              /\ IsProc(p, proc'[p])
           \/ Goal(p) # IsPaused /\ proc' = [proc EXCEPT ![p] = Failed(proc[p])]
  <1> DEFINE q == proc[p]
  <1>0. proc[p].todo # <<>> /\ DOMAIN proc = Runs /\ Holding(Goal(p).key) = {}
    BY DEF findsNothing, At, Shape
  <1>1. proc' = [proc EXCEPT ![p] = CASE Creates(Goal(p)) -> [@ EXCEPT !.pc = "insert"]
                                      [] Goal(p).do = "isPaused" -> [Return(@) EXCEPT !.was = "off"]
                                      [] OTHER -> Failed(@)]
    BY DEF findsNothing
  <1>2. Goal(p).do = "isPaused" <=> Goal(p) = IsPaused
    <2>1. Pause.do = "pause" /\ IsPaused.do = "isPaused"
      BY DEF IsPaused, Pause, Find
    <2>2. Goal(p) \in GoalsOf[p]
      BY <1>0, Running
    <2> QED  BY <2>1, <2>2, GoalFacts
  <1>3. CASE Creates(Goal(p))
    BY <1>1, <1>3 DEF Creates
  <1>4. CASE ~Creates(Goal(p)) /\ Goal(p).do = "isPaused"
    <2> DEFINE x == [Return(q) EXCEPT !.was = "off"]
    <2>1. proc' = [proc EXCEPT ![p] = x]
      BY <1>1, <1>4
    <2>2. IsProc(p, q) /\ p = "demo" /\ Len(q.todo) # 1 /\ q.todo \in Seq(GoalsOf[p]) /\ q.todo # <<>>
      BY <1>0, <1>2, <1>4, Running, HeadIs DEF IsProc
    <2>3. DOMAIN Return(q) = ProcFields /\ Return(q).pc = "find" /\ Return(q).todo = Tail(q.todo)
      BY <1>0, <2>2, ReturnIs, Running
    <2>4. DOMAIN x = ProcFields /\ x.pc = "find" /\ x.todo = Tail(q.todo) /\ x.was = "off"
      BY <2>3 DEF ProcFields
    <2> HIDE DEF x
    <2>5. IsProc(p, x)
      BY <2>2, <2>4, ReturnsIs
    <2>6. Holding(state) = {}
      BY <1>0, <1>2, <1>4 DEF IsPaused, Find
    <2>7. proc'[p] = x
      BY <1>0, <2>1
    <2> QED  BY <1>2, <1>4, <2>1, <2>2, <2>4, <2>5, <2>6, <2>7
  <1>5. CASE ~Creates(Goal(p)) /\ Goal(p).do # "isPaused"
    BY <1>1, <1>2, <1>5
  <1> QED  BY <1>3, <1>4, <1>5

\* Further with the same goal, without another look at the store.
LEMMA MovesOn ==
    ASSUME Shape, NEW p \in Runs, proc[p].todo # <<>>, NEW c,
           proc' = [proc EXCEPT ![p] = [proc[p] EXCEPT !.pc = c]],
           \/ /\ docs' = docs /\ c = "insert" /\ Creates(Goal(p)) /\ Holding(Goal(p).key) = {}
           \/ c = "check" /\ Creates(Goal(p))
           \/ docs' = docs /\ c \in Writing \ {"modify"} /\ proc[p].pc \in Writing /\ (c # "raw" => Reads(Goal(p)))
           \/ c = "same" /\ Goal(p).do = "post"
           \/ c = "POST" /\ Goal(p).do \in {"account", "budget", "post"}
    PROVE  Lands(p)
  <1> DEFINE q == proc[p]
             x == [q EXCEPT !.pc = c]
  <1>1. /\ DOMAIN proc = Runs /\ IsProc(p, q) /\ Placed(q) /\ Standing(docs, q) /\ DOMAIN q = ProcFields
        /\ Goal(p) = Head(q.todo)
    BY Running
  <1>2. /\ DOMAIN x = ProcFields /\ x.todo = q.todo /\ x.was = q.was /\ x.pc = c /\ x.ref = q.ref
        /\ x.write = q.write /\ x.raw = q.raw
    BY <1>1 DEF ProcFields
  <1> HIDE DEF x
  <1>3. Placed(x)
    BY <1>1, <1>2 DEF Placed, Writing
  <1>4. Standing(docs', x)
    <2>1. CASE docs' = docs /\ c = "insert" /\ Holding(Goal(p).key) = {}
      <3>1. \A r \in Refs : docs[r].there => docs[r].key # Goal(p).key
        BY <2>1 DEF Holding
      <3> QED  BY <1>1, <1>2, <2>1, <3>1 DEF Standing, Writing
    <2>2. CASE docs' = docs /\ c \in Writing \ {"modify"} /\ q.pc \in Writing
      BY <1>1, <1>2, <2>2 DEF Standing, Writing
    <2>3. CASE c \in {"check", "same", "POST"}
      BY <1>2, <2>3 DEF Standing, Writing
    <2> QED  BY <2>1, <2>2, <2>3
  <1>5. IsProc(p, x)
    BY <1>1, <1>2, <1>3, Onward
  <1> QED  BY <1>1, <1>4, <1>5 DEF Lands, x

\* The repository.
LEMMA StoreLands ==
    ASSUME Shape, NEW p \in Runs, Repository(p)
    PROVE  Lands(p) /\ Keeps(p, docs, docs')
  <1> DEFINE q == proc[p]
  <1>0. q.todo # <<>>
    BY DEF Repository, findByIdempotencyKey, findsNothing, converge, readRaw, update, create, download,
           readTextLayer, visionRead, At, Insert, Modify
  <1>1. Keeps(p, docs, docs')
    <2>1. docs' = docs \/ Insert(p) \/ Modify(p)
      BY DEF Repository, findByIdempotencyKey, findsNothing, converge, readRaw, update, create, download,
             readTextLayer, visionRead
    <2> QED  BY <2>1, DocSteps
  <1> SUFFICES Lands(p)
    BY <1>1
  <1>2. /\ DOMAIN proc = Runs /\ IsProc(p, q) /\ Placed(q) /\ Standing(docs, q) /\ DOMAIN q = ProcFields
        /\ Goal(p) = Head(q.todo) /\ \A r \in Refs : IsDoc(docs[r])
    BY <1>0, Running
  <1>3. CASE findByIdempotencyKey(p) /\ Goal(p) = IsPaused
    BY <1>2, <1>3, FindsIsPaused, LandsAtFind
  <1>4. CASE findByIdempotencyKey(p) /\ Goal(p) # IsPaused
    <2>1. docs' = docs
      BY <1>4 DEF findByIdempotencyKey
    <2>2. CASE proc' = [proc EXCEPT ![p] = Return(proc[p])]
      BY <1>0, <1>4, <2>2, LandsAfter
    <2>3. ASSUME NEW r \in Refs, NEW w, docs[r].there, docs[r].key = Goal(p).key, Writer(Goal(p)), WriteOK(Goal(p), w),
                 NEW c \in {"download", "raw"}, c = "download" => Reads(Goal(p)),
                 proc' = [proc EXCEPT ![p] = [q EXCEPT !.ref = r, !.write = w, !.pc = c]]
          PROVE  Lands(p)
      <3> DEFINE x == [q EXCEPT !.ref = r, !.write = w, !.pc = c]
      <3>1. DOMAIN x = ProcFields /\ x.todo = q.todo /\ x.was = q.was /\ x.pc = c /\ x.ref = r /\ x.write = w
        BY <1>2 DEF ProcFields
      <3> HIDE DEF x
      <3>2. Placed(x)
        BY <1>2, <2>3, <3>1 DEF Placed, Writing
      <3>3. Standing(docs', x)
        BY <1>2, <2>1, <2>3, <3>1 DEF Standing, Writing
      <3>4. IsProc(p, x)
        BY <1>0, <1>2, <3>1, <3>2, Onward
      <3> QED  BY <1>2, <2>3, <3>3, <3>4 DEF Lands, x
    <2>4. CASE proc' # [proc EXCEPT ![p] = Return(proc[p])]
      <3>1. PICK r \in Refs :
               LET w == Writes(Goal(p), docs[r], proc[p].was) IN
               /\ docs[r].there /\ docs[r].key = Goal(p).key
               /\ w # NoWrite /\ Writer(Goal(p)) /\ WriteOK(Goal(p), w)
               /\ proc' = [proc EXCEPT ![p] = [proc[p] EXCEPT !.ref = r, !.write = w,
                                               !.pc = IF Reads(Goal(p)) THEN "download" ELSE "raw"]]
        BY <1>4, <2>4, FindsAnother
      <3> DEFINE w == Writes(Goal(p), docs[r], proc[p].was)
                 c == IF Reads(Goal(p)) THEN "download" ELSE "raw"
      <3>2. c \in {"download", "raw"} /\ (c = "download" => Reads(Goal(p)))
        OBVIOUS
      <3>3. /\ docs[r].there /\ docs[r].key = Goal(p).key /\ Writer(Goal(p)) /\ WriteOK(Goal(p), w)
            /\ proc' = [proc EXCEPT ![p] = [q EXCEPT !.ref = r, !.write = w, !.pc = c]]
        BY <3>1
      <3> HIDE DEF w, c
      <3> QED  BY <2>3, <3>2, <3>3
    <2> QED  BY <2>2, <2>4
  <1>5. CASE findsNothing(p)
    <2>1. docs' = docs /\ Holding(Goal(p).key) = {}
      BY <1>5 DEF findsNothing
    <2>2. CASE Creates(Goal(p)) /\ proc' = [proc EXCEPT ![p] = [q EXCEPT !.pc = "insert"]]
      BY <1>0, <2>1, <2>2, MovesOn
    <2>3. CASE proc' = [proc EXCEPT ![p] = Failed(proc[p])]
      BY <1>0, <2>3, LandsAfter
    <2>4. CASE /\ proc' = [proc EXCEPT ![p] = proc'[p]] /\ IsProc(p, proc'[p]) /\ proc'[p].pc = "find"
      BY <2>4, LandsAtFind
    <2> QED  BY <1>5, <2>2, <2>3, <2>4, FindsNone
  <1>6. CASE converge(p)
    <2>1. q.pc = "check" /\ proc' = [proc EXCEPT ![p] = Return(proc[p])]
      BY <1>6 DEF converge, At
    <2> QED  BY <1>0, <2>1, PastIsPaused, LandsAfter
  <1>7. CASE readRaw(p)
    <2> DEFINE x == [q EXCEPT !.raw = docs[q.ref], !.pc = "modify"]
    <2>1. proc' = [proc EXCEPT ![p] = x] /\ docs' = docs /\ q.pc = "raw"
      BY <1>7 DEF readRaw, At
    <2>2. /\ DOMAIN x = ProcFields /\ x.todo = q.todo /\ x.was = q.was /\ x.pc = "modify" /\ x.ref = q.ref
          /\ x.write = q.write /\ x.raw = docs[q.ref]
      BY <1>2 DEF ProcFields
    <2> HIDE DEF x
    <2>3. q.ref \in Refs /\ docs[q.ref].there /\ docs[q.ref].key = Head(q.todo).key
      BY <1>2, <2>1 DEF Standing, Writing
    <2>4. Placed(x)
      BY <1>2, <2>1, <2>2, <2>3 DEF Placed, Writing
    <2>5. Standing(docs', x)
      BY <2>1, <2>2, <2>3 DEF Standing, Writing
    <2>6. IsProc(p, x)
      BY <1>0, <1>2, <2>2, <2>4, Onward
    <2> QED  BY <1>2, <2>1, <2>5, <2>6 DEF Lands
  <1>8. CASE update(p)
    <2>1. q.pc = "modify" /\ proc' = [proc EXCEPT ![p] = Return(proc[p])]
      BY <1>8 DEF update, Modify, At
    <2> QED  BY <1>0, <2>1, PastIsPaused, LandsAfter
  <1>9. CASE create(p)
    <2>1. q.pc = "insert" /\ proc' = [proc EXCEPT ![p] = [q EXCEPT !.pc = "check"]]
      BY <1>9 DEF create, Insert, At
    <2>2. Creates(Goal(p))
      BY <1>2, <2>1 DEF Placed
    <2> QED  BY <1>0, <2>1, <2>2, MovesOn
  <1>10. CASE download(p)
    <2>1. docs' = docs /\ q.pc = "download" /\ proc' = [proc EXCEPT ![p] = [q EXCEPT !.pc = "layer"]]
      BY <1>10 DEF download, At
    <2>2. Reads(Goal(p))
      BY <1>2, <2>1 DEF Placed
    <2> QED  BY <1>0, <2>1, <2>2, MovesOn DEF Writing
  <1>11. CASE readTextLayer(p)
    <2>1. docs' = docs /\ q.pc = "layer"
      BY <1>11 DEF readTextLayer, At
    <2>2. CASE proc' = [proc EXCEPT ![p] = Return(proc[p])]
      BY <1>0, <2>1, <2>2, PastIsPaused, LandsAfter
    <2>3. ASSUME NEW c \in {"vision", "raw"}, proc' = [proc EXCEPT ![p] = [q EXCEPT !.pc = c]] PROVE Lands(p)
      <3>1. Reads(Goal(p))
        BY <1>2, <2>1 DEF Placed
      <3> QED  BY <1>0, <2>1, <2>3, <3>1, MovesOn DEF Writing
    <2> QED  BY <1>11, <2>2, <2>3 DEF readTextLayer
  <1>12. CASE visionRead(p)
    <2>1. docs' = docs /\ q.pc = "vision"
      BY <1>12 DEF visionRead, At
    <2>2. CASE proc' = [proc EXCEPT ![p] = [q EXCEPT !.pc = "raw"]]
      BY <1>0, <2>1, <2>2, MovesOn DEF Writing
    <2>3. CASE proc' = [proc EXCEPT ![p] = Failed(proc[p])]
      BY <1>0, <2>3, LandsAfter
    <2> QED  BY <1>12, <2>2, <2>3 DEF visionRead
  <1> QED  BY <1>3, <1>4, <1>5, <1>6, <1>7, <1>8, <1>9, <1>10, <1>11, <1>12 DEF Repository

\* A failure.
LEMMA FaultLands ==
    ASSUME Shape, NEW p \in Runs, requestFails(p) \/ answerIsLost(p) \/ Crash(p)
    PROVE  Lands(p) /\ Keeps(p, docs, docs')
  <1>1. Keeps(p, docs, docs')
    <2>1. docs' = docs \/ Insert(p) \/ Modify(p)
      BY DEF requestFails, answerIsLost, Crash
    <2> QED  BY <2>1, DocSteps
  <1>2. Lands(p)
    <2>1. proc[p].todo # <<>>
      BY DEF requestFails, answerIsLost, Crash, Insert, Modify, At
    <2>2. CASE requestFails(p)
      <3>1. CASE proc[p].pc = "check"
        <4>1. proc' = [proc EXCEPT ![p] = Return(proc[p])]
          BY <2>2, <3>1 DEF requestFails
        <4> QED  BY <2>1, <3>1, <4>1, PastIsPaused, LandsAfter
      <3>2. CASE proc[p].pc # "check"
        <4>1. proc' = [proc EXCEPT ![p] = Failed(proc[p])]
          BY <2>2, <3>2 DEF requestFails
        <4> QED  BY <2>1, <4>1, LandsAfter
      <3> QED  BY <3>1, <3>2
    <2>3. CASE answerIsLost(p)
      BY <2>1, <2>3, LandsAfter DEF answerIsLost
    <2>4. CASE Crash(p)
      BY <2>1, <2>4, LandsAfter DEF Crash
    <2> QED  BY <2>2, <2>3, <2>4
  <1> QED  BY <1>1, <1>2

\* What a request to Firefly makes of the program.
FireflyStep(p) ==
    /\ proc[p].todo # <<>> /\ docs' = docs
    /\ Goal(p).do \in {"account", "budget", "limit", "post"}
    /\ \/ proc' = [proc EXCEPT ![p] = Return(proc[p])] /\ Goal(p) # IsPaused
       \/ proc' = [proc EXCEPT ![p] = Failed(proc[p])]
       \/ proc' = [proc EXCEPT ![p] = [proc[p] EXCEPT !.pc = "POST"]] /\ Goal(p).do \in {"account", "budget", "post"}
       \/ proc' = [proc EXCEPT ![p] = [proc[p] EXCEPT !.pc = "same"]] /\ Goal(p).do = "post"

\* Each of the requests to Firefly.
LEMMA FireflySteps ==
    ASSUME Shape, NEW p \in Runs, Firefly(p)
    PROVE  FireflyStep(p)
  <1>0. IsPaused.do = "isPaused"
    BY DEF IsPaused, Find
  <1>1. CASE listAccounts(p)
    <2>1. proc[p].todo # <<>> /\ Goal(p).do = "account" /\ Seek(p, firefly.accounts)
      BY <1>1 DEF listAccounts, At
    <2> QED  BY <1>0, <2>1 DEF Seek, Step, FireflyStep
  <1>2. CASE listBudgets(p)
    <2>1. proc[p].todo # <<>> /\ Goal(p).do = "budget" /\ Seek(p, firefly.budgets)
      BY <1>2 DEF listBudgets, At
    <2> QED  BY <1>0, <2>1 DEF Seek, Step, FireflyStep
  <1>3. CASE createAccount(p)
    BY <1>0, <1>3 DEF createAccount, Step, At, FireflyStep
  <1>4. CASE createBudget(p)
    BY <1>0, <1>4 DEF createBudget, Step, At, FireflyStep
  <1>5. CASE setBudgetLimit(p)
    BY <1>0, <1>5 DEF setBudgetLimit, Step, At, FireflyStep
  <1>6. CASE findByExternalId(p)
    BY <1>0, <1>6 DEF findByExternalId, Step, At, FireflyStep
  <1>7. CASE findSamePostingForThing(p)
    <2>1. proc[p].todo # <<>> /\ proc[p].pc = "same"
      BY <1>7 DEF findSamePostingForThing, At
    <2>2. Goal(p).do = "post"
      BY <2>1, Running DEF Placed
    <2> QED  BY <1>0, <1>7, <2>1, <2>2 DEF findSamePostingForThing, Step, FireflyStep
  <1>8. CASE postOnce(p)
    BY <1>0, <1>8 DEF postOnce, Step, At, FireflyStep
  <1>9. CASE postIsLost(p)
    BY <1>9 DEF postIsLost, At, FireflyStep
  <1> QED  BY <1>1, <1>2, <1>3, <1>4, <1>5, <1>6, <1>7, <1>8, <1>9 DEF Firefly

\* A request to Firefly leaves the store alone.
LEMMA FireflyLands ==
    ASSUME Shape, NEW p \in Runs, FireflyStep(p)
    PROVE  Lands(p) /\ Keeps(p, docs, docs')
  <1>1. Keeps(p, docs, docs')
    BY DocSteps DEF FireflyStep
  <1>2. Lands(p)
    BY LandsAfter, MovesOn DEF FireflyStep
  <1> QED  BY <1>1, <1>2

\* A program begins.
LEMMA BeginLands ==
    ASSUME Shape, NEW p \in Runs, NEW todo, Begin(p, todo), todo \in Seq(GoalsOf[p]),
           p = "demo" => Loading(todo, "none"), p = "turn" => Len(todo) <= 1
    PROVE  Lands(p) /\ Keeps(p, docs, docs')
  <1> DEFINE q == proc[p]
             x == [q EXCEPT !.todo = todo]
  <1>1. /\ docs' = docs /\ proc' = [proc EXCEPT ![p] = x] /\ q.todo = <<>>
    BY DEF Begin
  <1>2. DOMAIN q = ProcFields /\ q.pc = "find" /\ q.was = "none"
    BY <1>1 DEF Shape, IsProc, Loading
  <1>3. DOMAIN x = ProcFields /\ x.pc = "find" /\ x.was = "none" /\ x.todo = todo
    BY <1>2 DEF ProcFields
  <1> HIDE DEF x
  <1>4. IsProc(p, x)
    BY <1>3, AtFind
  <1> QED  BY <1>1, <1>3, <1>4, LandsAtFind, DocSteps

\* The programs that main starts, and a call.
LEMMA StartsLand ==
    ASSUME Shape, \A op \in Operations : said[op].n \in Nat,
           NEW p \in Runs, main(p) \/ (p = "turn" /\ \E op \in Operations : Execute(op))
    PROVE  Lands(p) /\ Keeps(p, docs, docs')
  <1>1. CASE p = "bootstrap" /\ Begin(p, bootstrap)
    BY <1>1, BootTodo, BeginLands DEF GoalsOf
  <1>2. ASSUME NEW up \in BOOLEAN, p = "demo", Begin(p, loadDemo(up)) PROVE Lands(p) /\ Keeps(p, docs, docs')
    <2>1. loadDemo(up) \in Seq(GoalsOf[p]) /\ Loading(loadDemo(up), "none")
      BY <1>2, DemoTodo DEF GoalsOf
    <2> QED  BY <1>2, <2>1, BeginLands
  <1>3. ASSUME p = "turn", NEW op \in Operations, Execute(op) PROVE Lands(p) /\ Keeps(p, docs, docs')
    <2> DEFINE n == said[op].n + 1
    <2>1. PICK todo \in execute(op, <<op, n>>) : Begin("turn", todo)
      BY <1>3 DEF Execute
    <2>2. n \in Nat
      OBVIOUS
    <2> HIDE DEF n
    <2>3. todo \in Seq(TurnGoals) /\ Len(todo) <= 1
      <3>1. CASE todo = Refused
        BY <3>1, EmptySeq DEF Refused
      <3>2. CASE todo # Refused
        <4>1. todo = <<todo[1]>> /\ todo[1] \in GoalsOfCall(op, n)
          BY <2>1, <2>2, <3>2, TurnFacts DEF GoalsOfCall
        <4>2. todo[1] \in TurnGoals
          BY <2>2, <4>1 DEF TurnGoals
        <4> QED  BY <4>1, <4>2, OneGoal
      <3> QED  BY <3>1, <3>2
    <2> QED  BY <1>3, <2>1, <2>3, BeginLands DEF GoalsOf
  <1> QED  BY <1>1, <1>2, <1>3 DEF main

\* The User's edits.
LEMMA UserKeeps ==
    ASSUME Shape, NEW r \in Refs,
           UserDecides(r) \/ UserTranscribes(r) \/ UserAddsRow(r) \/ \E to \in {"on", "off"} : setPaused(r, to)
    PROVE  /\ DOMAIN docs' = Refs /\ \A s \in Refs : IsDoc(docs'[s])
           /\ \A s \in Refs : docs'[s].there = docs[s].there /\ docs'[s].key = docs[s].key /\ docs'[s].model = docs[s].model
           /\ \A s \in Refs : s # r => docs'[s] = docs[s]
           /\ docs[r].there
           /\ "gap" \notin Faults => AtRest(r) /\ (docs[r].model = "RuntimeState" => NoLoad)
           /\ UNCHANGED <<proc, said, firefly>>
  <1>0. DOMAIN docs = Refs /\ \A s \in Refs : IsDoc(docs[s])
    BY DEF Shape
  <1> DEFINE d == docs[r]
  <1>1. PICK f, v :
           /\ f \in {"human", "rows"}
           /\ Edit(r, f, v)
           /\ f = "human" => d.model # "RuntimeState" \/ v \in {"on", "off"}
           /\ f = "rows" => RowsOK(v)
    <2>1. CASE UserDecides(r)
      BY <2>1 DEF UserDecides
    <2>2. CASE UserTranscribes(r)
      BY <2>2 DEF UserTranscribes
    <2>3. CASE UserAddsRow(r)
      <3>1. RowsOK(d.rows \cup {[seq |-> 1, by |-> "user"]})
        BY <1>0 DEF IsDoc, RowsOK
      <3> QED  BY <2>3, <3>1 DEF UserAddsRow
    <2>4. CASE \E to \in {"on", "off"} : setPaused(r, to)
      BY <2>4 DEF setPaused
    <2> QED  BY <2>1, <2>2, <2>3, <2>4
  <1> DEFINE e == [d EXCEPT ![f] = v]
  <1>2. docs' = [docs EXCEPT ![r] = e] /\ d.there /\ UNCHANGED <<proc, said, firefly>>
        /\ ("gap" \notin Faults => AtRest(r) /\ (docs[r].model = "RuntimeState" => NoLoad))
    BY <1>1 DEF Edit
  <1>3. IsDoc(e) /\ e.there = d.there /\ e.key = d.key /\ e.model = d.model
    <2>1. CASE f = "human"
      BY <1>0, <1>1, <2>1 DEF IsDoc, DocFields
    <2>2. CASE f = "rows"
      BY <1>0, <1>1, <2>2 DEF IsDoc, DocFields
    <2> QED  BY <1>1, <2>1, <2>2
  <1> HIDE DEF e
  <1> QED  BY <1>0, <1>2, <1>3

\* The shape is kept by the User.
LEMMA UserShape ==
    ASSUME Shape, User
    PROVE  Shape'
  <1>1. CASE UNCHANGED <<docs, proc>>
    BY <1>1 DEF Shape, Standing
  <1>2. ASSUME NEW r \in Refs,
               UserDecides(r) \/ UserTranscribes(r) \/ UserAddsRow(r) \/ \E to \in {"on", "off"} : setPaused(r, to)
        PROVE  Shape'
    <2>1. /\ DOMAIN docs' = Refs /\ \A s \in Refs : IsDoc(docs'[s])
          /\ \A s \in Refs : docs'[s].there = docs[s].there /\ docs'[s].key = docs[s].key /\ docs'[s].model = docs[s].model
          /\ proc' = proc
      BY <1>2, UserKeeps
    <2>2. \A p \in Runs : proc[p].todo # <<>> => Standing(docs', proc[p])
      BY <2>1 DEF Shape, Standing, Writing
    <2> QED  BY <2>1, <2>2 DEF Shape
  <1>3. ASSUME NEW j \in firefly.journals, UserDeletesJournal(j) PROVE UNCHANGED <<docs, proc>>
    BY <1>3 DEF UserDeletesJournal
  <1> QED  BY <1>1, <1>2, <1>3 DEF User

\* A step of a program.
Moves(p) == Lands(p) /\ Keeps(p, docs, docs')

\* Every action of a program is one.
LEMMA ProgramMoves ==
    ASSUME Shape, Calls, NEW p \in Runs,
           main(p) \/ Store(p) \/ Fault(p) \/ Firefly(p) \/ (p = "turn" /\ \E op \in Operations : Execute(op))
    PROVE  Moves(p)
  <1>1. \A op \in Operations : said[op].n \in Nat
    BY DEF Calls, IsCall
  <1>2. CASE main(p) \/ (p = "turn" /\ \E op \in Operations : Execute(op))
    BY <1>1, <1>2, StartsLand DEF Moves
  <1>3. CASE Store(p)
    BY <1>3, StoreLands DEF Store, Moves
  <1>4. CASE Fault(p)
    BY <1>4, FaultLands DEF Fault, Moves
  <1>5. CASE Firefly(p)
    BY <1>5, FireflySteps, FireflyLands DEF Moves
  <1> QED  BY <1>2, <1>3, <1>4, <1>5

\* What happens: a program moves, the User does something, or store and programs stay.
LEMMA Steps ==
    ASSUME Shape, Calls, [Next]_vars
    PROVE  (\E p \in Runs : Moves(p)) \/ User \/ UNCHANGED <<docs, proc>>
  <1>1. CASE \E p \in Runs : main(p) \/ Store(p) \/ Fault(p) \/ Firefly(p)
    BY <1>1, ProgramMoves
  <1>2. CASE \E op \in Operations : Execute(op)
    <2>1. "turn" \in Runs
      BY <1>2, HouseholdAssumption
    <2> QED  BY <1>2, <2>1, ProgramMoves
  <1>3. CASE \E op \in Operations : reconcileCall(op)
    BY <1>3 DEF reconcileCall, Recover
  <1>4. CASE \E key \in firefly.flight : landsLate(key)
    BY <1>4 DEF landsLate
  <1>5. CASE UNCHANGED vars
    BY <1>5 DEF vars
  <1> QED  BY <1>1, <1>2, <1>3, <1>4, <1>5 DEF Next

\* The shape is kept.
LEMMA NextShape ==
    ASSUME Shape, Calls, [Next]_vars
    PROVE  Shape'
  <1>1. ASSUME NEW p \in Runs, Moves(p) PROVE Shape'
    <2> DEFINE x == proc'[p]
    <2>1. /\ proc' = [proc EXCEPT ![p] = x] /\ IsProc(p, x) /\ (x.todo # <<>> => Standing(docs', x))
          /\ Keeps(p, docs, docs')
      BY <1>1 DEF Moves, Lands
    <2> QED  BY <2>1, ShapeKept
  <1>2. CASE UNCHANGED <<docs, proc>>
    BY <1>2 DEF Shape, Standing
  <1> QED  BY <1>1, <1>2, Steps, UserShape

\* The store as it is found, and every program ended.
LEMMA InitShape == Init => Shape
  <1> SUFFICES ASSUME Init PROVE Shape
    OBVIOUS
  <1>1. IsDoc(Nobody)
    BY DEF IsDoc, Nobody, DocFields, Labels, Fixed, RowsOK, state
  <1>2. IsDoc([Thing("Operation", <<"operation", 0>>, "seed", FALSE) EXCEPT !.machine = "old"])
    <2>1. IsDoc(Thing("Operation", <<"operation", 0>>, "seed", FALSE))
      BY ThingIs DEF SPECS, Labels, Fixed
    <2> QED  BY <2>1 DEF IsDoc, DocFields
  <1>3. IsDoc(Thing("Document", post, "none", TRUE))
    BY ThingIs DEF SPECS, Labels, Fixed, post
  <1>4. DOMAIN docs = Refs /\ \A r \in Refs : IsDoc(docs[r])
    BY <1>1, <1>2, <1>3 DEF Init
  <1>5. proc = [p \in Runs |-> Ended]
    BY DEF Init
  <1>6. \A p \in Runs : IsProc(p, Ended) /\ Ended.todo = <<>>
    BY EndedIs
  <1> QED  BY <1>4, <1>5, <1>6 DEF Shape

-----------------------------------------------------------------------------
(* What a request to the store makes of the program.                         *)

\* isPaused has its answer.
Asks(p) ==
    LET x == proc'[p] IN
    /\ docs' = docs /\ p = "demo" /\ Goal(p) = IsPaused
    /\ x.pc = "find" /\ x.todo = Tail(proc[p].todo)
    /\ \/ \E r \in Refs : docs[r].model = "RuntimeState" /\ x.was = docs[r].human
       \/ (\A r \in Refs : docs[r].model # "RuntimeState") /\ x.was = "off"

\* The goal is reached; the kill switch is given back by a write.
Finishes(p) ==
    /\ proc'[p] = Return(proc[p]) /\ Goal(p) # IsPaused
    /\ Modify(p) \/ (docs' = docs /\ Goal(p) # Restore)

\* The goal cannot be reached; there is no kill switch to write to.
GivesUp(p) ==
    /\ proc'[p] = Failed(proc[p]) /\ docs' = docs /\ Goal(p) # IsPaused
    /\ Goal(p) \in {Pause, Restore} => \A r \in Refs : docs[r].model # "RuntimeState"

\* On with the same goal: what is written is fixed by what was found, and laid over what was read.
Works(p) ==
    LET q == proc[p]
        x == proc'[p]
    IN  /\ x.todo = q.todo /\ x.was = q.was
        /\ x.pc \in {"insert", "check"} \cup Writing
        /\ x.pc \in Writing => /\ docs' = docs
                               /\ \/ x.ref = q.ref /\ x.write = q.write /\ q.pc \in Writing
                                  \/ x.ref \in Refs /\ x.write = Writes(Goal(p), docs[x.ref], q.was)
        /\ x.pc = "modify" => x.raw = docs[x.ref]
        /\ docs' = docs \/ Insert(p)

\* One of the four.
LEMMA StoreCourse ==
    ASSUME Shape, NEW p \in Runs, Repository(p)
    PROVE  /\ proc[p].todo # <<>>
           /\ Asks(p) \/ Finishes(p) \/ GivesUp(p) \/ Works(p)
  <1> DEFINE q == proc[p]
  <1>0. q.todo # <<>>
    BY DEF Repository, findByIdempotencyKey, findsNothing, converge, readRaw, update, create, download,
           readTextLayer, visionRead, At, Insert, Modify
  <1>1. /\ DOMAIN proc = Runs /\ IsProc(p, q) /\ Placed(q) /\ DOMAIN q = ProcFields
        /\ Goal(p) = Head(q.todo) /\ Goal(p) \in GoalsOf[p] /\ \A r \in Refs : IsDoc(docs[r])
    BY <1>0, Running
  <1>2. /\ IsPaused.do = "isPaused" /\ Pause.do = "pause" /\ Restore.do = "restore" /\ Pause.key = state /\ Restore.key = state
        /\ IsPaused.key = state
    BY DEF IsPaused, Pause, Restore, Find
  <1>3. Holding(state) = {} => \A r \in Refs : docs[r].model # "RuntimeState"
    BY <1>1 DEF Holding, IsDoc
  <1> SUFFICES Asks(p) \/ Finishes(p) \/ GivesUp(p) \/ Works(p)
    BY <1>0
  <1>4. CASE findByIdempotencyKey(p) /\ Goal(p) = IsPaused
    <2>1. docs' = docs
      BY <1>4 DEF findByIdempotencyKey
    <2> QED  BY <1>4, <2>1, FindsIsPaused DEF Asks
  <1>5. CASE findByIdempotencyKey(p) /\ Goal(p) # IsPaused
    <2>1. docs' = docs
      BY <1>5 DEF findByIdempotencyKey
    <2>2. ASSUME NEW r \in Refs, Writes(Goal(p), docs[r], proc[p].was) = NoWrite,
                 proc' = [proc EXCEPT ![p] = Return(proc[p])]
          PROVE  Finishes(p)
      <3>1. Goal(p) # Restore
        <4> SUFFICES ASSUME Goal(p) = Restore PROVE FALSE
          OBVIOUS
        <4>1. Writes(Goal(p), docs[r], proc[p].was) = [human |-> proc[p].was]
          BY <1>2 DEF Writes, Reads
        <4> QED  BY <2>2, <4>1, NoWriteIs
      <3> QED  BY <1>1, <1>5, <2>1, <2>2, <3>1 DEF Finishes
    <2>3. ASSUME NEW r \in Refs, NEW c \in {"download", "raw"},
                 proc' = [proc EXCEPT ![p] = [q EXCEPT !.ref = r, !.write = Writes(Goal(p), docs[r], q.was), !.pc = c]]
          PROVE  Works(p)
      <3> DEFINE w == Writes(Goal(p), docs[r], q.was)
                 x == [q EXCEPT !.ref = r, !.write = w, !.pc = c]
      <3>1. x.todo = q.todo /\ x.was = q.was /\ x.pc = c /\ x.ref = r /\ x.write = w
        BY <1>1 DEF ProcFields
      <3>2. proc'[p] = x
        BY <1>1, <2>3
      <3> HIDE DEF x
      <3> QED  BY <2>1, <3>1, <3>2 DEF Works, Writing
    <2>4. CASE proc' # [proc EXCEPT ![p] = Return(proc[p])]
      <3>1. PICK r \in Refs :
              proc' = [proc EXCEPT ![p] = [q EXCEPT !.ref = r, !.write = Writes(Goal(p), docs[r], q.was),
                                                    !.pc = IF Reads(Goal(p)) THEN "download" ELSE "raw"]]
        BY <1>5, <2>4, FindsAnother
      <3> DEFINE c == IF Reads(Goal(p)) THEN "download" ELSE "raw"
      <3>2. c \in {"download", "raw"}
        OBVIOUS
      <3>3. proc' = [proc EXCEPT ![p] = [q EXCEPT !.ref = r, !.write = Writes(Goal(p), docs[r], q.was), !.pc = c]]
        BY <3>1
      <3> HIDE DEF c
      <3> QED  BY <2>3, <3>2, <3>3
    <2>5. CASE /\ proc' = [proc EXCEPT ![p] = Return(proc[p])]
               /\ \E r \in Refs : Writes(Goal(p), docs[r], proc[p].was) = NoWrite
      BY <2>2, <2>5
    <2>6. CASE /\ proc' = [proc EXCEPT ![p] = Return(proc[p])]
               /\ ~\E r \in Refs : Writes(Goal(p), docs[r], proc[p].was) = NoWrite
      <3>1. PICK r \in Refs :
              proc' = [proc EXCEPT ![p] = [q EXCEPT !.ref = r, !.write = Writes(Goal(p), docs[r], q.was),
                                                    !.pc = IF Reads(Goal(p)) THEN "download" ELSE "raw"]]
        BY <1>5, <2>6, FindsAnother
      <3> DEFINE c == IF Reads(Goal(p)) THEN "download" ELSE "raw"
      <3>2. c \in {"download", "raw"}
        OBVIOUS
      <3>3. proc' = [proc EXCEPT ![p] = [q EXCEPT !.ref = r, !.write = Writes(Goal(p), docs[r], q.was), !.pc = c]]
        BY <3>1
      <3> HIDE DEF c
      <3> QED  BY <2>3, <3>2, <3>3
    <2> QED  BY <2>4, <2>5, <2>6
  <1>6. CASE findsNothing(p)
    <2>1. docs' = docs /\ Holding(Goal(p).key) = {}
      BY <1>6 DEF findsNothing
    <2>2. CASE Creates(Goal(p)) /\ proc' = [proc EXCEPT ![p] = [q EXCEPT !.pc = "insert"]]
      BY <1>1, <2>1, <2>2 DEF Works, Writing, ProcFields
    <2>3. CASE Goal(p) # IsPaused /\ proc' = [proc EXCEPT ![p] = Failed(proc[p])]
      BY <1>1, <1>2, <1>3, <2>1, <2>3 DEF GivesUp
    <2>4. CASE /\ Goal(p) = IsPaused /\ p = "demo" /\ Holding(state) = {}
               /\ proc'[p].pc = "find" /\ proc'[p].todo = Tail(proc[p].todo) /\ proc'[p].was = "off"
      BY <1>3, <2>1, <2>4 DEF Asks
    <2> QED  BY <1>6, <2>2, <2>3, <2>4, FindsNone
  <1>7. CASE converge(p)
    <2>1. q.pc = "check" /\ proc' = [proc EXCEPT ![p] = Return(proc[p])] /\ docs' = docs
      BY <1>7 DEF converge, At
    <2>2. Creates(Goal(p))
      BY <1>1, <2>1 DEF Placed
    <2> QED  BY <1>0, <1>1, <1>2, <2>1, <2>2 DEF Finishes, Creates
  <1>8. CASE readRaw(p)
    <2> DEFINE x == [q EXCEPT !.raw = docs[q.ref], !.pc = "modify"]
    <2>1. proc' = [proc EXCEPT ![p] = x] /\ docs' = docs /\ q.pc = "raw"
      BY <1>8 DEF readRaw, At
    <2>2. /\ x.todo = q.todo /\ x.was = q.was /\ x.pc = "modify" /\ x.ref = q.ref
          /\ x.write = q.write /\ x.raw = docs[q.ref]
      BY <1>1 DEF ProcFields
    <2>3. proc'[p] = x
      BY <1>1, <2>1
    <2> HIDE DEF x
    <2> QED  BY <2>1, <2>2, <2>3 DEF Works, Writing
  <1>9. CASE update(p)
    <2>1. q.pc = "modify" /\ proc' = [proc EXCEPT ![p] = Return(proc[p])] /\ Modify(p)
      BY <1>9 DEF update, Modify, At
    <2> QED  BY <1>0, <1>1, <2>1, PastIsPaused DEF Finishes
  <1>10. CASE create(p)
    BY <1>1, <1>10 DEF create, Works, Writing, ProcFields
  <1>11. ASSUME NEW c \in {"layer", "vision", "raw"}, proc' = [proc EXCEPT ![p] = [q EXCEPT !.pc = c]],
                docs' = docs, q.pc \in Writing
         PROVE  Works(p)
    BY <1>1, <1>11 DEF Works, Writing, ProcFields
  <1>12. CASE download(p)
    BY <1>11, <1>12 DEF download, At, Writing
  <1>13. CASE readTextLayer(p)
    <2>1. docs' = docs /\ q.pc = "layer" /\ Reads(Goal(p))
      BY <1>1, <1>13 DEF readTextLayer, At, Placed
    <2>2. CASE proc' = [proc EXCEPT ![p] = Return(proc[p])]
      BY <1>0, <1>1, <1>2, <2>1, <2>2 DEF Finishes, Reads
    <2> QED  BY <1>11, <1>13, <2>1, <2>2 DEF readTextLayer, Writing
  <1>14. CASE visionRead(p)
    <2>1. docs' = docs /\ q.pc = "vision" /\ Reads(Goal(p))
      BY <1>1, <1>14 DEF visionRead, At, Placed
    <2>2. CASE proc' = [proc EXCEPT ![p] = Failed(proc[p])]
      BY <1>0, <1>1, <1>2, <2>1, <2>2 DEF GivesUp, Reads
    <2> QED  BY <1>11, <1>14, <2>1, <2>2 DEF visionRead, Writing
  <1> QED  BY <1>4, <1>5, <1>6, <1>7, <1>8, <1>9, <1>10, <1>12, <1>13, <1>14 DEF Repository

\* What is left to do after a step of a program that runs.
LEMMA TodoAfter ==
    ASSUME Shape, NEW p \in Runs, proc[p].todo # <<>>,
           \/ Repository(p) \/ requestFails(p) \/ answerIsLost(p) \/ Crash(p) \/ FireflyStep(p)
    PROVE  \/ proc'[p].todo \in {proc[p].todo, Tail(proc[p].todo), <<>>}
           \/ p = "demo"
  <1> DEFINE q == proc[p]
             Fine == proc'[p].todo \in {proc[p].todo, Tail(proc[p].todo), <<>>} \/ p = "demo"
  <1>1. DOMAIN proc = Runs /\ IsProc(p, q) /\ DOMAIN q = ProcFields
    BY Running
  <1>2. Return(q).todo = Tail(q.todo)
    BY <1>1, ReturnIs DEF IsProc
  <1>3. Failed(q).todo = <<>> \/ p = "demo"
    BY <1>1, FailedIs
  <1>4. Ended.todo = <<>>
    BY DEF Ended
  <1> HIDE DEF Fine
  <1>5. proc'[p].todo \in {proc[p].todo, Return(q).todo, Failed(q).todo, Ended.todo} => Fine
    BY <1>2, <1>3, <1>4 DEF Fine
  <1>6. CASE Repository(p)
    <2>1. proc'[p].todo \in {q.todo, Return(q).todo, Failed(q).todo} \/ p = "demo"
      BY <1>6, StoreCourse DEF Asks, Finishes, GivesUp, Works
    <2> QED  BY <1>5, <2>1 DEF Fine
  <1>7. CASE requestFails(p) \/ answerIsLost(p) \/ Crash(p)
    <2>1. proc'[p] \in {Return(q), Failed(q), Ended}
      BY <1>1, <1>7 DEF requestFails, answerIsLost, Crash
    <2> QED  BY <1>5, <2>1 DEF Fine
  <1>8. CASE FireflyStep(p)
    <2>1. \/ proc'[p] \in {Return(q), Failed(q)}
          \/ proc'[p].todo = q.todo
      BY <1>1, <1>8 DEF FireflyStep, ProcFields
    <2> QED  BY <1>5, <2>1 DEF Fine
  <1> QED  BY <1>6, <1>7, <1>8 DEF Fine

-----------------------------------------------------------------------------
(* The calls.                                                                *)

\* Nothing is said, and the Turn has the same to do.
LEMMA CallsSame ==
    ASSUME Calls, DOMAIN said' = Operations, \A op \in Operations : said'[op] = said[op],
           "turn" \in Runs => proc'["turn"].todo = proc["turn"].todo
    PROVE  Calls'
  BY HouseholdAssumption DEF Calls, TurnIs

\* What is said when a program ends, or does not.
Ends == {"done", "error", "interrupted"}

\* What Told says of one call.
LEMMA ToldIs ==
    ASSUME Calls, NEW p \in Runs, NEW how \in Ends, Told(p, how)
    PROVE  /\ DOMAIN said' = Operations
           /\ \A op \in Operations :
                \/ said'[op] = said[op] /\ ~(p = "turn" /\ proc'[p].todo = <<>> /\ said[op].at = "running")
                \/ /\ said[op].at = "running" /\ IsCall(said'[op])
                   /\ p = "turn" /\ proc'[p].todo = <<>>
                   /\ said'[op].at \in Ends \cup {"never"}
                   /\ op \in Creators => said'[op].n = said[op].n /\ said'[op].at = how
  <1>1. CASE p = "turn" /\ proc'[p].todo = <<>>
    <2>1. said' = [op \in Operations |->
                     IF said[op].at = "running" THEN Remembered(op, [said[op] EXCEPT !.at = how]) ELSE said[op]]
      BY <1>1 DEF Told
    <2>2. ASSUME NEW op \in Operations, said[op].at = "running"
          PROVE  LET c == Remembered(op, [said[op] EXCEPT !.at = how]) IN
                 /\ IsCall(c) /\ c.at \in Ends \cup {"never"}
                 /\ op \in Creators => c.n = said[op].n /\ c.at = how
      <3> DEFINE e == [said[op] EXCEPT !.at = how]
      <3>1. IsCall(e) /\ e.at = how /\ e.n = said[op].n
        BY DEF Calls, IsCall
      <3>2. IsCall(Never) /\ Never.at = "never"
        BY DEF IsCall, Never
      <3> HIDE DEF e
      <3>3. Remembered(op, e) \in {e, Never} /\ (op \in Creators => Remembered(op, e) = e)
        BY DEF Remembered
      <3> QED  BY <3>1, <3>2, <3>3 DEF e
    <2> QED  BY <1>1, <2>1, <2>2
  <1>2. CASE ~(p = "turn" /\ proc'[p].todo = <<>>)
    <2>1. said' = said
      BY <1>2 DEF Told
    <2> QED  BY <1>2, <2>1 DEF Calls
  <1> QED  BY <1>1, <1>2

\* A program goes on, or ends and the Assistant is told.
LEMMA CallsTold ==
    ASSUME Calls, NEW p \in Runs, NEW how \in Ends, Told(p, how), DOMAIN proc = Runs,
           proc' = [proc EXCEPT ![p] = proc'[p]], p = "turn" => proc'[p].todo \in {proc[p].todo, <<>>}
    PROVE  Calls'
  <1>1. CASE p = "turn" /\ proc'[p].todo = <<>>
    <2>1. DOMAIN said' = Operations /\ \A op \in Operations : IsCall(said'[op]) /\ said'[op].at # "running"
      BY <1>1, ToldIs DEF Calls, Ends
    <2>2. \A op \in Operations : said'[op].at = "interrupted" => said[op].at \in {"running", "interrupted"}
      BY ToldIs
    <2>3. \A op, o \in Operations : {said'[op].at, said'[o].at} \subseteq {"running", "interrupted"} => op = o
      BY <2>1, <2>2 DEF Calls
    <2> QED  BY <1>1, <2>1, <2>3 DEF Calls
  <1>2. CASE ~(p = "turn" /\ proc'[p].todo = <<>>)
    <2>1. "turn" \in Runs => proc'["turn"].todo = proc["turn"].todo
      BY <1>2
    <2>2. DOMAIN said' = Operations /\ \A op \in Operations : said'[op] = said[op]
      BY <1>2, ToldIs
    <2> QED  BY <2>1, <2>2, CallsSame
  <1> QED  BY <1>1, <1>2

\* What a call says.
LEMMA CallIs ==
    ASSUME Shape, Calls, NEW op \in Operations, Execute(op)
    PROVE  /\ DOMAIN said' = Operations /\ docs' = docs /\ UNCHANGED <<firefly, wish, stray>> /\ "turn" \in Runs
           /\ \A o \in Operations : o # op => said'[o] = said[o]
           /\ \A o \in Operations : said[o].at \notin {"running", "interrupted"}
           /\ \/ said'[op] = said[op] /\ proc'["turn"].todo = proc["turn"].todo
              \/ /\ said'[op].n = said[op].n + 1 /\ said'[op].at = "running" /\ mayCall(op)
                 /\ IsCall(said'[op]) /\ TurnIs(op, said'[op], proc'["turn"].todo)
  <1> DEFINE n == said[op].n + 1
  <1>0. "turn" \in Runs /\ DOMAIN said = Operations /\ said[op].n \in Nat
    BY HouseholdAssumption DEF Calls, IsCall
  <1>1. PICK todo \in execute(op, <<op, n>>) : Begin("turn", todo) /\ Call(op, todo)
    BY DEF Execute
  <1>2. /\ docs' = docs /\ UNCHANGED <<firefly, wish, stray>>
        /\ proc["turn"].todo = <<>> /\ proc'["turn"].todo = todo /\ mayCall(op)
        /\ \A o \in Operations : said[o].at \notin {"running", "interrupted"}
    <2>1. DOMAIN proc = Runs /\ DOMAIN proc["turn"] = ProcFields
      BY <1>0 DEF Shape, IsProc
    <2> QED  BY <1>0, <1>1, <2>1 DEF Begin, Call, ProcFields
  <1> DEFINE c == [at |-> "running", n |-> said[op].n + 1,
                   replace |-> "replace" \in DOMAIN todo[1] /\ todo[1].replace]
  <1>3. said' = [said EXCEPT ![op] = IF todo = Refused THEN @ ELSE c]
    BY <1>1 DEF Call
  <1>4. CASE todo = Refused
    <2>1. DOMAIN said' = Operations /\ \A o \in Operations : said'[o] = said[o]
      BY <1>0, <1>3, <1>4
    <2> QED  BY <1>0, <1>2, <1>4, <2>1 DEF Refused
  <1>5. CASE todo # Refused
    <2>1. DOMAIN said' = Operations /\ said'[op] = c /\ \A o \in Operations : o # op => said'[o] = said[o]
      BY <1>0, <1>3, <1>5
    <2>2. /\ c.at = "running" /\ c.n = n /\ n \in Nat /\ DOMAIN c = {"at", "n", "replace"}
          /\ c.replace = ("replace" \in DOMAIN todo[1] /\ todo[1].replace)
      BY <1>0
    <2> HIDE DEF c
    <2>3. TurnGoal(op, n, todo[1])
      BY <1>1, <1>5, <2>2, TurnFacts
    <2>4. "replace" \in DOMAIN todo[1] => todo[1].replace \in BOOLEAN
      BY <2>3 DEF TurnGoal
    <2>5. c.replace \in BOOLEAN
      BY <2>2, <2>4
    <2>6. IsCall(c)
      BY <2>2, <2>5 DEF IsCall
    <2>7. TurnIs(op, c, todo)
      BY <1>1, <1>5, <2>2 DEF TurnIs
    <2> QED  BY <1>0, <1>2, <2>1, <2>2, <2>6, <2>7
  <1> QED  BY <1>4, <1>5

\* A call begins.
LEMMA CallsExecute ==
    ASSUME Shape, Calls, NEW op \in Operations, Execute(op)
    PROVE  Calls'
  <1>1. CASE said'[op] = said[op] /\ proc'["turn"].todo = proc["turn"].todo
    <2>1. DOMAIN said' = Operations /\ \A o \in Operations : said'[o] = said[o]
      BY <1>1, CallIs
    <2> QED  BY <1>1, <2>1, CallsSame
  <1>2. CASE said'[op].at = "running" /\ IsCall(said'[op]) /\ TurnIs(op, said'[op], proc'["turn"].todo)
    <2>1. DOMAIN said' = Operations /\ \A o \in Operations : o # op => said'[o] = said[o] /\ said[o].at \notin {"running", "interrupted"}
      BY CallIs
    <2>2. \A o \in Operations : IsCall(said'[o])
      BY <1>2, <2>1 DEF Calls
    <2>3. \A o \in Operations : said'[o].at \in {"running", "interrupted"} => o = op
      BY <2>1
    <2> QED  BY <1>2, <2>1, <2>2, <2>3 DEF Calls
  <1> QED  BY <1>1, <1>2, CallIs

\* What recovery says of a call.
LEMMA RecoverIs ==
    ASSUME Calls, NEW op \in Operations, reconcileCall(op)
    PROVE  /\ DOMAIN said' = Operations /\ \A o \in Operations : o # op => said'[o] = said[o]
           /\ IsCall(said'[op]) /\ said[op].at = "interrupted"
           /\ said'[op].at \in {"never", "done", "not done", "unknown"}
           /\ op \in Creators => /\ said'[op].n = said[op].n
                                 /\ said'[op].at = reconcile(op, <<op, said[op].n>>, said[op].replace)
           /\ UNCHANGED <<docs, proc, firefly, wish, stray>>
  <1> DEFINE call == said[op]
             found == reconcile(op, <<op, call.n>>, call.replace)
             e == [call EXCEPT !.at = found]
  <1>1. /\ call.at = "interrupted" /\ said' = [said EXCEPT ![op] = Remembered(op, e)]
        /\ UNCHANGED <<docs, proc, firefly, wish, stray>>
    BY DEF reconcileCall, Recover
  <1>2. found \in {"done", "not done", "unknown"}
    BY HouseholdAssumption DEF reconcile
  <1> HIDE DEF found
  <1>3. IsCall(e) /\ e.at = found /\ e.n = call.n /\ IsCall(Never) /\ Never.at = "never"
    BY DEF Calls, IsCall, Never
  <1> HIDE DEF e
  <1>4. Remembered(op, e) \in {e, Never} /\ (op \in Creators => Remembered(op, e) = e)
    BY DEF Remembered
  <1>5. DOMAIN said = Operations
    BY DEF Calls
  <1> QED  BY <1>1, <1>2, <1>3, <1>4, <1>5 DEF found

\* A recovery.
LEMMA CallsRecover ==
    ASSUME Calls, NEW op \in Operations, reconcileCall(op)
    PROVE  Calls'
  <1>1. /\ DOMAIN said' = Operations /\ \A o \in Operations : o # op => said'[o] = said[o]
        /\ IsCall(said'[op]) /\ said'[op].at \notin {"running", "interrupted"} /\ said[op].at = "interrupted"
        /\ proc' = proc
    BY RecoverIs
  <1>2. \A o \in Operations : IsCall(said'[o])
    BY <1>1 DEF Calls
  <1>3. \A o, o2 \in Operations : {said'[o].at, said'[o2].at} \subseteq {"running", "interrupted"} => o = o2
    BY <1>1 DEF Calls
  <1>4. \A o \in Operations : said[o].at # "running"
    BY <1>1 DEF Calls
  <1> QED  BY <1>1, <1>2, <1>3, <1>4, HouseholdAssumption DEF Calls

\* What a step of a program says, and what it does to the Things.
LEMMA ProgramSays ==
    ASSUME Shape, Calls, NEW p \in Runs, main(p) \/ Store(p) \/ Fault(p) \/ Firefly(p)
    PROVE  /\ docs' = docs \/ Insert(p) \/ Modify(p)
           /\ \/ said' = said /\ p # "turn"
              \/ \E how \in Ends : Told(p, how) /\ proc[p].todo # <<>> /\ (p = "turn" => proc'[p].todo \in {proc[p].todo, <<>>})
  <1>0. DOMAIN proc = Runs /\ IsProc(p, proc[p])
    BY DEF Shape
  <1>1. CASE main(p)
    BY <1>1 DEF main, Begin
  <1>2. ASSUME proc[p].todo # <<>>, p = "turn",
               Repository(p) \/ requestFails(p) \/ answerIsLost(p) \/ Crash(p) \/ FireflyStep(p)
        PROVE  proc'[p].todo \in {proc[p].todo, <<>>}
    <2>1. Len(proc[p].todo) <= 1
      BY <1>0, <1>2 DEF IsProc
    <2>2. Tail(proc[p].todo) = <<>>
      BY <1>0, <1>2, <2>1, NotDone DEF IsProc
    <2> QED  BY <1>2, <2>2, TodoAfter
  <1>3. CASE Store(p)
    <2>1. proc[p].todo # <<>> /\ Repository(p) /\ Told(p, "done")
      BY <1>3, StoreCourse DEF Store
    <2>2. docs' = docs \/ Insert(p) \/ Modify(p)
      BY <2>1 DEF Repository, findByIdempotencyKey, findsNothing, converge, readRaw, update, create, download,
             readTextLayer, visionRead
    <2> QED  BY <1>2, <2>1, <2>2 DEF Ends
  <1>4. CASE Fault(p)
    <2>1. /\ requestFails(p) \/ answerIsLost(p) \/ Crash(p)
          /\ Told(p, "error") \/ Told(p, "interrupted")
      BY <1>4 DEF Fault
    <2>2. proc[p].todo # <<>> /\ (docs' = docs \/ Insert(p) \/ Modify(p))
      BY <2>1 DEF requestFails, answerIsLost, Crash, Insert, Modify, At
    <2> QED  BY <1>2, <2>1, <2>2 DEF Ends
  <1>5. CASE Firefly(p)
    <2>1. FireflyStep(p)
      BY <1>5, FireflySteps
    <2>2. Told(p, "done") \/ Told(p, "error")
      BY <1>5 DEF Firefly, listAccounts, listBudgets, createAccount, createBudget, setBudgetLimit, findByExternalId,
                  findSamePostingForThing, postOnce, postIsLost, Seek, Step
    <2> QED  BY <1>2, <2>1, <2>2 DEF Ends, FireflyStep
  <1> QED  BY <1>1, <1>3, <1>4, <1>5

\* What the rest says, and does.
LEMMA OthersSay ==
    ASSUME Shape, User \/ (\E key \in firefly.flight : landsLate(key)) \/ UNCHANGED vars
    PROVE  /\ UNCHANGED <<proc, said>>
           /\ \A r \in Refs : docs'[r].there = docs[r].there /\ docs'[r].key = docs[r].key /\ docs'[r].model = docs[r].model
  <1>1. CASE UNCHANGED vars \/ \E key \in firefly.flight : landsLate(key)
    BY <1>1 DEF vars, landsLate
  <1>2. ASSUME NEW r \in Refs,
               UserDecides(r) \/ UserTranscribes(r) \/ UserAddsRow(r) \/ \E to \in {"on", "off"} : setPaused(r, to)
        PROVE  /\ UNCHANGED <<proc, said>>
               /\ \A s \in Refs : docs'[s].there = docs[s].there /\ docs'[s].key = docs[s].key /\ docs'[s].model = docs[s].model
    BY <1>2, UserKeeps
  <1>3. ASSUME NEW j \in firefly.journals, UserDeletesJournal(j) PROVE UNCHANGED <<docs, proc, said>>
    BY <1>3 DEF UserDeletesJournal
  <1> QED  BY <1>1, <1>2, <1>3 DEF User

\* The calls are kept.
LEMMA NextCalls ==
    ASSUME Shape, Calls, [Next]_vars
    PROVE  Calls'
  <1>0. DOMAIN said = Operations /\ DOMAIN proc = Runs
    BY DEF Calls, Shape
  <1>1. ASSUME NEW p \in Runs, main(p) \/ Store(p) \/ Fault(p) \/ Firefly(p) PROVE Calls'
    <2>1. proc' = [proc EXCEPT ![p] = proc'[p]]
      BY <1>1, ProgramMoves DEF Moves, Lands
    <2>2. CASE said' = said /\ p # "turn"
      BY <1>0, <2>1, <2>2, CallsSame
    <2>3. ASSUME NEW how \in Ends, Told(p, how), p = "turn" => proc'[p].todo \in {proc[p].todo, <<>>} PROVE Calls'
      BY <1>0, <2>1, <2>3, CallsTold
    <2> QED  BY <1>1, <2>2, <2>3, ProgramSays
  <1>2. ASSUME NEW op \in Operations, Execute(op) PROVE Calls'
    BY <1>2, CallsExecute
  <1>3. ASSUME NEW op \in Operations, reconcileCall(op) PROVE Calls'
    BY <1>3, CallsRecover
  <1>4. CASE User \/ (\E key \in firefly.flight : landsLate(key)) \/ UNCHANGED vars
    BY <1>0, <1>4, OthersSay, CallsSame
  <1> QED  BY <1>1, <1>2, <1>3, <1>4 DEF Next

\* No call has been made.
LEMMA InitCalls == Init => Calls
  <1> SUFFICES ASSUME Init PROVE Calls
    OBVIOUS
  <1>1. said = [op \in Operations |-> Never] /\ proc = [p \in Runs |-> Ended]
    BY DEF Init, Silent
  <1>2. IsCall(Never) /\ Never.at = "never"
    BY DEF IsCall, Never
  <1>3. Ended.todo = <<>>
    BY DEF Ended
  <1>4. "turn" \in Runs => proc["turn"].todo = <<>>
    BY <1>1, <1>3
  <1> QED  BY <1>1, <1>2, <1>4 DEF Calls

-----------------------------------------------------------------------------
(* One Thing of each kind.                                                   *)

\* The part of the invariant about the Things.
Things == Numbered /\ Foreign /\ OneThing

\* What is inserted is what the goal makes, under a label of its program; a Turn's bears the number of the call.
LEMMA InsertIs ==
    ASSUME Shape, Calls, NEW p \in Runs, Insert(p)
    PROVE  LET g == Goal(p) IN
           /\ \E r \in Refs : ~docs[r].there /\ docs' = [docs EXCEPT ![r] = g.new]
           /\ IsDoc(g.new) /\ g.new.there /\ g.new.key = g.key
           /\ \A r \in Refs : docs[r].there => docs[r].key # g.key
           /\ \/ g.key[1] \in Fixed
              \/ \E op \in Operations : op \in Creators /\ g.key = <<op, said[op].n>> /\ said[op].at = "running"
  <1> DEFINE g == Goal(p)
  <1>1. proc[p].todo # <<>> /\ proc[p].pc = "insert" /\ \E r \in Refs : ~docs[r].there /\ docs' = [docs EXCEPT ![r] = g.new]
    BY DEF Insert, At
  <1>2. IsProc(p, proc[p]) /\ Creates(g) /\ g \in GoalsOf[p] /\ g = Head(proc[p].todo) /\ Standing(docs, proc[p])
    BY <1>1, Running DEF Placed
  <1>3. IsDoc(g.new) /\ g.new.there /\ g.new.key = g.key /\ g.key[1] \in MadeBy[p]
    BY <1>2, GoalFacts DEF MakesOK
  <1>4. \A r \in Refs : docs[r].there => docs[r].key # g.key
    BY <1>1, <1>2 DEF Standing
  <1>5. \/ g.key[1] \in Fixed
        \/ \E op \in Operations : op \in Creators /\ g.key = <<op, said[op].n>> /\ said[op].at = "running"
    <2>1. CASE p # "turn"
      BY <1>3, <2>1, HouseholdAssumption DEF MadeBy, Fixed
    <2>2. CASE p = "turn"
      <3>1. PICK op \in Operations : said[op].at = "running" /\ TurnIs(op, said[op], proc["turn"].todo)
        BY <1>1, <2>2 DEF Calls
      <3>2. said[op].n \in Nat
        BY DEF Calls, IsCall
      <3>3. TurnGoal(op, said[op].n, proc["turn"].todo[1])
        BY <3>1, <3>2, TurnFacts DEF TurnIs
      <3>4. g = proc["turn"].todo[1]
        BY <1>1, <1>2, <2>2, NotDone DEF IsProc
      <3>5. g.do = "create" => op \in Creators /\ g.key = <<op, said[op].n>>
        BY <3>3, <3>4 DEF TurnGoal
      <3>6. g.do \in {"create", "merge", "look", "extract", "scan", "post"}
        BY <3>3, <3>4 DEF TurnGoal
      <3> QED  BY <1>2, <3>1, <3>5, <3>6 DEF Creates
    <2> QED  BY <2>1, <2>2
  <1> QED  BY <1>1, <1>3, <1>4, <1>5

\* Things that stay what they are, beside calls that are not told they made nothing.
LEMMA ThingsStay ==
    ASSUME Things, \A r \in Refs : docs'[r].there = docs[r].there /\ docs'[r].key = docs[r].key,
           \A op \in Operations \cap Creators :
              (\E r \in Refs : docs[r].there /\ docs[r].key[1] = op) =>
                  said'[op].n = said[op].n /\ (said[op].at \notin {"never", "not done"} => said'[op].at \notin {"never", "not done"})
    PROVE  Things'
  <1>1. Foreign' /\ OneThing'
    BY DEF Things, Foreign, OneThing
  <1>2. Numbered'
    <2> SUFFICES ASSUME NEW op \in Creators, op \in Operations, NEW r \in Refs, docs'[r].there, docs'[r].key[1] = op
                 PROVE  docs'[r].key[2] = said'[op].n /\ said'[op].at \notin {"never", "not done"}
      BY DEF Numbered, Made1
    <2>1. docs[r].there /\ docs[r].key[1] = op /\ docs'[r].key = docs[r].key
      OBVIOUS
    <2>2. docs[r].key[2] = said[op].n /\ said[op].at \notin {"never", "not done"}
      BY <2>1 DEF Things, Numbered, Made1
    <2>3. said'[op].n = said[op].n /\ said'[op].at \notin {"never", "not done"}
      BY <2>1, <2>2
    <2> QED  BY <2>1, <2>2, <2>3
  <1> QED  BY <1>1, <1>2 DEF Things

\* A program that is told how it ends, or is not.
LEMMA ProgramThings ==
    ASSUME Shape, Calls, Things, NEW p \in Runs, main(p) \/ Store(p) \/ Fault(p) \/ Firefly(p)
    PROVE  Things'
  <1>1. \A op \in Operations \cap Creators :
            said'[op].n = said[op].n /\ (said[op].at \notin {"never", "not done"} => said'[op].at \notin {"never", "not done"})
    <2>1. ASSUME NEW how \in Ends, Told(p, how), NEW op \in Operations \cap Creators
          PROVE  said'[op].n = said[op].n /\ (said[op].at \notin {"never", "not done"} => said'[op].at \notin {"never", "not done"})
      BY <2>1, ToldIs DEF Ends
    <2> QED  BY <2>1, ProgramSays
  <1>2. Keeps(p, docs, docs')
    BY ProgramMoves DEF Moves
  <1>3. CASE docs' = docs
    BY <1>1, <1>3, ThingsStay
  <1>4. CASE Modify(p)
    <2>1. \A r \in Refs : docs'[r].there = docs[r].there /\ docs'[r].key = docs[r].key
      <3>1. docs' = [docs EXCEPT ![proc[p].ref] = toDocument(proc[p].raw, proc[p].write)]
            /\ proc[p].todo # <<>> /\ proc[p].pc = "modify"
        BY <1>4 DEF Modify, At
      <3>2. DOMAIN docs = Refs /\ docs[proc[p].ref].there
        BY <3>1, Running DEF Standing, Writing
      <3>3. \A r \in Refs : r # proc[p].ref => docs'[r] = docs[r]
        BY <3>1, <3>2
      <3>4. \A r \in Refs : docs[r].there => docs'[r].there /\ docs'[r].key = docs[r].key
        BY <1>2 DEF Keeps
      <3>5. \A r \in Refs : docs[r].there \in BOOLEAN /\ docs'[r].there \in BOOLEAN
        BY <1>2 DEF Keeps, Shape, IsDoc
      <3> QED  BY <3>2, <3>3, <3>4, <3>5
    <2> QED  BY <1>1, <2>1, ThingsStay
  <1>5. CASE Insert(p)
    <2> DEFINE g == Goal(p)
    <2>1. PICK r0 \in Refs : ~docs[r0].there /\ docs' = [docs EXCEPT ![r0] = g.new]
      BY <1>5, InsertIs
    <2>2. /\ docs'[r0].there /\ docs'[r0].key = g.key /\ IsDoc(docs'[r0])
          /\ \A r \in Refs : r # r0 => docs'[r] = docs[r]
          /\ \A r \in Refs : docs[r].there => docs[r].key # g.key
      BY <1>5, <2>1, InsertIs DEF Shape
    <2>3. \/ g.key[1] \in Fixed
          \/ \E op \in Operations : op \in Creators /\ g.key = <<op, said[op].n>> /\ said[op].at = "running"
      BY <1>5, InsertIs
    <2> HIDE DEF g
    <2>4. \A r \in Refs : docs[r].there => docs[r].key[1] # g.key[1]
      <3> SUFFICES ASSUME NEW r \in Refs, docs[r].there, docs[r].key[1] = g.key[1] PROVE FALSE
        OBVIOUS
      <3>1. IsDoc(docs[r])
        BY DEF Shape
      <3>2. docs[r].key \in Labels \X Nat /\ g.key \in Labels \X Nat
        BY <2>2, <3>1 DEF IsDoc
      <3>3. docs[r].key[2] = g.key[2]
        <4>1. CASE g.key[1] \in Fixed
          BY <2>2, <3>1, <4>1 DEF IsDoc
        <4>2. ASSUME NEW op \in Operations, op \in Creators, g.key = <<op, said[op].n>> PROVE docs[r].key[2] = g.key[2]
          <5>1. g.key[1] = op /\ g.key[2] = said[op].n
            BY <4>2
          <5> QED  BY <4>2, <5>1 DEF Things, Numbered, Made1
        <4> QED  BY <2>3, <4>1, <4>2
      <3>4. docs[r].key = g.key
        BY <3>2, <3>3
      <3> QED  BY <2>2, <3>4
    <2>5. Foreign'
      BY <2>2, <2>3 DEF Things, Foreign
    <2>6. OneThing'
      <3> SUFFICES ASSUME NEW r \in Refs, NEW s \in Refs, docs'[r].there, docs'[s].there, docs'[r].key[1] = docs'[s].key[1]
                   PROVE  r = s
        BY DEF OneThing
      <3>1. CASE r = r0 \/ s = r0
        BY <2>2, <2>4, <3>1
      <3>2. CASE r # r0 /\ s # r0
        BY <2>2, <3>2 DEF Things, OneThing
      <3> QED  BY <3>1, <3>2
    <2>7. Numbered'
      <3> SUFFICES ASSUME NEW op \in Creators, op \in Operations, NEW r \in Refs, docs'[r].there, docs'[r].key[1] = op
                   PROVE  docs'[r].key[2] = said'[op].n /\ said'[op].at \notin {"never", "not done"}
        BY DEF Numbered, Made1
      <3>1. docs'[r].key[2] = said[op].n /\ said[op].at \notin {"never", "not done"}
        <4>1. CASE r = r0
          <5>1. op \notin Fixed
            BY DEF Creators, Fixed
          <5>2. g.key[1] = op
            BY <2>2, <4>1
          <5>3. PICK o \in Operations : g.key = <<o, said[o].n>> /\ said[o].at = "running"
            BY <2>3, <5>1, <5>2
          <5>4. o = op /\ g.key[2] = said[op].n
            BY <5>2, <5>3
          <5> QED  BY <2>2, <4>1, <5>3, <5>4
        <4>2. CASE r # r0
          BY <2>2, <4>2 DEF Things, Numbered, Made1
        <4> QED  BY <4>1, <4>2
      <3> QED  BY <1>1, <3>1
    <2> QED  BY <2>5, <2>6, <2>7 DEF Things
  <1> QED  BY <1>3, <1>4, <1>5, ProgramSays

\* There is one Thing of each kind.
LEMMA NextThings ==
    ASSUME Shape, Calls, Things, [Next]_vars
    PROVE  Things'
  <1>1. ASSUME NEW p \in Runs, main(p) \/ Store(p) \/ Fault(p) \/ Firefly(p) PROVE Things'
    BY <1>1, ProgramThings
  <1>2. ASSUME NEW op \in Operations, Execute(op) PROVE Things'
    <2>1. docs' = docs /\ \A o \in Operations : o # op => said'[o] = said[o]
      BY <1>2, CallIs
    <2>2. said'[op] = said[op] \/ mayCall(op)
      BY <1>2, CallIs
    <2>3. said'[op] = said[op] \/ op \notin Creators \/ ~\E r \in Refs : docs[r].there /\ docs[r].key[1] = op
      BY <2>2 DEF mayCall, Things, Numbered, Made1
    <2> QED  BY <2>1, <2>3, ThingsStay
  <1>3. ASSUME NEW op \in Operations, reconcileCall(op) PROVE Things'
    <2>1. /\ docs' = docs /\ \A o \in Operations : o # op => said'[o] = said[o]
          /\ op \in Creators => said'[op].n = said[op].n /\ said'[op].at = reconcile(op, <<op, said[op].n>>, said[op].replace)
      BY <1>3, RecoverIs
    <2>2. ASSUME op \in Creators, NEW r \in Refs, docs[r].there, docs[r].key[1] = op
          PROVE  said'[op].at \notin {"never", "not done"}
      <3>1. docs[r].key = <<op, said[op].n>>
        <4>1. docs[r].key[2] = said[op].n
          BY <2>2 DEF Things, Numbered, Made1
        <4>2. docs[r].key \in Labels \X Nat
          BY DEF Shape, IsDoc
        <4> QED  BY <2>2, <4>1, <4>2
      <3>2. Made(<<op, said[op].n>>)
        BY <2>2, <3>1 DEF Made
      <3>3. said'[op].at \in {"done", "unknown"}
        BY <2>1, <2>2, <3>2 DEF reconcile, Creators
      <3> QED  BY <3>3
    <2> QED  BY <2>1, <2>2, ThingsStay
  <1>4. CASE User \/ (\E key \in firefly.flight : landsLate(key)) \/ UNCHANGED vars
    BY <1>4, OthersSay, ThingsStay
  <1> QED  BY <1>1, <1>2, <1>3, <1>4 DEF Next

\* The store as it is found has a Thing of each kind at most.
LEMMA InitThings == Init => Things
  <1> SUFFICES ASSUME Init PROVE Things
    OBVIOUS
  <1>1. \A r \in Refs : docs[r].there => (r = 1 /\ docs[r].key = <<"operation", 0>>) \/ (r = 2 /\ docs[r].key = post)
    BY DEF Init, Nobody, Thing
  <1>2. \A r \in Refs : docs[r].there => docs[r].key[1] \in Fixed
    BY <1>1 DEF post, Fixed
  <1>3. OneThing
    BY <1>1 DEF OneThing, post
  <1>4. Numbered
    BY <1>2 DEF Numbered, Made1, Creators, Fixed
  <1> QED  BY <1>2, <1>3, <1>4 DEF Things, Foreign

-----------------------------------------------------------------------------
(* One live journal of each posting.                                         *)

\* The fields of Firefly's state, and of a journal.
FireflyFields == {"accounts", "budgets", "limits", "journals", "flight"}
IsJournal(j) == DOMAIN j = {"key", "live", "id"} /\ j.live \in BOOLEAN

\* No more journals that live, and nobody begins to post.
LEMMA JournalsLess ==
    ASSUME Journals, DOMAIN firefly' = FireflyFields, \A j \in firefly'.journals : IsJournal(j),
           Live' \subseteq Live, firefly'.flight = firefly.flight,
           \A q \in Runs : Posting(proc'[q]) => proc'[q] = proc[q]
    PROVE  Journals'
  <1>1. \A i, j \in Live' : i = j
    BY DEF Journals
  <1>2. \A k \in firefly'.flight : firefly'.flight = {k} /\ \A j \in Live' : j.key = k
    BY DEF Journals
  <1>3. ASSUME NEW p \in Runs, Posting(proc'[p])
        PROVE  /\ \A q \in Runs : Posting(proc'[q]) => q = p
               /\ firefly'.flight \subseteq {Goal(p)'.name}
               /\ proc'[p].pc = "POST" => \A j \in Live' : j.key = Goal(p)'.name
    <2>1. proc'[p] = proc[p] /\ Posting(proc[p]) /\ Goal(p)' = Goal(p)
      BY <1>3 DEF Goal
    <2>2. /\ \A q \in Runs : Posting(proc[q]) => q = p
          /\ firefly.flight \subseteq {Goal(p).name}
          /\ proc[p].pc = "POST" => \A j \in Live : j.key = Goal(p).name
      BY <2>1 DEF Journals
    <2>3. \A q \in Runs : Posting(proc'[q]) => Posting(proc[q])
      OBVIOUS
    <2> QED  BY <2>1, <2>2, <2>3
  <1> QED  BY <1>1, <1>2, <1>3 DEF Journals, FireflyFields, IsJournal

\* A program that reaches a goal, gives up or ends is not posting.
LEMMA NotPosting ==
    ASSUME Shape, NEW p \in Runs, proc[p].todo # <<>>
    PROVE  ~Posting(Return(proc[p])) /\ ~Posting(Failed(proc[p])) /\ ~Posting(Ended)
  <1>1. IsProc(p, proc[p]) /\ DOMAIN proc[p] = ProcFields
    BY Running
  <1>2. Return(proc[p]).pc = "find"
    BY <1>1, ReturnIs DEF IsProc
  <1>3. Failed(proc[p]).pc = "find" /\ Ended.pc = "find"
    BY <1>1, FailedIs, EndedIs
  <1> QED  BY <1>2, <1>3 DEF Posting

\* Steps that have nothing to do with Firefly.
LEMMA JournalsAside ==
    ASSUME Shape, Calls, Journals, NEW p \in Runs,
           main(p) \/ Store(p) \/ Fault(p) \/ (p = "turn" /\ \E op \in Operations : Execute(op))
    PROVE  Journals'
  <1> DEFINE q == proc[p]
  <1>1. proc' = [proc EXCEPT ![p] = proc'[p]] /\ DOMAIN proc = Runs
    BY ProgramMoves DEF Moves, Lands, Shape
  <1>2. firefly' = firefly
    <2>1. ASSUME NEW op \in Operations, Execute(op) PROVE firefly' = firefly
      BY <2>1, CallIs
    <2>2. CASE main(p) \/ Store(p) \/ Fault(p)
      BY <2>2 DEF main, Store, Fault, Begin
    <2> QED  BY <2>1, <2>2
  <1>3. ~Posting(proc'[p])
    <2>1. ASSUME NEW todo, Begin(p, todo) PROVE ~Posting(proc'[p])
      <3>1. q.pc = "find" /\ DOMAIN q = ProcFields /\ proc' = [proc EXCEPT ![p].todo = todo]
        BY <2>1 DEF Begin, Shape, IsProc
      <3>2. proc'[p].pc = "find"
        BY <1>1, <3>1 DEF ProcFields
      <3> QED  BY <3>2 DEF Posting
    <2>2. CASE main(p)
      BY <2>1, <2>2 DEF main
    <2>3. CASE p = "turn" /\ \E op \in Operations : Execute(op)
      BY <2>1, <2>3 DEF Execute
    <2>4. CASE Store(p)
      <3>1. q.todo # <<>> /\ (Asks(p) \/ Finishes(p) \/ GivesUp(p) \/ Works(p))
        BY <2>4, StoreCourse DEF Store
      <3>2. CASE Asks(p) \/ Works(p)
        BY <3>2 DEF Asks, Works, Posting, Writing
      <3>3. CASE Finishes(p) \/ GivesUp(p)
        BY <3>1, <3>3, NotPosting DEF Finishes, GivesUp
      <3> QED  BY <3>1, <3>2, <3>3
    <2>5. CASE Fault(p)
      <3>1. requestFails(p) \/ answerIsLost(p) \/ Crash(p)
        BY <2>5 DEF Fault
      <3>2. q.todo # <<>> /\ proc'[p] \in {Return(q), Failed(q), Ended}
        BY <1>1, <3>1 DEF requestFails, answerIsLost, Crash, Insert, Modify, At
      <3> QED  BY <3>2, NotPosting
    <2> QED  BY <2>2, <2>3, <2>4, <2>5
  <1>4. \A r \in Runs : Posting(proc'[r]) => proc'[r] = proc[r]
    BY <1>1, <1>3
  <1>5. Live' = Live
    BY <1>2 DEF Live
  <1> QED  BY <1>2, <1>4, <1>5, JournalsLess DEF Journals, FireflyFields, IsJournal

\* A journal lands where none of the key lives.
LEMMA LandedIs ==
    ASSUME Journals, NEW key, \A j \in Live : j.key = key, \A j \in firefly.journals : j.key = key => ~j.live,
           NEW f, f \in {Landed(key), [Landed(key) EXCEPT !.flight = firefly.flight \ {key}]}
    PROVE  /\ DOMAIN f = FireflyFields /\ \A j \in f.journals : IsJournal(j)
           /\ \A i, j \in f.journals : i.live /\ j.live => i = j
           /\ \A j \in f.journals : j.live => j.key = key
           /\ f = Landed(key) => f.flight = firefly.flight
           /\ f # Landed(key) => f.flight = firefly.flight \ {key}
  <1> DEFINE n == [key |-> key, live |-> TRUE, id |-> Cardinality(firefly.journals)]
  <1>1. DOMAIN firefly = FireflyFields /\ \A j \in firefly.journals : IsJournal(j)
    BY DEF Journals, FireflyFields, IsJournal
  <1>2. IsJournal(n) /\ n.key = key
    BY DEF IsJournal
  <1>3. \A j \in firefly.journals : ~j.live
    BY DEF Live
  <1> HIDE DEF n
  <1>4. /\ DOMAIN Landed(key) = FireflyFields /\ Landed(key).journals = firefly.journals \cup {n}
        /\ Landed(key).flight = firefly.flight
    BY <1>1 DEF Landed, FireflyFields, n
  <1>5. DOMAIN f = FireflyFields /\ f.journals = firefly.journals \cup {n}
        /\ (f = Landed(key) => f.flight = firefly.flight)
        /\ (f # Landed(key) => f.flight = firefly.flight \ {key})
    BY <1>4 DEF FireflyFields
  <1> QED  BY <1>1, <1>2, <1>3, <1>5

\* What the requests to Firefly leave alone.
LEMMA JournalsFirefly ==
    ASSUME Shape, Calls, Journals, NEW p \in Runs, Firefly(p)
    PROVE  Journals'
  <1> DEFINE q == proc[p]
             Untouched == DOMAIN firefly' = FireflyFields /\ firefly'.journals = firefly.journals /\ firefly'.flight = firefly.flight
  <1>0. /\ FireflyStep(p) /\ q.todo # <<>> /\ DOMAIN proc = Runs /\ DOMAIN q = ProcFields
        /\ DOMAIN firefly = FireflyFields /\ \A j \in firefly.journals : IsJournal(j)
        /\ Goal(p) = Head(q.todo) /\ Placed(q)
        /\ proc' = [proc EXCEPT ![p] = proc'[p]]
    <2>1. FireflyStep(p) /\ q.todo # <<>>
      BY FireflySteps DEF FireflyStep
    <2>2. proc' = [proc EXCEPT ![p] = proc'[p]]
      BY ProgramMoves DEF Moves, Lands
    <2> QED  BY <2>1, <2>2, Running DEF Journals, FireflyFields, IsJournal
  <1>1. ASSUME Untouched, ~Posting(proc'[p]) PROVE Journals'
    <2>1. Live' = Live
      BY <1>1 DEF Live
    <2>2. \A r \in Runs : Posting(proc'[r]) => proc'[r] = proc[r]
      BY <1>0, <1>1
    <2> QED  BY <1>0, <1>1, <2>1, <2>2, JournalsLess
  <1>2. ASSUME NEW r \in {"find", "POST"}, proc'[p] \in {Return(q), Failed(q), [q EXCEPT !.pc = r]}, Goal(p).do # "post"
        PROVE  ~Posting(proc'[p])
    <2>1. [q EXCEPT !.pc = r].todo = q.todo
      BY <1>0 DEF ProcFields
    <2>2. ~Posting([q EXCEPT !.pc = r])
      BY <1>0, <1>2, <2>1 DEF Posting
    <2> QED  BY <1>0, <1>2, <2>2, NotPosting
  <1>3. CASE listAccounts(p) \/ listBudgets(p) \/ createAccount(p) \/ createBudget(p) \/ setBudgetLimit(p)
    <2>1. Untouched
      BY <1>0, <1>3 DEF listAccounts, listBudgets, createAccount, createBudget, setBudgetLimit, Seek, FireflyFields
    <2>2. Goal(p).do # "post"
      BY <1>3 DEF listAccounts, listBudgets, createAccount, createBudget, setBudgetLimit
    <2>3. proc'[p] \in {Return(q), Failed(q), [q EXCEPT !.pc = "POST"]}
      BY <1>0, <2>2 DEF FireflyStep
    <2>4. ~Posting(proc'[p])
      BY <1>2, <2>2, <2>3
    <2> QED  BY <1>1, <2>1, <2>4
  <1>4. CASE findByExternalId(p) /\ ~OthersPost(p)
    <2>1. Untouched
      BY <1>0, <1>4 DEF findByExternalId
    <2>2. CASE proc'[p] = Return(q)
      BY <1>0, <1>1, <2>1, <2>2, NotPosting
    <2>3. CASE proc'[p] = [q EXCEPT !.pc = "same"]
      <3>1. proc'[p].pc = "same" /\ proc'[p].todo = q.todo
        BY <1>0, <2>3 DEF ProcFields
      <3>2. \A r \in Runs : r # p => proc'[r] = proc[r] /\ ~Posting(proc[r])
        BY <1>0, <1>4 DEF OthersPost, Posting, At, Goal
      <3>3. firefly.flight \subseteq {Goal(p).name} /\ Goal(p)' = Goal(p)
        BY <1>4, <3>1 DEF OthersPost, Goal
      <3>4. Live' = Live
        BY <2>1 DEF Live
      <3>5. ASSUME NEW r \in Runs, Posting(proc'[r])
            PROVE  /\ \A s \in Runs : Posting(proc'[s]) => s = r
                   /\ firefly'.flight \subseteq {Goal(r)'.name}
                   /\ proc'[r].pc = "POST" => \A j \in Live' : j.key = Goal(r)'.name
        BY <2>1, <3>5, <3>1, <3>2, <3>3
      <3>6. \A i, j \in Live' : i = j
        BY <3>4 DEF Journals
      <3>7. \A k \in firefly'.flight : firefly'.flight = {k} /\ \A j \in Live' : j.key = k
        BY <2>1, <3>4 DEF Journals
      <3>8. DOMAIN firefly' = FireflyFields /\ \A j \in firefly'.journals : IsJournal(j)
        BY <1>0, <2>1
      <3> QED  BY <3>5, <3>6, <3>7, <3>8 DEF Journals, FireflyFields, IsJournal
    <2> QED  BY <1>0, <1>4, <2>2, <2>3 DEF findByExternalId, Step
  <1>5. CASE findSamePostingForThing(p)
    <2>1. Untouched /\ q.pc = "same"
      BY <1>0, <1>5 DEF findSamePostingForThing, At
    <2>2. CASE proc'[p] = Return(q)
      BY <1>0, <1>1, <2>1, <2>2, NotPosting
    <2>3. CASE Live = {} /\ proc'[p] = [q EXCEPT !.pc = "POST"]
      <3>1. proc'[p].pc = "POST" /\ proc'[p].todo = q.todo
        BY <1>0, <2>3 DEF ProcFields
      <3>2. Posting(q)
        BY <1>0, <2>1 DEF Posting, Placed
      <3>3. firefly.flight \subseteq {Goal(p).name} /\ Goal(p)' = Goal(p) /\ \A r \in Runs : Posting(proc[r]) => r = p
        BY <3>1, <3>2 DEF Journals, Goal
      <3>4. Live' = {}
        BY <2>1, <2>3 DEF Live
      <3>5. ASSUME NEW r \in Runs, Posting(proc'[r])
            PROVE  /\ \A s \in Runs : Posting(proc'[s]) => s = r
                   /\ firefly'.flight \subseteq {Goal(r)'.name}
                   /\ proc'[r].pc = "POST" => \A j \in Live' : j.key = Goal(r)'.name
        <4>1. \A s \in Runs : s # p => proc'[s] = proc[s]
          BY <1>0
        <4>2. \A s \in Runs : Posting(proc'[s]) => s = p
          BY <3>3, <4>1
        <4>3. r = p
          BY <3>5, <4>2
        <4> QED  BY <2>1, <3>3, <3>4, <4>2, <4>3
      <3>6. \A k \in firefly'.flight : firefly'.flight = {k}
        BY <2>1 DEF Journals
      <3>7. \A k \in firefly'.flight : firefly'.flight = {k} /\ \A j \in Live' : j.key = k
        BY <3>4, <3>6
      <3>8. DOMAIN firefly' = FireflyFields /\ \A j \in firefly'.journals : IsJournal(j)
        BY <1>0, <2>1
      <3>9. \A i, j \in Live' : i = j
        BY <3>4
      <3> QED  BY <3>5, <3>7, <3>8, <3>9 DEF Journals, FireflyFields, IsJournal
    <2> QED  BY <1>0, <1>5, <2>2, <2>3 DEF findSamePostingForThing, Step
  <1>6. CASE postOnce(p) \/ postIsLost(p)
    <2> DEFINE name == Goal(p).name
    <2>1. q.pc = "POST" /\ Goal(p).do = "post"
      BY <1>6 DEF postOnce, postIsLost, At
    <2>2. Posting(q)
      BY <1>0, <2>1 DEF Posting
    <2>3. /\ \A j \in Live : j.key = name
          /\ firefly.flight \subseteq {name}
          /\ \A r \in Runs : Posting(proc[r]) => r = p
      BY <2>1, <2>2 DEF Journals
    <2>4. ~Posting(proc'[p])
      <3>1. proc'[p] \in {Return(q), Failed(q)}
        BY <1>0, <1>6 DEF postOnce, postIsLost, Step
      <3> QED  BY <1>0, <3>1, NotPosting
    <2>5. \A r \in Runs : ~Posting(proc'[r])
      BY <1>0, <2>3, <2>4
    <2>6. CASE firefly' = firefly
      BY <1>0, <1>1, <2>4, <2>6
    <2>7. CASE firefly' # firefly
      <3>1. \A j \in firefly.journals : j.key = name => ~j.live
        BY <1>6, <2>7 DEF postOnce, postIsLost, duplicateHashVictim
      <3>2. \/ firefly' = Landed(name)
            \/ firefly' = [firefly EXCEPT !.flight = @ \cup {name}]
        BY <1>6, <2>7 DEF postOnce, postIsLost
      <3>3. firefly.flight \subseteq {name}
        BY <2>3
      <3>4. CASE firefly' = Landed(name)
        <4>1. /\ DOMAIN firefly' = FireflyFields /\ \A j \in firefly'.journals : IsJournal(j)
              /\ \A i, j \in firefly'.journals : i.live /\ j.live => i = j
              /\ \A j \in firefly'.journals : j.live => j.key = name
              /\ firefly'.flight = firefly.flight
          BY <2>3, <3>1, <3>4, LandedIs
        <4>2. \A k \in firefly'.flight : firefly'.flight = {k} /\ k = name
          BY <3>3, <4>1
        <4>3. \A i, j \in Live' : i = j /\ j.key = name
          BY <4>1 DEF Live
        <4> QED  BY <2>5, <4>1, <4>2, <4>3 DEF Journals, FireflyFields, IsJournal
      <3>5. CASE firefly' = [firefly EXCEPT !.flight = @ \cup {name}]
        <4>1. DOMAIN firefly' = FireflyFields /\ firefly'.journals = firefly.journals /\ firefly'.flight = {name}
          BY <1>0, <3>3, <3>5 DEF FireflyFields
        <4>2. Live' = Live
          BY <4>1 DEF Live
        <4> QED  BY <1>0, <2>3, <2>5, <4>1, <4>2 DEF Journals, FireflyFields, IsJournal
      <3> QED  BY <3>2, <3>4, <3>5
    <2> QED  BY <2>6, <2>7
  <1> QED  BY <1>3, <1>4, <1>5, <1>6 DEF Firefly

\* There is one live journal at most, whatever is still under way.
LEMMA NextJournals ==
    ASSUME Shape, Calls, Journals, [Next]_vars
    PROVE  Journals'
  <1>0. DOMAIN firefly = FireflyFields /\ \A j \in firefly.journals : IsJournal(j)
    BY DEF Journals, FireflyFields, IsJournal
  <1>1. ASSUME NEW p \in Runs, main(p) \/ Store(p) \/ Fault(p) PROVE Journals'
    BY <1>1, JournalsAside
  <1>2. ASSUME NEW p \in Runs, Firefly(p) PROVE Journals'
    BY <1>2, JournalsFirefly
  <1>3. ASSUME NEW op \in Operations, Execute(op) PROVE Journals'
    <2>1. "turn" \in Runs
      BY HouseholdAssumption
    <2> QED  BY <1>3, <2>1, JournalsAside
  <1>4. ASSUME firefly' = firefly, proc' = proc PROVE Journals'
    <2>1. Live' = Live
      BY <1>4 DEF Live
    <2> QED  BY <1>0, <1>4, <2>1, JournalsLess
  <1>5. ASSUME NEW op \in Operations, reconcileCall(op) PROVE Journals'
    BY <1>4, <1>5, RecoverIs
  <1>6. ASSUME NEW key \in firefly.flight, landsLate(key) PROVE Journals'
    <2>1. /\ firefly' = [(IF duplicateHashVictim(key) = {} THEN Landed(key) ELSE firefly) EXCEPT !.flight = @ \ {key}]
          /\ proc' = proc
      BY <1>6 DEF landsLate
    <2>2. firefly.flight = {key} /\ \A j \in Live : j.key = key
      BY DEF Journals
    <2>3. CASE duplicateHashVictim(key) = {}
      <3>1. \A j \in firefly.journals : j.key # key
        BY <2>3 DEF duplicateHashVictim
      <3>2. Landed(key).flight = firefly.flight
        BY <1>0 DEF Landed, FireflyFields
      <3>3. firefly' = [Landed(key) EXCEPT !.flight = firefly.flight \ {key}]
        BY <2>1, <2>3, <3>2
      <3>4. DOMAIN Landed(key) = FireflyFields
        BY <1>0 DEF Landed
      <3>5. firefly'.flight = {}
        BY <2>2, <3>3, <3>4 DEF FireflyFields
      <3>6. /\ DOMAIN firefly' = FireflyFields /\ \A j \in firefly'.journals : IsJournal(j)
            /\ \A i, j \in firefly'.journals : i.live /\ j.live => i = j
            /\ \A j \in firefly'.journals : j.live => j.key = key
        BY <2>2, <3>1, <3>3, LandedIs
      <3>7. \A i, j \in Live' : i = j
        BY <3>6 DEF Live
      <3>8. ASSUME NEW r \in Runs, Posting(proc'[r])
            PROVE  /\ \A s \in Runs : Posting(proc'[s]) => s = r
                   /\ firefly'.flight \subseteq {Goal(r)'.name}
                   /\ proc'[r].pc = "POST" => \A j \in Live' : j.key = Goal(r)'.name
        <4>1. Posting(proc[r]) /\ Goal(r)' = Goal(r)
          BY <2>1, <3>8 DEF Goal
        <4>2. firefly.flight \subseteq {Goal(r).name} /\ \A s \in Runs : Posting(proc[s]) => s = r
          BY <4>1 DEF Journals
        <4>3. Goal(r).name = key
          BY <2>2, <4>2
        <4>4. \A j \in Live' : j.key = key
          BY <3>6 DEF Live
        <4> QED  BY <2>1, <3>5, <4>1, <4>2, <4>3, <4>4
      <3> QED  BY <3>5, <3>6, <3>7, <3>8 DEF Journals, FireflyFields, IsJournal
    <2>4. CASE duplicateHashVictim(key) # {}
      <3>1. DOMAIN firefly' = FireflyFields /\ firefly'.journals = firefly.journals /\ firefly'.flight = {}
        BY <1>0, <2>1, <2>2, <2>4 DEF FireflyFields
      <3>2. Live' = Live
        BY <3>1 DEF Live
      <3>3. ASSUME NEW r \in Runs, Posting(proc'[r])
            PROVE  /\ \A s \in Runs : Posting(proc'[s]) => s = r
                   /\ firefly'.flight \subseteq {Goal(r)'.name}
                   /\ proc'[r].pc = "POST" => \A j \in Live' : j.key = Goal(r)'.name
        <4>1. Posting(proc[r]) /\ Goal(r)' = Goal(r)
          BY <2>1, <3>3 DEF Goal
        <4>2. /\ \A s \in Runs : Posting(proc[s]) => s = r
              /\ proc[r].pc = "POST" => \A j \in Live : j.key = Goal(r).name
          BY <4>1 DEF Journals
        <4> QED  BY <2>1, <3>1, <3>2, <4>1, <4>2
      <3>4. \A i, j \in Live' : i = j
        BY <3>2 DEF Journals
      <3> QED  BY <1>0, <3>1, <3>3, <3>4 DEF Journals, FireflyFields, IsJournal
    <2> QED  BY <2>3, <2>4
  <1>7. ASSUME NEW j \in firefly.journals, UserDeletesJournal(j) PROVE Journals'
    <2>1. /\ firefly' = [firefly EXCEPT !.journals = (@ \ {j}) \cup {[j EXCEPT !.live = FALSE]}]
          /\ proc' = proc
      BY <1>7 DEF UserDeletesJournal
    <2>2. IsJournal([j EXCEPT !.live = FALSE]) /\ [j EXCEPT !.live = FALSE].live = FALSE
      BY <1>0 DEF IsJournal
    <2>3. /\ DOMAIN firefly' = FireflyFields /\ firefly'.flight = firefly.flight
          /\ firefly'.journals = (firefly.journals \ {j}) \cup {[j EXCEPT !.live = FALSE]}
      BY <1>0, <2>1 DEF FireflyFields
    <2>4. \A i \in firefly'.journals : IsJournal(i)
      BY <1>0, <2>2, <2>3
    <2>5. Live' \subseteq Live
      BY <2>2, <2>3 DEF Live
    <2> QED  BY <2>1, <2>3, <2>4, <2>5, JournalsLess
  <1>8. ASSUME NEW r \in Refs,
               UserDecides(r) \/ UserTranscribes(r) \/ UserAddsRow(r) \/ \E to \in {"on", "off"} : setPaused(r, to)
        PROVE  Journals'
    BY <1>4, <1>8, UserKeeps
  <1>9. CASE UNCHANGED vars
    BY <1>4, <1>9 DEF vars
  <1> QED  BY <1>1, <1>2, <1>3, <1>5, <1>6, <1>7, <1>8, <1>9 DEF Next, User

\* Nothing has been booked.
LEMMA InitJournals == Init => Journals
  <1> SUFFICES ASSUME Init PROVE Journals
    OBVIOUS
  <1>1. firefly = [accounts |-> {}, budgets |-> {}, limits |-> {}, journals |-> {}, flight |-> {}]
    BY DEF Init
  <1>2. \A p \in Runs : ~Posting(proc[p])
    BY EndedIs DEF Init, Posting
  <1> QED  BY <1>1, <1>2 DEF Journals, Live

-----------------------------------------------------------------------------
(* The invariant that holds whatever fails.                                  *)

\* All four parts together.
Inv == Shape /\ Calls /\ Things /\ Journals

\* It holds of every state.
LEMMA Invariance == Spec => []Inv
  <1>1. Init => Inv
    BY InitShape, InitCalls, InitThings, InitJournals DEF Inv
  <1>2. Inv /\ [Next]_vars => Inv'
    BY NextShape, NextCalls, NextThings, NextJournals DEF Inv
  <1> QED  BY <1>1, <1>2, PTL DEF Spec

(***************************************************************************)
(* Loading again, failing, dying or losing an answer makes no second       *)
(* household: one Thing of each kind (ensureThings, create, bootstrap,     *)
(* reconcile), and one live journal of each posting (postTransaction), for *)
(* every set of programs, Operations, faults and edits.                    *)
(***************************************************************************)
THEOREM NoSecondHousehold == Spec => []OneOfEach
  <1>1. Inv => OneOfEach
    <2> SUFFICES ASSUME Inv PROVE OneOfEach
      OBVIOUS
    <2>1. \A r, s \in Refs : docs[r].there /\ docs[s].there /\ docs[r].key[1] = docs[s].key[1] => r = s
      BY DEF Inv, Things, OneThing
    <2>2. Cardinality(Live) <= 1
      <3>1. CASE Live = {}
        BY <3>1, FS_EmptySet
      <3>2. CASE Live # {}
        <4>1. PICK j : j \in Live
          BY <3>2
        <4>2. Live = {j}
          BY <4>1 DEF Inv, Journals
        <4> QED  BY <4>2, FS_Singleton
      <3> QED  BY <3>1, <3>2
    <2> QED  BY <2>1, <2>2 DEF OneOfEach
  <1> QED  BY <1>1, Invariance, PTL

-----------------------------------------------------------------------------
(* What holds if nobody edits a Thing between looking at it and writing it.  *)

\* Nobody writes the Thing another program is about to write.
LEMMA OthersLeaveAlone ==
    ASSUME Shape, Calls, NEW p \in Runs, docs' = docs \/ Insert(p) \/ Modify(p),
           NEW q \in Runs, q # p, proc[q].todo # <<>>, proc[q].pc \in Writing
    PROVE  docs'[proc[q].ref] = docs[proc[q].ref]
  <1> DEFINE ref == proc[q].ref
  <1>1. /\ ref \in Refs /\ docs[ref].there /\ docs[ref].key = Goal(q).key /\ Writer(Goal(q)) /\ Goal(q) \in GoalsOf[q]
        /\ DOMAIN docs = Refs
    BY Running DEF Standing, Placed
  <1>2. CASE Insert(p)
    <2>1. PICK r \in Refs : ~docs[r].there /\ docs' = [docs EXCEPT ![r] = Goal(p).new]
      BY <1>2 DEF Insert
    <2> QED  BY <1>1, <2>1
  <1>3. CASE Modify(p)
    <2>1. /\ docs' = [docs EXCEPT ![proc[p].ref] = toDocument(proc[p].raw, proc[p].write)]
          /\ proc[p].todo # <<>> /\ proc[p].pc = "modify"
      BY <1>3 DEF Modify, At
    <2>2. docs[proc[p].ref].key = Goal(p).key /\ Writer(Goal(p)) /\ Goal(p) \in GoalsOf[p]
      BY <2>1, Running DEF Standing, Placed, Writing
    <2>3. Goal(p).key[1] \in WrittenBy[p] /\ Goal(q).key[1] \in WrittenBy[q]
      BY <1>1, <2>2, GoalFacts DEF WritesOK
    <2>4. proc[p].ref # ref
      BY <1>1, <2>2, <2>3, Owners
    <2> QED  BY <1>1, <2>1, <2>4
  <1> QED  BY <1>2, <1>3

\* Only a request to the store brings a program to a write.
LEMMA PlaceAfter ==
    ASSUME Shape, Calls, NEW p \in Runs,
           main(p) \/ Fault(p) \/ Firefly(p) \/ (p = "turn" /\ \E op \in Operations : Execute(op))
    PROVE  proc'[p].pc \notin Writing
  <1> DEFINE q == proc[p]
  <1>0. DOMAIN proc = Runs /\ IsProc(p, q) /\ DOMAIN q = ProcFields
    BY DEF Shape, IsProc
  <1>1. ASSUME NEW todo, Begin(p, todo) PROVE proc'[p].pc \notin Writing
    <2>1. q.pc = "find" /\ proc' = [proc EXCEPT ![p].todo = todo]
      BY <1>0, <1>1 DEF Begin, IsProc
    <2>2. proc'[p].pc = "find"
      BY <1>0, <2>1 DEF ProcFields
    <2> QED  BY <2>2 DEF Writing
  <1>2. CASE main(p) \/ (p = "turn" /\ \E op \in Operations : Execute(op))
    BY <1>1, <1>2 DEF main, Execute
  <1>3. ASSUME q.todo # <<>>, proc'[p] \in {Return(q), Failed(q), Ended} PROVE proc'[p].pc \notin Writing
    <2>1. Return(q).pc = "find"
      BY <1>0, <1>3, ReturnIs DEF IsProc
    <2>2. Failed(q).pc = "find" /\ Ended.pc = "find"
      BY <1>0, <1>3, FailedIs, EndedIs
    <2> QED  BY <1>3, <2>1, <2>2 DEF Writing
  <1>4. CASE Fault(p)
    <2>1. requestFails(p) \/ answerIsLost(p) \/ Crash(p)
      BY <1>4 DEF Fault
    <2>2. q.todo # <<>> /\ proc'[p] \in {Return(q), Failed(q), Ended}
      BY <1>0, <2>1 DEF requestFails, answerIsLost, Crash, Insert, Modify, At
    <2> QED  BY <1>3, <2>2
  <1>5. CASE Firefly(p)
    <2>1. FireflyStep(p)
      BY <1>5, FireflySteps
    <2>2. CASE proc'[p] \in {Return(q), Failed(q)}
      BY <1>3, <2>1, <2>2 DEF FireflyStep
    <2>3. CASE proc'[p].pc \in {"POST", "same"}
      BY <2>3 DEF Writing
    <2> QED  BY <1>0, <2>1, <2>2, <2>3 DEF FireflyStep, ProcFields
  <1> QED  BY <1>2, <1>4, <1>5

\* A program that is about to write keeps to what it found.
LEMMA StoreFresh ==
    ASSUME Shape, Calls, Fresh, NEW p \in Runs, Store(p), proc'[p].pc \in Writing
    PROVE  FreshAt(docs', proc'[p])
  <1> DEFINE q == proc[p]
             x == proc'[p]
  <1>0. q.todo # <<>> /\ (Asks(p) \/ Finishes(p) \/ GivesUp(p) \/ Works(p))
    BY StoreCourse DEF Store
  <1>1. IsProc(p, q) /\ DOMAIN q = ProcFields /\ Goal(p) = Head(q.todo)
    BY <1>0, Running
  <1>2. Return(q).pc = "find" /\ Failed(q).pc = "find"
    <2>1. Return(q).pc = "find"
      BY <1>0, <1>1, ReturnIs DEF IsProc
    <2> QED  BY <1>0, <1>1, <2>1, FailedIs
  <1>3. Works(p)
    BY <1>0, <1>2 DEF Asks, Finishes, GivesUp, Writing
  <1>4. /\ x.todo = q.todo /\ x.was = q.was /\ docs' = docs
        /\ \/ x.ref = q.ref /\ x.write = q.write /\ q.pc \in Writing
           \/ x.ref \in Refs /\ x.write = Writes(Goal(p), docs[x.ref], q.was)
        /\ x.pc = "modify" => x.raw = docs[x.ref]
    BY <1>3 DEF Works
  <1>5. q.pc \in Writing => q.write = Writes(Head(q.todo), docs[q.ref], q.was)
    BY <1>0 DEF Fresh, FreshAt
  <1> QED  BY <1>1, <1>4, <1>5 DEF FreshAt

\* What is about to be written stays what would be found.
LEMMA NextFresh ==
    ASSUME "gap" \notin Faults, Shape, Calls, Fresh, [Next]_vars
    PROVE  Fresh'
  <1>1. ASSUME NEW p \in Runs,
               main(p) \/ Store(p) \/ Fault(p) \/ Firefly(p) \/ (p = "turn" /\ \E op \in Operations : Execute(op))
        PROVE  Fresh'
    <2>1. proc' = [proc EXCEPT ![p] = proc'[p]] /\ DOMAIN proc = Runs
      BY <1>1, ProgramMoves DEF Moves, Lands, Shape
    <2>2. docs' = docs \/ Insert(p) \/ Modify(p)
      <3>1. ASSUME NEW op \in Operations, Execute(op) PROVE docs' = docs
        BY <3>1, CallIs
      <3> QED  BY <1>1, <3>1, ProgramSays
    <2>3. ASSUME NEW q \in Runs, q # p, proc[q].todo # <<>> PROVE FreshAt(docs', proc[q])
      <3>1. FreshAt(docs, proc[q])
        BY <2>3 DEF Fresh
      <3>2. proc[q].pc \in Writing => docs'[proc[q].ref] = docs[proc[q].ref]
        BY <2>2, <2>3, OthersLeaveAlone
      <3> QED  BY <3>1, <3>2 DEF FreshAt, Writing
    <2>4. FreshAt(docs', proc'[p])
      <3>1. CASE proc'[p].pc \in Writing
        <4>1. Store(p)
          BY <1>1, <3>1, PlaceAfter
        <4> QED  BY <3>1, <4>1, StoreFresh
      <3>2. CASE proc'[p].pc \notin Writing
        BY <3>2 DEF FreshAt, Writing
      <3> QED  BY <3>1, <3>2
    <2>5. \A q \in Runs : q # p => proc'[q] = proc[q]
      BY <2>1
    <2> QED  BY <2>3, <2>4, <2>5 DEF Fresh
  <1>2. ASSUME NEW op \in Operations, Execute(op) PROVE Fresh'
    BY <1>1, <1>2, HouseholdAssumption
  <1>3. ASSUME UNCHANGED <<docs, proc>> PROVE Fresh'
    BY <1>3 DEF Fresh, FreshAt
  <1>4. ASSUME NEW op \in Operations, reconcileCall(op) PROVE Fresh'
    BY <1>3, <1>4, RecoverIs
  <1>5. ASSUME NEW r \in Refs,
               UserDecides(r) \/ UserTranscribes(r) \/ UserAddsRow(r) \/ \E to \in {"on", "off"} : setPaused(r, to)
        PROVE  Fresh'
    <2>1. /\ proc' = proc /\ \A s \in Refs : s # r => docs'[s] = docs[s]
          /\ \A q \in Runs : proc[q].ref # r
      BY <1>5, UserKeeps DEF AtRest
    <2>2. ASSUME NEW q \in Runs, proc[q].todo # <<>> PROVE FreshAt(docs', proc[q])
      <3>1. proc[q].pc \in Writing => proc[q].ref \in Refs
        BY <2>2, Running DEF Standing
      <3>2. proc[q].pc \in Writing => docs'[proc[q].ref] = docs[proc[q].ref]
        BY <2>1, <3>1
      <3>3. FreshAt(docs, proc[q])
        BY <2>2 DEF Fresh
      <3> QED  BY <3>2, <3>3 DEF FreshAt, Writing
    <2> QED  BY <2>1, <2>2 DEF Fresh
  <1>6. CASE (\E j \in firefly.journals : UserDeletesJournal(j)) \/ (\E key \in firefly.flight : landsLate(key)) \/ UNCHANGED vars
    BY <1>3, <1>6 DEF UserDeletesJournal, landsLate, vars
  <1> QED  BY <1>1, <1>2, <1>4, <1>5, <1>6 DEF Next, User

\* Nothing is about to be written.
LEMMA InitFresh == Init => Fresh
  BY EndedIs DEF Init, Fresh

\* What is written takes nothing of the User's, but by a reading that replaces the text.
LEMMA WritesKeepUser ==
    ASSUME NEW p \in Runs, NEW g \in GoalsOf[p], NEW d, IsDoc(d), d.there, d.key = g.key, Writer(g),
           NEW was \in {"none", "on", "off"}
    PROVE  LET w == Writes(g, d, was) IN
           /\ "human" \in DOMAIN w /\ d.human = "user" => w["human"] = "user" \/ (p = "turn" /\ Reads(g) /\ g.replace)
           /\ "rows" \in DOMAIN w => {row \in d.rows : row.by = "user"} \subseteq w["rows"]
  <1>0. d.key = state => d.human # "user"
    BY DEF IsDoc
  <1>1. CASE p = "bootstrap"
    <2>1. g.do = "seed" /\ g.model \in {"Operation", "Assistant", "RuntimeState"}
      BY <1>1, SeedFacts DEF GoalsOf
    <2>2. Writes(g, d, was) \in {NoWrite, [machine |-> "new"]}
      BY <2>1 DEF Writes, mirror, Reads
    <2>3. DOMAIN [machine |-> "new"] = {"machine"}
      OBVIOUS
    <2> QED  BY <2>2, <2>3, NoWriteIs
  <1>2. CASE p = "demo"
    <2>0. /\ g.do \in {"link", "watermark", "pause", "restore"}
          /\ g.do \in {"pause", "restore"} => g.key = state
      BY <1>2, DemoFacts DEF GoalsOf, Writer
    <2>1. CASE g.do = "pause"
      BY <1>0, <2>0, <2>1 DEF Writes, Reads
    <2>2. CASE g.do = "restore"
      BY <1>0, <2>0, <2>2 DEF Writes, Reads
    <2>3. CASE g.do \in {"link", "watermark"}
      <3>1. Writes(g, d, was) = [fromDocument(d) EXCEPT !.machine = "new"]
        BY <2>3 DEF Writes, Reads
      <3>2. \A f \in DOMAIN fromDocument(d) : fromDocument(d)[f] = d[f]
        BY MapIs DEF IsDoc
      <3> QED  BY <3>1, <3>2
    <2> QED  BY <2>0, <2>1, <2>2, <2>3
  <1>3. CASE p = "turn"
    <2>0. PICK op \in Operations, n \in Nat : TurnGoal(op, n, g)
      BY <1>3, TurnGoalFacts DEF GoalsOf
    <2>1. g.do \in {"merge", "extract", "scan"}
      BY <2>0 DEF TurnGoal, Writer
    <2>2. CASE g.do = "merge"
      <3>1. Writes(g, d, was) = [rows |-> mergeRows(d.rows, g.new.rows)]
        BY <2>2 DEF Writes, Reads
      <3>2. g.new.rows = {[seq |-> 2, by |-> "assistant"]} /\ \A row \in d.rows : row.by = "user" => row.seq = 1
        BY <2>0, <2>2 DEF TurnGoal, IsDoc, RowsOK
      <3>3. {row \in d.rows : row.by = "user"} \subseteq mergeRows(d.rows, g.new.rows)
        BY <3>2 DEF mergeRows
      <3> QED  BY <3>1, <3>3
    <2>3. CASE Reads(g)
      <3>1. Writes(g, d, was) = IF documentToRead(d, g) /\ d.file THEN [human |-> "read"] ELSE NoWrite
        BY <2>3 DEF Writes, Reads
      <3>2. CASE documentToRead(d, g) /\ d.file
        BY <1>3, <2>3, <3>1, <3>2 DEF documentToRead
      <3>3. CASE ~(documentToRead(d, g) /\ d.file)
        BY <3>1, <3>3, NoWriteIs
      <3> QED  BY <3>2, <3>3
    <2> QED  BY <2>1, <2>2, <2>3 DEF Reads
  <1> QED  BY <1>1, <1>2, <1>3, HouseholdAssumption

\* What a write makes of the Thing, if nobody has changed it since.
LEMMA ModifyIs ==
    ASSUME Shape, Fresh, NEW p \in Runs, Modify(p)
    PROVE  LET q == proc[p]
               r == q.ref
               w == Writes(Goal(p), docs[r], q.was)
           IN  /\ q.todo # <<>> /\ q.pc = "modify" /\ r \in Refs /\ docs[r].there /\ docs[r].key = Goal(p).key
               /\ Writer(Goal(p)) /\ Goal(p) \in GoalsOf[p]
               /\ \A s \in Refs : s # r => docs'[s] = docs[s]
               /\ docs'[r].model = docs[r].model /\ docs'[r].file = docs[r].file
               /\ docs'[r].human = IF "human" \in DOMAIN w THEN w["human"] ELSE docs[r].human
               /\ docs'[r].rows = IF "rows" \in DOMAIN w THEN w["rows"] ELSE docs[r].rows
  <1> DEFINE q == proc[p]
             r == q.ref
             w == Writes(Goal(p), docs[r], q.was)
  <1>1. docs' = [docs EXCEPT ![r] = toDocument(q.raw, q.write)] /\ q.todo # <<>> /\ q.pc = "modify"
    BY DEF Modify, At
  <1>2. /\ r \in Refs /\ docs[r].there /\ docs[r].key = Goal(p).key /\ Writer(Goal(p)) /\ Goal(p) \in GoalsOf[p]
        /\ WriteOK(Goal(p), q.write) /\ IsDoc(docs[r]) /\ DOMAIN docs = Refs
    BY <1>1, Running DEF Standing, Placed, Writing
  <1>3. q.raw = docs[r] /\ q.write = w
    BY <1>1 DEF Fresh, FreshAt, Writing, Goal
  <1> HIDE DEF w
  <1>4. LET d == toDocument(docs[r], w) IN
        /\ d.model = docs[r].model /\ d.file = docs[r].file
        /\ d.human = IF "human" \in DOMAIN w THEN w["human"] ELSE docs[r].human
        /\ d.rows = IF "rows" \in DOMAIN w THEN w["rows"] ELSE docs[r].rows
    BY <1>2, <1>3, DocumentIs
  <1>5. docs'[r] = toDocument(docs[r], w)
    BY <1>1, <1>2, <1>3
  <1> QED  BY <1>1, <1>2, <1>4, <1>5 DEF w

\* What the User has decided, typed or added in Thing r stays.
KeptAt(r) ==
    docs[r].there =>
        /\ docs[r].human = "user" => docs'[r].human = "user" \/ Replacing
        /\ {row \in docs[r].rows : row.by = "user"} \subseteq docs'[r].rows
        /\ docs[r].file => docs'[r].file

\* No step takes the User's work away.
LEMMA WorkKept ==
    ASSUME "gap" \notin Faults, Shape, Calls, Fresh, [Next]_vars, NEW r \in Refs
    PROVE  KeptAt(r)
  <1>0. DOMAIN docs = Refs /\ IsDoc(docs[r])
    BY DEF Shape
  <1>1. docs'[r] = docs[r] => KeptAt(r)
    BY DEF KeptAt
  <1>2. ASSUME NEW p \in Runs, Modify(p) PROVE KeptAt(r)
    <2> DEFINE q == proc[p]
               w == Writes(Goal(p), docs[q.ref], q.was)
    <2>1. CASE r # q.ref
      BY <1>1, <1>2, <2>1, ModifyIs
    <2>2. CASE r = q.ref
      <3>1. /\ q.todo # <<>> /\ docs[r].there /\ docs[r].key = Goal(p).key /\ Writer(Goal(p)) /\ Goal(p) \in GoalsOf[p]
            /\ docs'[r].file = docs[r].file
            /\ docs'[r].human = IF "human" \in DOMAIN w THEN w["human"] ELSE docs[r].human
            /\ docs'[r].rows = IF "rows" \in DOMAIN w THEN w["rows"] ELSE docs[r].rows
        BY <1>2, <2>2, ModifyIs
      <3>2. q.was \in {"none", "on", "off"}
        BY DEF Shape, IsProc
      <3>3. /\ "human" \in DOMAIN w /\ docs[r].human = "user"
                => w["human"] = "user" \/ (p = "turn" /\ Reads(Goal(p)) /\ Goal(p).replace)
            /\ "rows" \in DOMAIN w => {row \in docs[r].rows : row.by = "user"} \subseteq w["rows"]
        BY <1>0, <2>2, <3>1, <3>2, WritesKeepUser
      <3> HIDE DEF w
      <3>4. p = "turn" /\ Reads(Goal(p)) /\ Goal(p).replace => Replacing
        <4> SUFFICES ASSUME p = "turn", Reads(Goal(p)), Goal(p).replace PROVE Replacing
          OBVIOUS
        <4>1. PICK op \in Operations : said[op].at = "running" /\ TurnIs(op, said[op], proc["turn"].todo)
          BY <3>1 DEF Calls
        <4>2. said[op].n \in Nat
          BY DEF Calls, IsCall
        <4>3. TurnGoal(op, said[op].n, proc["turn"].todo[1])
          BY <4>1, <4>2, TurnFacts DEF TurnIs
        <4>4. Goal(p) = proc["turn"].todo[1]
          <5>1. proc["turn"].todo \in Seq(GoalsOf["turn"])
            BY DEF Shape, IsProc
          <5> QED  BY <3>1, <5>1, NotDone DEF Goal
        <4>5. "replace" \in DOMAIN Goal(p)
          BY <4>3, <4>4 DEF TurnGoal
        <4>6. said[op].replace
          BY <4>1, <4>4, <4>5 DEF TurnIs
        <4> QED  BY <4>1, <4>6 DEF Replacing
      <3> QED  BY <3>1, <3>3, <3>4 DEF KeptAt
    <2> QED  BY <2>1, <2>2
  <1>3. ASSUME NEW p \in Runs, Insert(p) PROVE KeptAt(r)
    <2>1. PICK s \in Refs : ~docs[s].there /\ docs' = [docs EXCEPT ![s] = Goal(p).new]
      BY <1>3 DEF Insert
    <2>2. CASE r = s
      BY <2>1, <2>2 DEF KeptAt
    <2>3. CASE r # s
      BY <1>0, <1>1, <2>1, <2>3
    <2> QED  BY <2>2, <2>3
  <1>4. ASSUME NEW p \in Runs, main(p) \/ Store(p) \/ Fault(p) \/ Firefly(p) PROVE KeptAt(r)
    BY <1>1, <1>2, <1>3, <1>4, ProgramSays
  <1>5. ASSUME NEW op \in Operations, Execute(op) \/ reconcileCall(op) PROVE KeptAt(r)
    BY <1>1, <1>5, CallIs, RecoverIs
  <1>6. ASSUME NEW s \in Refs,
               UserDecides(s) \/ UserTranscribes(s) \/ UserAddsRow(s) \/ \E to \in {"on", "off"} : setPaused(s, to)
        PROVE  KeptAt(r)
    <2>1. CASE s # r
      <3>1. docs'[r] = docs[r]
        BY <1>6, <2>1, UserKeeps
      <3> QED  BY <1>1, <3>1
    <2>2. CASE s = r
      <3>0. DOMAIN docs[r] = DocFields
        BY <1>0 DEF IsDoc
      <3>1. CASE UserDecides(s) \/ UserTranscribes(s)
        BY <1>0, <2>2, <3>0, <3>1 DEF UserDecides, UserTranscribes, Edit, KeptAt, DocFields
      <3>2. CASE UserAddsRow(s)
        BY <1>0, <2>2, <3>0, <3>2 DEF UserAddsRow, Edit, KeptAt, DocFields
      <3>3. CASE \E to \in {"on", "off"} : setPaused(s, to)
        <4>1. docs[r].human # "user"
          BY <1>0, <2>2, <3>3 DEF setPaused, IsDoc
        <4> QED  BY <1>0, <2>2, <3>0, <3>3, <4>1 DEF setPaused, Edit, KeptAt, DocFields
      <3> QED  BY <1>6, <3>1, <3>2, <3>3
    <2> QED  BY <2>1, <2>2
  <1>7. CASE (\E j \in firefly.journals : UserDeletesJournal(j)) \/ (\E key \in firefly.flight : landsLate(key)) \/ UNCHANGED vars
    BY <1>1, <1>7 DEF UserDeletesJournal, landsLate, vars
  <1> QED  BY <1>4, <1>5, <1>6, <1>7 DEF Next, User

(***************************************************************************)
(* What the User decides, types or adds, and a file the map of fields does *)
(* not know, outlive every write (update, mergeRows, ensureThings,         *)
(* documentToRead), unless somebody edits a Thing between the two requests *)
(* of an update: the store has no compare-and-swap.                        *)
(***************************************************************************)
THEOREM UsersWorkStays ==
    ASSUME "gap" \notin Faults
    PROVE  Spec => UsersWorkIsKept
  <1>1. Init => Inv /\ Fresh
    BY InitShape, InitCalls, InitThings, InitJournals, InitFresh DEF Inv
  <1>2. Inv /\ Fresh /\ [Next]_vars => (Inv /\ Fresh)'
    BY NextShape, NextCalls, NextThings, NextJournals, NextFresh DEF Inv
  <1>3. Inv /\ Fresh /\ [Next]_vars =>
          [\A r \in Refs : docs[r].there =>
              /\ docs[r].human = "user" => docs'[r].human = "user" \/ Replacing
              /\ {row \in docs[r].rows : row.by = "user"} \subseteq docs'[r].rows
              /\ docs[r].file => docs'[r].file]_docs
    BY WorkKept DEF Inv, KeptAt
  <1> QED  BY <1>1, <1>2, <1>3, PTL DEF Spec, UsersWorkIsKept

-----------------------------------------------------------------------------
(* The kill switch.                                                          *)

\* A load that fails at its work goes to give the kill switch back.
LEMMA FailsOn ==
    ASSUME NEW q, "demo" \in Runs, IsProc("demo", q), q.todo # <<>>, Head(q.todo) \notin {IsPaused, Pause, Restore}
    PROVE  Failed(q).todo = <<Restore>> /\ Failed(q).was = q.was /\ q.was # "none"
  <1>1. /\ q.was # "none" /\ Len(q.todo) # 1 /\ Head(q.todo) = q.todo[1] /\ Len(q.todo) \in Nat /\ Len(q.todo) >= 1
        /\ Loading(q.todo, q.was) /\ q.todo \in Seq(DemoGoals)
    <2>1. q.todo \in Seq(DemoGoals) /\ Loading(q.todo, q.was)
      BY DEF IsProc, GoalsOf
    <2>2. Head(q.todo) = q.todo[1] /\ Len(q.todo) \in Nat /\ Len(q.todo) >= 1
      BY <2>1, NotDone
    <2> QED  BY <2>1, <2>2, HeadIs
  <1>2. ASSUME NEW i \in DOMAIN q.todo, q.todo[i].do = "pause" PROVE FALSE
    <2>1. i \in 1..Len(q.todo) /\ q.todo[i] \in DemoGoals
      BY <1>1
    <2>2. q.todo[i] = Pause
      BY <1>2, <2>1, DemoFacts
    <2>3. q.todo[Len(q.todo)] = Restore /\ Pause # Restore
      BY <1>1 DEF Loading, Pause, Restore, Find
    <2>4. i \in 1..(Len(q.todo) - 1)
      BY <1>1, <2>1, <2>2, <2>3
    <2>5. i = 1 \/ q.todo[1] = IsPaused
      BY <1>1, <2>2, <2>4 DEF Loading
    <2> QED  BY <1>1, <2>2, <2>5
  <1> QED  BY <1>1, <1>2, FailedIs

\* What a program remembers of the kill switch after a step, if it does not end with it.
LEMMA WasAfter ==
    ASSUME Shape, Calls, NEW p \in Runs, main(p) \/ Store(p) \/ Fault(p) \/ Firefly(p)
    PROVE  \/ proc'[p].was = proc[p].was
           \/ /\ proc[p].was = "none" /\ docs' = docs
              /\ \/ \E r \in Refs : docs[r].model = "RuntimeState" /\ proc'[p].was = docs[r].human
                 \/ (\A r \in Refs : docs[r].model # "RuntimeState") /\ proc'[p].was = "off"
           \/ /\ proc'[p].was = "none" /\ p = "demo" /\ proc[p].was # "none"
              /\ \/ \A r \in Refs : docs[r].model # "RuntimeState" /\ docs'[r].model # "RuntimeState"
                 \/ Modify(p) /\ Goal(p) = Restore
                 \/ stray'
  <1> DEFINE q == proc[p]
             x == proc'[p]
             Lost == x.was = "none" /\ p = "demo" /\ q.was # "none"
  <1>0. DOMAIN proc = Runs /\ IsProc(p, q) /\ DOMAIN q = ProcFields
    BY DEF Shape, IsProc
  <1>1. CASE main(p)
    <2>1. PICK todo : Begin(p, todo)
      BY <1>1 DEF main
    <2>2. proc'[p].was = q.was
      BY <1>0, <2>1 DEF Begin, ProcFields
    <2> QED  BY <2>2
  <1> SUFFICES ASSUME q.todo # <<>>, Store(p) \/ Fault(p) \/ Firefly(p)
               PROVE  \/ x.was = q.was
                      \/ /\ q.was = "none" /\ docs' = docs
                         /\ \/ \E r \in Refs : docs[r].model = "RuntimeState" /\ x.was = docs[r].human
                            \/ (\A r \in Refs : docs[r].model # "RuntimeState") /\ x.was = "off"
                      \/ /\ Lost
                         /\ \/ \A r \in Refs : docs[r].model # "RuntimeState" /\ docs'[r].model # "RuntimeState"
                            \/ Modify(p) /\ Goal(p) = Restore
                            \/ stray'
    <2>1. Store(p) \/ Fault(p) \/ Firefly(p) => q.todo # <<>>
      <3>1. Fault(p) => q.todo # <<>>
        BY DEF Fault, requestFails, answerIsLost, Crash, Insert, Modify, At
      <3>2. Firefly(p) => q.todo # <<>>
        BY FireflySteps DEF FireflyStep
      <3>3. Store(p) => q.todo # <<>>
        BY StoreCourse DEF Store
      <3> QED  BY <3>1, <3>2, <3>3
    <2> QED  BY <1>1, <2>1
  <1>2. /\ Return(q).was = IF Len(q.todo) = 1 THEN "none" ELSE q.was
        /\ Goal(p) = Head(q.todo) /\ Goal(p) \in GoalsOf[p]
        /\ p = "demo" => (q.was = "none" <=> Goal(p) = IsPaused) /\ (Len(q.todo) = 1 <=> Goal(p) = Restore)
        /\ p # "demo" => q.was = "none"
        /\ Return(q).todo = Tail(q.todo)
    BY <1>0, ReturnIs, HeadIs DEF IsProc, Goal
  <1>3. x = Return(q) /\ Goal(p) # Restore => x.was = q.was
    BY <1>2
  <1>4. CASE p # "demo"
    <2>1. IsProc(p, x)
      BY <1>0, ProgramMoves DEF Moves, Lands
    <2>2. x.was = "none" /\ q.was = "none"
      BY <1>0, <1>4, <2>1 DEF IsProc
    <2> QED  BY <2>2
  <1>5. x = Failed(q) /\ Goal(p) \notin {IsPaused, Pause, Restore} /\ p = "demo" => x.was = q.was
    BY <1>0, <1>2, FailsOn
  <1>6. x.todo = <<>> /\ p = "demo" /\ x.was # "none" => FALSE
    <2>1. IsProc(p, x)
      BY <1>0, ProgramMoves DEF Moves, Lands
    <2> QED  BY <2>1 DEF IsProc, Loading
  <1>7. x = Failed(q) \/ x = Ended => x.was \in {"none", q.was}
    <2>1. Failed(q).was \in {"none", q.was} /\ Ended.was = "none"
      BY <1>0, FailedIs, EndedIs
    <2> QED  BY <2>1
  <1>8. CASE p = "demo" /\ Store(p)
    <2>1. Asks(p) \/ Finishes(p) \/ GivesUp(p) \/ Works(p)
      BY <1>8, StoreCourse DEF Store
    <2>2. CASE Asks(p)
      BY <1>2, <1>8, <2>2 DEF Asks
    <2>3. CASE Finishes(p)
      <3>1. CASE Goal(p) # Restore
        BY <1>3, <2>3, <3>1 DEF Finishes
      <3>2. CASE Goal(p) = Restore
        BY <1>2, <1>8, <2>3, <3>2 DEF Finishes
      <3> QED  BY <3>1, <3>2
    <2>4. CASE GivesUp(p)
      <3>1. CASE Goal(p) \in {Pause, Restore}
        BY <1>2, <1>7, <1>8, <2>4, <3>1 DEF GivesUp
      <3>2. CASE Goal(p) \notin {Pause, Restore}
        BY <1>5, <1>8, <2>4, <3>2 DEF GivesUp
      <3> QED  BY <3>1, <3>2
    <2>5. CASE Works(p)
      BY <2>5 DEF Works
    <2> QED  BY <2>1, <2>2, <2>3, <2>4, <2>5
  <1>9. CASE p = "demo" /\ Fault(p)
    <2>1. requestFails(p) \/ answerIsLost(p) \/ Crash(p)
      BY <1>9 DEF Fault
    <2>2. x \in {Failed(q), Ended} \/ (x = Return(q) /\ q.pc = "check")
      BY <1>0, <2>1 DEF requestFails, answerIsLost, Crash
    <2>3. CASE x.todo = <<>>
      <3>1. q.was # "none" => stray'
        BY <1>9, <2>3 DEF Fault, Stray
      <3> QED  BY <1>6, <1>9, <2>3, <3>1
    <2>4. CASE x.todo # <<>>
      <3>1. x # Ended
        BY <2>4 DEF Ended
      <3>2. CASE x = Failed(q)
        <4>1. Failed(q).todo = <<>> \/ Failed(q).was = q.was
          BY <1>0, FailedIs
        <4> QED  BY <2>4, <3>2, <4>1
      <3>3. CASE x = Return(q) /\ q.pc = "check"
        <4>1. Creates(Goal(p)) /\ Restore.do = "restore"
          BY <3>3, Running DEF Placed, Restore, Find
        <4>2. Goal(p) # Restore
          BY <4>1 DEF Creates
        <4> QED  BY <1>3, <3>3, <4>2
      <3> QED  BY <2>2, <3>1, <3>2, <3>3
    <2> QED  BY <2>3, <2>4
  <1>10. CASE p = "demo" /\ Firefly(p)
    <2>1. FireflyStep(p)
      BY <1>10, FireflySteps
    <2>2. Goal(p) \notin {IsPaused, Pause, Restore}
      <3>1. IsPaused.do = "isPaused" /\ Pause.do = "pause" /\ Restore.do = "restore"
        BY DEF IsPaused, Pause, Restore, Find
      <3> QED  BY <2>1, <3>1 DEF FireflyStep
    <2>3. x \in {Return(q), Failed(q)} \/ x.was = q.was
      BY <1>0, <2>1 DEF FireflyStep, ProcFields
    <2> QED  BY <1>3, <1>5, <1>10, <2>2, <2>3
  <1> QED  BY <1>4, <1>8, <1>9, <1>10

\* The one kill switch.
LEMMA OneSwitch ==
    ASSUME Shape, Things, NEW r \in Refs, NEW s \in Refs, docs[r].model = "RuntimeState",
           docs[s].model = "RuntimeState" \/ (docs[s].there /\ docs[s].key = state)
    PROVE  r = s
  <1>1. IsDoc(docs[r]) /\ IsDoc(docs[s])
    BY DEF Shape
  <1>2. docs[r].there /\ docs[s].there /\ docs[r].key[1] = docs[s].key[1]
    BY <1>1 DEF IsDoc
  <1> QED  BY <1>2 DEF Things, OneThing

\* What a program does to the kill switch.
LEMMA SwitchAfter ==
    ASSUME Shape, Calls, Things, Fresh, NEW p \in Runs, docs' = docs \/ Insert(p) \/ Modify(p),
           NEW r \in Refs, docs'[r].model = "RuntimeState"
    PROVE  \/ /\ docs[r].model = "RuntimeState" /\ docs'[r].human = docs[r].human
              /\ ~(Modify(p) /\ Goal(p) = Restore)
           \/ (\A s \in Refs : docs[s].model # "RuntimeState") /\ docs'[r].human = "off"
           \/ /\ docs[r].model = "RuntimeState" /\ proc[p].was # "none"
              /\ Modify(p) /\ Goal(p) = Restore => docs'[r].human = proc[p].was
  <1> DEFINE q == proc[p]
  <1>0. DOMAIN docs = Refs /\ \A s \in Refs : IsDoc(docs[s])
    BY DEF Shape
  <1>1. CASE Modify(p)
    <2> DEFINE w == Writes(Goal(p), docs[q.ref], q.was)
    <2>1. /\ q.todo # <<>> /\ q.ref \in Refs /\ docs[q.ref].there /\ docs[q.ref].key = Goal(p).key
          /\ Writer(Goal(p)) /\ Goal(p) \in GoalsOf[p]
          /\ \A s \in Refs : s # q.ref => docs'[s] = docs[s]
          /\ docs'[q.ref].model = docs[q.ref].model
          /\ docs'[q.ref].human = IF "human" \in DOMAIN w THEN w["human"] ELSE docs[q.ref].human
      BY <1>1, ModifyIs
    <2>2. docs[r].model = "RuntimeState"
      BY <2>1
    <2>3. CASE Goal(p) = Restore
      <3>1. Restore.key = state /\ Restore.do = "restore"
        BY DEF Restore, Find
      <3>2. r = q.ref
        BY <2>1, <2>2, <2>3, <3>1, OneSwitch
      <3>3. w = [human |-> q.was]
        BY <2>3, <3>1 DEF Writes, Reads
      <3>4. q.was # "none"
        <4>1. IsProc(p, q) /\ Goal(p) = Head(q.todo)
          BY <2>1, Running
        <4> QED  BY <2>1, <2>3, <4>1, HeadIs
      <3> HIDE DEF w
      <3> QED  BY <2>1, <2>2, <3>2, <3>3, <3>4
    <2>4. CASE Goal(p) # Restore /\ r = q.ref
      <3>1. Goal(p).key = state
        BY <1>0, <2>1, <2>2, <2>4 DEF IsDoc
      <3>2. p = "demo"
        <4>1. Goal(p).key[1] \in WrittenBy[p]
          BY <2>1, GoalFacts DEF WritesOK
        <4> QED  BY <3>1, <4>1, HouseholdAssumption DEF WrittenBy, state
      <3>3. q.was # "none"
        <4>1. IsProc(p, q) /\ Goal(p) = Head(q.todo)
          BY <2>1, Running
        <4>2. IsPaused.do = "isPaused"
          BY DEF IsPaused, Find
        <4>3. Goal(p) # IsPaused
          BY <2>1, <4>2 DEF Writer
        <4> QED  BY <2>1, <3>2, <4>1, <4>3, HeadIs
      <3> QED  BY <2>2, <2>4, <3>3
    <2>5. CASE Goal(p) # Restore /\ r # q.ref
      BY <2>1, <2>2, <2>5
    <2> QED  BY <2>3, <2>4, <2>5
  <1>2. CASE Insert(p)
    <2>1. PICK s \in Refs : ~docs[s].there /\ docs' = [docs EXCEPT ![s] = Goal(p).new]
      BY <1>2 DEF Insert
    <2>2. CASE r # s
      <3>1. docs'[r] = docs[r]
        BY <1>0, <2>1, <2>2
      <3>2. ~Modify(p)
        BY <1>2 DEF Insert, Modify, At
      <3> QED  BY <3>1, <3>2
    <2>3. CASE r = s
      <3>1. docs'[r] = Goal(p).new /\ IsDoc(Goal(p).new) /\ Goal(p).new.key = Goal(p).key
            /\ \A t \in Refs : docs[t].there => docs[t].key # Goal(p).key
        BY <1>0, <1>2, <2>1, <2>3, InsertIs
      <3>2. Goal(p).key = state
        BY <3>1 DEF IsDoc
      <3>3. \A t \in Refs : docs[t].model # "RuntimeState"
        BY <1>0, <3>1, <3>2 DEF IsDoc
      <3>4. Goal(p).new.human = "off"
        <4>1. proc[p].todo # <<>> /\ proc[p].pc = "insert"
          BY <1>2 DEF Insert, At
        <4>2. Creates(Goal(p)) /\ Goal(p) \in GoalsOf[p]
          BY <4>1, Running DEF Placed
        <4> QED  BY <3>2, <4>2, GoalFacts DEF MakesOK
      <3> QED  BY <3>1, <3>3, <3>4
    <2> QED  BY <2>2, <2>3
  <1>3. CASE docs' = docs /\ ~Modify(p)
    BY <1>3
  <1> QED  BY <1>1, <1>2, <1>3

\* A load leaves the kill switch as it was wanted.
LEMMA ProgramWished ==
    ASSUME "gap" \notin Faults, Inv, Fresh, Wished, NEW p \in Runs, main(p) \/ Store(p) \/ Fault(p) \/ Firefly(p)
    PROVE  Wished'
  <1> DEFINE q == proc[p]
             x == proc'[p]
  <1>0. /\ Shape /\ Calls /\ Things
        /\ proc' = [proc EXCEPT ![p] = x] /\ DOMAIN proc = Runs
        /\ \A r \in Refs : IsDoc(docs[r])
        /\ docs' = docs \/ Insert(p) \/ Modify(p)
    BY ProgramMoves, ProgramSays DEF Inv, Moves, Lands, Shape
  <1>1. wish' = wish /\ (stray => stray')
    <2>1. CASE main(p)
      BY <2>1 DEF main, Begin
    <2>2. CASE Store(p)
      BY <2>2 DEF Store
    <2>3. CASE Fault(p)
      BY <2>3 DEF Fault, Stray
    <2>4. CASE Firefly(p)
      BY <2>4 DEF Firefly, listAccounts, listBudgets, createAccount, createBudget, setBudgetLimit, findByExternalId,
                  findSamePostingForThing, postOnce, postIsLost, Seek, Step
    <2> QED  BY <2>1, <2>2, <2>3, <2>4
  <1>2. \A s \in Runs : s # p => proc'[s] = proc[s]
    BY <1>0
  <1>3. \A s \in Runs : s # "demo" => proc[s].was = "none" /\ proc'[s].was = "none"
    <2>1. IsProc(p, x)
      BY <1>0, ProgramMoves DEF Moves, Lands
    <2> QED  BY <1>0, <1>2, <2>1 DEF Shape, IsProc
  <1>4. \/ x.was = q.was
        \/ /\ q.was = "none" /\ docs' = docs
           /\ \/ \E r \in Refs : docs[r].model = "RuntimeState" /\ x.was = docs[r].human
              \/ (\A r \in Refs : docs[r].model # "RuntimeState") /\ x.was = "off"
        \/ /\ x.was = "none" /\ p = "demo" /\ q.was # "none"
           /\ \/ \A r \in Refs : docs[r].model # "RuntimeState" /\ docs'[r].model # "RuntimeState"
              \/ Modify(p) /\ Goal(p) = Restore
              \/ stray'
    BY <1>0, WasAfter
  <1>5. \A r \in Refs : docs[r].model = "RuntimeState" => docs'[r].model = "RuntimeState"
    <2>1. Keeps(p, docs, docs')
      BY <1>0, ProgramMoves DEF Moves
    <2> QED  BY <1>0, <2>1 DEF Keeps, IsDoc
  <1>6. (\A r \in Refs : docs'[r].model # "RuntimeState") => wish' = "off"
    BY <1>1, <1>5 DEF Wished
  <1>7. ASSUME ~stray', NEW s \in Runs, proc'[s].was # "none" PROVE proc'[s].was = wish'
    <2>1. ~stray
      BY <1>1, <1>7
    <2>2. CASE proc'[s].was = proc[s].was
      BY <1>1, <1>7, <2>1, <2>2 DEF Wished
    <2>3. CASE proc'[s].was # proc[s].was
      <3>1. s = p /\ s = "demo"
        BY <1>2, <1>3, <2>3
      <3>2. /\ q.was = "none"
            /\ \/ \E r \in Refs : docs[r].model = "RuntimeState" /\ x.was = docs[r].human
               \/ (\A r \in Refs : docs[r].model # "RuntimeState") /\ x.was = "off"
        BY <1>4, <1>7, <2>3, <3>1
      <3>3. NoLoad
        BY <1>3, <3>1, <3>2 DEF NoLoad
      <3>4. \A r \in Refs : docs[r].model = "RuntimeState" => docs[r].human = wish
        BY <2>1, <3>3 DEF Wished, PausedAsWished
      <3> QED  BY <1>1, <3>1, <3>2, <3>4 DEF Wished
    <2> QED  BY <2>2, <2>3
  <1>8. ASSUME NoLoad', ~stray', NEW r \in Refs, docs'[r].model = "RuntimeState" PROVE docs'[r].human = wish'
    <2>1. ~stray /\ x.was = "none"
      BY <1>1, <1>8 DEF NoLoad
    <2>2. CASE \A s \in Refs : docs[s].model # "RuntimeState"
      <3>1. docs'[r].human = "off"
        BY <1>0, <1>8, <2>2, SwitchAfter DEF Inv
      <3> QED  BY <1>1, <2>2, <3>1 DEF Wished
    <2>3. CASE docs[r].model = "RuntimeState" /\ q.was = "none"
      <3>1. docs'[r].human = docs[r].human
        BY <1>0, <1>8, <2>3, SwitchAfter
      <3>2. NoLoad
        <4> SUFFICES ASSUME NEW s \in Runs PROVE proc[s].was = "none"
          BY DEF NoLoad
        <4>1. CASE s = p
          BY <2>3, <4>1
        <4>2. CASE s # p
          BY <1>2, <1>8, <4>2 DEF NoLoad
        <4> QED  BY <4>1, <4>2
      <3>3. docs[r].human = wish
        BY <2>1, <2>3, <3>2 DEF Wished, PausedAsWished
      <3> QED  BY <1>1, <3>1, <3>3
    <2>4. CASE docs[r].model = "RuntimeState" /\ q.was # "none"
      <3>1. Modify(p) /\ Goal(p) = Restore
        BY <1>4, <1>8, <2>1, <2>4
      <3>2. docs'[r].human = q.was
        BY <1>0, <1>8, <2>4, <3>1, SwitchAfter
      <3>3. q.was = wish
        BY <2>1, <2>4 DEF Wished
      <3> QED  BY <1>1, <3>2, <3>3
    <2>5. CASE docs[r].model # "RuntimeState"
      BY <1>0, <1>8, <2>2, <2>5, SwitchAfter
    <2> QED  BY <2>3, <2>4, <2>5
  <1> QED  BY <1>6, <1>7, <1>8 DEF Wished, PausedAsWished

\* So does every other step.
LEMMA NextWished ==
    ASSUME "gap" \notin Faults, Inv, Fresh, Wished, [Next]_vars
    PROVE  Wished'
  <1>0. Shape /\ Calls /\ Things /\ DOMAIN docs = Refs /\ \A r \in Refs : IsDoc(docs[r])
    BY DEF Inv, Shape
  <1>1. ASSUME NEW p \in Runs, main(p) \/ Store(p) \/ Fault(p) \/ Firefly(p) PROVE Wished'
    BY <1>1, ProgramWished
  <1>2. ASSUME wish' = wish, stray' = stray, \A p \in Runs : proc'[p].was = proc[p].was,
               \A r \in Refs : /\ docs'[r].model = docs[r].model
                               /\ docs[r].model = "RuntimeState" => docs'[r].human = docs[r].human
        PROVE  Wished'
    <2>1. NoLoad' <=> NoLoad
      BY <1>2 DEF NoLoad
    <2> QED  BY <1>2, <2>1 DEF Wished, PausedAsWished
  <1>3. ASSUME NEW op \in Operations, Execute(op) PROVE Wished'
    <2>1. docs' = docs /\ UNCHANGED <<wish, stray>> /\ "turn" \in Runs
      BY <1>0, <1>3, CallIs
    <2>2. PICK todo : Begin("turn", todo)
      BY <1>3 DEF Execute
    <2>3. DOMAIN proc = Runs /\ \A p \in Runs : DOMAIN proc[p] = ProcFields
      BY <1>0 DEF Shape, IsProc
    <2>4. \A p \in Runs : proc'[p].was = proc[p].was
      BY <2>1, <2>2, <2>3 DEF Begin, ProcFields
    <2> QED  BY <1>2, <2>1, <2>4
  <1>4. ASSUME NEW op \in Operations, reconcileCall(op) PROVE Wished'
    BY <1>0, <1>2, <1>4, RecoverIs
  <1>5. ASSUME NEW r \in Refs, UserDecides(r) \/ UserTranscribes(r) \/ UserAddsRow(r) PROVE Wished'
    <2>1. /\ proc' = proc /\ \A s \in Refs : s # r => docs'[s] = docs[s]
          /\ \A s \in Refs : docs'[s].model = docs[s].model
      BY <1>0, <1>5, UserKeeps
    <2>2. docs[r].model # "RuntimeState" /\ wish' = wish /\ stray' = stray
      BY <1>5 DEF UserDecides, UserTranscribes, UserAddsRow
    <2>3. \A s \in Refs : docs[s].model = "RuntimeState" => docs'[s] = docs[s]
      BY <2>1, <2>2
    <2> QED  BY <1>2, <2>1, <2>2, <2>3
  <1>6. ASSUME NEW r \in Refs, NEW to \in {"on", "off"}, setPaused(r, to) PROVE Wished'
    <2>1. docs[r].model = "RuntimeState" /\ wish' = to /\ stray' = FALSE /\ proc' = proc
          /\ docs' = [docs EXCEPT ![r] = [@ EXCEPT !["human"] = to]] /\ NoLoad
      BY <1>6 DEF setPaused, Edit
    <2>2. docs'[r].model = "RuntimeState" /\ docs'[r].human = to /\ \A s \in Refs : s # r => docs'[s] = docs[s]
      BY <1>0, <2>1 DEF IsDoc, DocFields
    <2>3. \A s \in Refs : docs'[s].model = "RuntimeState" => s = r
      BY <1>0, <2>1, <2>2, OneSwitch
    <2>4. \A p \in Runs : proc'[p].was = "none"
      BY <2>1 DEF NoLoad
    <2> QED  BY <2>1, <2>2, <2>3, <2>4 DEF Wished, PausedAsWished
  <1>7. CASE (\E j \in firefly.journals : UserDeletesJournal(j)) \/ (\E key \in firefly.flight : landsLate(key)) \/ UNCHANGED vars
    <2>1. docs' = docs /\ proc' = proc /\ wish' = wish /\ stray' = stray
      BY <1>7 DEF UserDeletesJournal, landsLate, vars
    <2> QED  BY <1>2, <2>1
  <1> QED  BY <1>1, <1>3, <1>4, <1>5, <1>6, <1>7 DEF Next, User

\* Nothing is paused, and nobody wants it to be.
LEMMA InitWished == Init => Wished
  <1> SUFFICES ASSUME Init PROVE Wished
    OBVIOUS
  <1>1. \A r \in Refs : docs[r].model # "RuntimeState"
    BY DEF Init, Nobody, Thing
  <1>2. \A p \in Runs : proc[p].was = "none"
    BY EndedIs DEF Init
  <1> QED  BY <1>1, <1>2 DEF Init, Wished, PausedAsWished

(***************************************************************************)
(* When no load is under way the kill switch is as the User wants it,      *)
(* however many loads have failed, died or lost an answer before, but for  *)
(* one that ended without giving it back (loadDemo's finally), and unless  *)
(* the User switches it in the middle of a load.                           *)
(***************************************************************************)
THEOREM SwitchIsGivenBack ==
    ASSUME "gap" \notin Faults
    PROVE  Spec => []PausedAsWished
  <1>1. Init => Inv /\ Fresh /\ Wished
    BY InitShape, InitCalls, InitThings, InitJournals, InitFresh, InitWished DEF Inv
  <1>2. Inv /\ Fresh /\ Wished /\ [Next]_vars => (Inv /\ Fresh /\ Wished)'
    <2>1. Inv /\ [Next]_vars => Inv'
      BY NextShape, NextCalls, NextThings, NextJournals DEF Inv
    <2>2. Inv /\ Fresh /\ [Next]_vars => Fresh'
      BY NextFresh DEF Inv
    <2>3. Inv /\ Fresh /\ Wished /\ [Next]_vars => Wished'
      BY NextWished
    <2> QED  BY <2>1, <2>2, <2>3
  <1>3. Wished => PausedAsWished
    BY DEF Wished
  <1> QED  BY <1>1, <1>2, <1>3, PTL DEF Spec
=============================================================================
