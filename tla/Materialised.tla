---------------------------- MODULE Materialised ----------------------------
(***************************************************************************)
(* Scan 1 of the Watcher: a Thing that appears in the ThingStore gives      *)
(* birth to one Conversation per Assistant whose Trigger names its Model.   *)
(*                                                                         *)
(* The position of the scan is the watermark, a createdAt with the          *)
(* granularity of a second, kept in the RuntimeState singleton together     *)
(* with the docRefs decided at exactly that second.  The singleton is also  *)
(* written by others (`just pause`, the demo loader) and the store has no   *)
(* compare-and-swap, so every read and every write is a step of its own.    *)
(*                                                                         *)
(* One pass: loadState, stamp the Things without a createdAt, one page per  *)
(* Model, one step per row and per birth, save, the other scans, heartbeat. *)
(* The pass may end at any store call that throws, and with the process.    *)
(***************************************************************************)
EXTENDS Integers, Sequences, FiniteSets, FiniteSetsExt

CONSTANTS
    Models,          \* TRIGGER_ELIGIBLE_MODELS, in the order they are scanned
    Assistants,      \* the Assistants with a thing-materialised Trigger
    TriggersOn,      \* [Assistants -> SUBSET Range(Models)], the modelFilters
    PageSize,        \* PAGE_SIZE
    MaxBirths,       \* maxBirthsPerHour
    MaxThings,       \* bound: Things ever created
    MaxPerSecond,    \* bound: Things of one Model stamped within one second
    MaxNow,          \* bound: seconds
    MaxHours,        \* bound: hours that pass
    MaxEdits,        \* bound: writes by `just pause`, the demo loader, the User
    MaxStops,        \* bound: store calls that fail, and passes that end early with them
    MaxCalls,        \* bound: Conversations born of a call rather than a Thing
    Demo,            \* may the demo loader run beside the Runtime
    Faults           \* store calls that may fail: "query", "get", "stamp", "reread";
                     \* "backdate": the model passes a createdAt of its own

ModelSet == {Models[i] : i \in DOMAIN Models}

ASSUME SizesAreNatural ==
    /\ {PageSize, MaxNow} \subseteq Nat \ {0}
    /\ {MaxBirths, MaxThings, MaxPerSecond, MaxHours, MaxEdits, MaxStops, MaxCalls} \subseteq Nat
    /\ Demo \in BOOLEAN /\ Models \in Seq(ModelSet) /\ TriggersOn \in [Assistants -> SUBSET ModelSet]

VARIABLES
    now, hour,       \* the clock: the second, and whole hours that went by
    thing,           \* the trigger-eligible Things, in the order of creation
    conv,            \* the Conversations: one record per birth or call
    store,           \* the RuntimeState in the ThingStore
    enabled,         \* the Assistants that are not switched off
    pc, mem, fresh,  \* the pass: where it is, its copy of the state, the re-read
    on, model,       \* the Assistants it loaded, the index of the Model
    page, full,      \* the rows of this Model left to look at; was the page full
    row, owed,       \* the Thing being decided, the Assistants it may be born for
    mark,            \* newestDecided, ceiling, frontier, frozen and decidedAt
    decided, wanted, raced, edits, stops

pass == <<pc, mem, fresh, on, model, page, full, row, owed, mark>>
history == <<decided, wanted, raced>>
vars == <<now, hour, thing, conv, store, enabled, pass, history, edits, stops>>

Ids == 1..MaxThings
Instants == 1..(MaxNow + 1)
RuntimeState == [watermark : Instants, seen : SUBSET Ids, paused : BOOLEAN,
                 births : Nat, window : 0..MaxHours]
Thing == [model : ModelSet, at : 0..MaxNow, by : Nat]
Conversation == [assistant : Assistants, subject : Ids, open : BOOLEAN, called : BOOLEAN]
Mark == [newest : Instants, ceiling : 0..(MaxNow + 1), frontier : 0..(MaxNow + 1),
         frozen : BOOLEAN, at : SUBSET Ids]
Places == {"idle", "stamp", "query", "rows", "birth", "get", "put", "rest", "beat"}

TypeOK ==
    /\ now \in 1..MaxNow /\ hour \in 0..MaxHours
    /\ thing \in Seq(Thing) /\ Len(thing) <= MaxThings
    /\ conv \in Seq(Conversation)
    /\ store \in RuntimeState /\ mem \in RuntimeState /\ fresh \in RuntimeState
    /\ enabled \subseteq Assistants /\ on \subseteq Assistants /\ owed \subseteq Assistants
    /\ pc \in Places /\ model \in 1..(Len(Models) + 1)
    /\ page \subseteq Ids /\ full \in BOOLEAN /\ row \in 0..MaxThings /\ mark \in Mark
    /\ decided \subseteq Ids /\ wanted \in BOOLEAN /\ raced \in BOOLEAN
    /\ edits \in 0..MaxEdits /\ stops \in 0..MaxStops

(* bootstrap and loadState seed the watermark with the current second, so    *)
(* that the first pass does not take the whole store for new work.           *)
loadState == [watermark |-> 1, seen |-> {}, paused |-> FALSE, births |-> 0, window |-> 0]

NoMark == [newest |-> 1, ceiling |-> 0, frontier |-> 0, frozen |-> FALSE, at |-> {}]

Init ==
    /\ now = 1 /\ hour = 0 /\ thing = <<>> /\ conv = <<>>
    /\ store = loadState /\ mem = loadState /\ fresh = loadState
    /\ enabled = Assistants /\ on = {}
    /\ pc = "idle" /\ model = 1 /\ page = {} /\ full = FALSE /\ row = 0 /\ owed = {}
    /\ mark = NoMark
    /\ decided = {} /\ wanted = FALSE /\ raced = FALSE /\ edits = 0 /\ stops = 0

-----------------------------------------------------------------------------
(* What the pass computes.                                                   *)

(* The value 0 stands for undefined.                                         *)
lowest(current, candidate) == IF current = 0 \/ candidate < current THEN candidate ELSE current

(* A budget whose window is over an hour old starts again at zero.           *)
Renewed(state) ==
    IF hour > state.window THEN [state EXCEPT !.window = hour, !.births = 0] ELSE state

withinBirthBudget(state) == Renewed(state).births < MaxBirths \/ hour > state.window

(* Slip: a Conversation that somebody called does not count.                 *)
conversationExistsFor_Born(a, t) ==
    \E i \in DOMAIN conv : conv[i].assistant = a /\ conv[i].subject = t /\ ~conv[i].called

conversationExistsFor(a, t) == \E i \in DOMAIN conv : conv[i].assistant = a /\ conv[i].subject = t

isConversationRunning(c) == c # 0 /\ conv[c].open

matches(a, t) == thing[t].model \in TriggersOn[a]

(* The pages a query ordered by createdAt may return of the rows S: ties are *)
(* broken any way the store likes.                                           *)
PagesOf(S) ==
    {P \in kSubset(IF Cardinality(S) < PageSize THEN Cardinality(S) ELSE PageSize, S) :
        \A p \in P, s \in S \ P : thing[p].at <= thing[s].at}

freeze == [mark EXCEPT !.frozen = TRUE,
                       !.frontier = IF mark.frozen \/ mark.frontier # 0 THEN @ ELSE mem.watermark]

(* newestSeen: the newest decided Thing, but never past the ceiling.         *)
newestSeen ==
    IF mark.ceiling # 0 /\ mark.ceiling < mark.newest THEN mark.ceiling ELSE mark.newest

boundaryDocRefs == {t \in mark.at : thing[t].at = newestSeen}

-----------------------------------------------------------------------------
(* The pass.                                                                 *)

Elsewhere == UNCHANGED <<now, hour, thing, conv, store, enabled, history, edits, stops>>

(* A paused Runtime does not scan; with no Assistant triggered there is      *)
(* nothing to do here, and an exhausted budget skips the scan altogether.    *)
StartScan ==
    /\ pc = "idle" /\ ~store.paused
    /\ mem' = IF enabled # {} THEN Renewed(store) ELSE store
    /\ \/ /\ enabled # {} /\ withinBirthBudget(store)
          /\ pc' = "stamp" /\ on' = enabled
          /\ mark' = [NoMark EXCEPT !.newest = store.watermark]
       \/ /\ enabled = {} \/ ~withinBirthBudget(store)
          /\ pc' = "rest" /\ UNCHANGED <<on, mark>>
    /\ UNCHANGED <<fresh, model, page, full, row, owed>> /\ Elsewhere

(* A Thing the User made in the web application has no createdAt.  It gets   *)
(* one here, and nothing else of it is written.                              *)
stampMissingCreatedAt ==
    /\ pc = "stamp" /\ model <= Len(Models)
    /\ LET orphans == {t \in DOMAIN thing : thing[t].at = 0 /\ thing[t].model = Models[model]}
           room == MaxPerSecond - Cardinality({t \in DOMAIN thing :
                       thing[t].at = now /\ thing[t].model = Models[model]})
       IN  \E S \in SUBSET orphans :
               /\ \/ Cardinality(S) = Min({PageSize, room, Cardinality(orphans)})
                  \/ "stamp" \in Faults /\ Cardinality(S) < Min({PageSize, room})
               /\ thing' = [t \in DOMAIN thing |->
                              IF t \in S THEN [thing[t] EXCEPT !.at = now] ELSE thing[t]]
    /\ model' = model + 1
    /\ UNCHANGED <<now, hour, conv, store, enabled, history, edits, stops,
                   pc, mem, fresh, on, page, full, row, owed, mark>>

StampsDone ==
    /\ pc = "stamp" /\ model > Len(Models)
    /\ pc' = "query" /\ model' = 1
    /\ UNCHANGED <<mem, fresh, on, page, full, row, owed, mark>> /\ Elsewhere

(* Slip: the lower bound is exclusive.                                       *)
QueryModel_Exclusive ==
    /\ pc = "query" /\ model <= Len(Models)
    /\ \E P \in PagesOf({t \in DOMAIN thing : /\ thing[t].model = Models[model]
                                              /\ thing[t].at > mem.watermark}) :
           /\ page' = P
           /\ full' = (Cardinality(P) >= PageSize)
    /\ mark' = [mark EXCEPT !.frontier = 0, !.frozen = FALSE]
    /\ pc' = "rows"
    /\ UNCHANGED <<mem, fresh, on, model, row, owed>> /\ Elsewhere

(* One page, oldest first, of what lies at or after the watermark.           *)
QueryModel ==
    /\ pc = "query" /\ model <= Len(Models)
    /\ \E P \in PagesOf({t \in DOMAIN thing : /\ thing[t].model = Models[model]
                                              /\ thing[t].at >= mem.watermark}) :
           /\ page' = P
           /\ full' = (Cardinality(P) >= PageSize)
    /\ mark' = [mark EXCEPT !.frontier = 0, !.frozen = FALSE]
    /\ pc' = "rows"
    /\ UNCHANGED <<mem, fresh, on, model, row, owed>> /\ Elsewhere

(* A Model whose query failed decided nothing: the watermark stays.          *)
QueryFails ==
    /\ pc = "query" /\ model <= Len(Models) /\ "query" \in Faults /\ stops < MaxStops
    /\ mark' = [mark EXCEPT !.ceiling = lowest(@, mem.watermark)]
    /\ model' = model + 1 /\ stops' = stops + 1
    /\ UNCHANGED <<pc, mem, fresh, on, page, full, row, owed>> 
    /\ UNCHANGED <<now, hour, thing, conv, store, enabled, history, edits>>

(* Slip: the creating Conversation is not looked at.                         *)
NextRow_AnyCreator ==
    /\ pc = "rows"
    /\ \E t \in page :
         /\ \A s \in page : thing[t].at <= thing[s].at
         /\ page' = page \ {t}
         /\ \/ /\ t \in mem.seen
               /\ UNCHANGED <<pc, row, owed, mark>>
            \/ /\ t \notin mem.seen /\ FALSE
               /\ mark' = freeze
               /\ UNCHANGED <<pc, row, owed>>
            \/ /\ t \notin mem.seen
               /\ pc' = "birth" /\ row' = t
               /\ owed' = {a \in on : matches(a, t)}
               /\ UNCHANGED mark
    /\ UNCHANGED <<mem, fresh, on, model, full>> /\ Elsewhere

(* The oldest row of the page: seen already, held back because the           *)
(* Conversation that made it is unfinished, or to be decided now.  A read of *)
(* that Conversation that fails counts as finished.                          *)
NextRow ==
    /\ pc = "rows"
    /\ \E t \in page :
         /\ \A s \in page : thing[t].at <= thing[s].at
         /\ page' = page \ {t}
         /\ \/ /\ t \in mem.seen
               /\ UNCHANGED <<pc, row, owed, mark>>
            \/ /\ t \notin mem.seen /\ isConversationRunning(thing[t].by)
               /\ mark' = freeze
               /\ UNCHANGED <<pc, row, owed>>
            \/ /\ t \notin mem.seen
               /\ ~isConversationRunning(thing[t].by) \/ "get" \in Faults
               /\ pc' = "birth" /\ row' = t
               /\ owed' = {a \in on : matches(a, t)}
               /\ UNCHANGED mark
    /\ UNCHANGED <<mem, fresh, on, model, full>> /\ Elsewhere

(* Exactly once by query; then the budget; then the birth, which counts in   *)
(* this pass's copy of the RuntimeState only.                                *)
BirthFor(a) ==
    /\ pc = "birth" /\ a \in owed
    /\ \/ /\ conversationExistsFor(a, row)
          /\ owed' = owed \ {a}
          /\ UNCHANGED <<pc, mem, mark, conv, row>>
       \/ /\ ~conversationExistsFor(a, row) /\ ~withinBirthBudget(mem)
          /\ mark' = freeze
          /\ owed' = {} /\ pc' = "rows" /\ row' = 0
          /\ UNCHANGED <<mem, conv>>
       \/ /\ ~conversationExistsFor(a, row) /\ withinBirthBudget(mem)
          /\ conv' = Append(conv, [assistant |-> a, subject |-> row, open |-> TRUE, called |-> FALSE])
          /\ mem' = [Renewed(mem) EXCEPT !.births = @ + 1]
          /\ owed' = owed \ {a}
          /\ UNCHANGED <<pc, row, mark>>
    /\ UNCHANGED <<now, hour, thing, store, enabled, decided, wanted, raced, edits, stops,
                   fresh, on, model, page, full>>

(* Slip: a Thing behind the frozen one moves the frontier.                    *)
Decide_PastFreeze ==
    /\ pc = "birth" /\ owed = {}
    /\ LET at == thing[row].at
       IN  mark' = [mark EXCEPT
                      !.newest = IF at > @ THEN at ELSE @,
                      !.at = @ \cup {row},
                      !.frontier = IF at > @ THEN at ELSE @]
    /\ decided' = decided \cup {row}
    /\ pc' = "rows" /\ row' = 0
    /\ UNCHANGED <<now, hour, thing, conv, store, enabled, wanted, raced, edits, stops,
                   mem, fresh, on, model, page, full, owed>>

(* The Thing is decided.  One behind a frozen frontier does not move it.     *)
Decide ==
    /\ pc = "birth" /\ owed = {}
    /\ LET at == thing[row].at
       IN  mark' = [mark EXCEPT
                      !.newest = IF at > @ THEN at ELSE @,
                      !.at = @ \cup {row},
                      !.frontier = IF ~mark.frozen /\ at > @ THEN at ELSE @]
    /\ decided' = decided \cup {row}
    /\ pc' = "rows" /\ row' = 0
    /\ UNCHANGED <<now, hour, thing, conv, store, enabled, wanted, raced, edits, stops,
                   mem, fresh, on, model, page, full, owed>>

(* What this Model lets the watermark pass.                                  *)
EndModel ==
    /\ pc = "rows" /\ page = {}
    /\ mark' = [mark EXCEPT !.ceiling =
                  IF mark.frozen \/ (full /\ mark.frontier # 0) THEN lowest(@, mark.frontier) ELSE @]
    /\ pc' = "query" /\ model' = model + 1 /\ full' = FALSE
    /\ UNCHANGED <<mem, fresh, on, page, row, owed>> /\ Elsewhere

EndScan ==
    /\ pc = "query" /\ model > Len(Models)
    /\ \/ /\ newestSeen # mem.watermark
          /\ mem' = [mem EXCEPT !.watermark = newestSeen, !.seen = boundaryDocRefs]
          /\ pc' = "get"
       \/ /\ newestSeen = mem.watermark
          /\ pc' = "rest" /\ UNCHANGED mem
    /\ on' = {} /\ model' = 1 /\ mark' = NoMark
    /\ UNCHANGED <<fresh, page, full, row, owed>> /\ Elsewhere

(* savePreservingHumanFields: re-read, carry `paused` and a watermark that   *)
(* is ahead forward, write everything.  Called here and by stampHeartbeat.   *)
ReRead(from, to) ==
    /\ pc = from
    /\ fresh' = store
    /\ pc' = to
    /\ UNCHANGED <<mem, on, model, page, full, row, owed, mark>> /\ Elsewhere

(* A state that cannot be re-read is not written.                            *)
SaveSkipped(from, to) ==
    /\ pc = from /\ "reread" \in Faults /\ stops < MaxStops
    /\ pc' = to /\ stops' = stops + 1
    /\ mem' = IF to = "idle" THEN loadState ELSE mem
    /\ UNCHANGED <<fresh, on, model, page, full, row, owed, mark>>
    /\ UNCHANGED <<now, hour, thing, conv, store, enabled, history, edits>>

(* Slips: the copy read at the start of the pass is written back.            *)
Merged_OwnPaused ==
    [mem EXCEPT !.paused = @,
                !.watermark = IF fresh.watermark > @ THEN fresh.watermark ELSE @,
                !.seen = IF fresh.watermark > mem.watermark THEN fresh.seen ELSE @]

Merged_OwnWatermark ==
    [mem EXCEPT !.paused = fresh.paused]

Merged ==
    [mem EXCEPT !.paused = fresh.paused,
                !.watermark = IF fresh.watermark > @ THEN fresh.watermark ELSE @,
                !.seen = IF fresh.watermark > mem.watermark THEN fresh.seen ELSE @]

savePreservingHumanFields(from, to) ==
    /\ pc = from
    /\ store' = Merged
    /\ mem' = IF to = "idle" THEN loadState ELSE Merged
    /\ fresh' = loadState
    /\ pc' = to
    /\ UNCHANGED <<now, hour, thing, conv, enabled, history, edits, stops,
                   on, model, page, full, row, owed, mark>>

SaveWatermark ==
    \/ ReRead("get", "put")
    \/ SaveSkipped("get", "rest")
    \/ savePreservingHumanFields("put", "rest")

stampHeartbeat ==
    \/ ReRead("rest", "beat")
    \/ SaveSkipped("rest", "idle")
    \/ savePreservingHumanFields("beat", "idle")

NoPass ==
    /\ pc' = "idle" /\ mem' = loadState /\ fresh' = loadState /\ mark' = NoMark
    /\ on' = {} /\ model' = 1 /\ page' = {} /\ full' = FALSE /\ row' = 0 /\ owed' = {}

(* A store call of this pass throws, or the process ends: what the pass had  *)
(* only in its copy is gone, what it wrote stays.                            *)
PassEnds ==
    /\ pc # "idle" /\ stops < MaxStops
    /\ stops' = stops + 1
    /\ NoPass
    /\ UNCHANGED <<now, hour, thing, conv, store, enabled, history, edits>>

-----------------------------------------------------------------------------
(* The rest of the Runtime: scans 2 to 6 advance Conversations.              *)

RoomAt(m) == Cardinality({t \in DOMAIN thing : thing[t].at = now /\ thing[t].model = m}) < MaxPerSecond

NewThing(m, at, by) ==
    /\ Len(thing) < MaxThings
    /\ thing' = Append(thing, [model |-> m, at |-> at, by |-> by])

(* A Turn creates a Thing, or calls an Assistant about one, or ends it all.  *)
(* create keeps a createdAt that is among the fields the model passed.       *)
TurnCreates(c, m) ==
    /\ pc = "rest" /\ c \in DOMAIN conv /\ conv[c].open /\ RoomAt(m)
    /\ \E at \in 1..now : /\ at = now \/ "backdate" \in Faults
                         /\ NewThing(m, at, c)
    /\ UNCHANGED <<now, hour, conv, store, enabled, pass, history, edits, stops>>

TurnCalls(c, a, t) ==
    /\ pc = "rest" /\ c \in DOMAIN conv /\ conv[c].open /\ t \in DOMAIN thing
    /\ Cardinality({i \in DOMAIN conv : conv[i].called}) < MaxCalls
    /\ conv' = Append(conv, [assistant |-> a, subject |-> t, open |-> TRUE, called |-> TRUE])
    /\ UNCHANGED <<now, hour, thing, store, enabled, pass, history, edits, stops>>

TurnEnds(c) ==
    /\ pc = "rest" /\ c \in DOMAIN conv /\ conv[c].open
    /\ conv' = [conv EXCEPT ![c].open = FALSE]
    /\ UNCHANGED <<now, hour, thing, store, enabled, pass, history, edits, stops>>

(* Scan 0 puts what came with the post into the store before scan 1 looks.   *)
MailArrives(m) ==
    /\ pc = "idle" /\ RoomAt(m)
    /\ NewThing(m, now, 0)
    /\ UNCHANGED <<now, hour, conv, store, enabled, pass, history, edits, stops>>

-----------------------------------------------------------------------------
(* Everybody else, at any moment.  The clock and the Things without a        *)
(* createdAt change only where a step may look at them: elsewhere it makes   *)
(* no difference when they do.                                               *)
Looking == pc \in {"idle", "stamp", "rest"}

UserCreates(m) ==
    /\ Looking /\ NewThing(m, 0, 0)
    /\ UNCHANGED <<now, hour, conv, store, enabled, pass, history, edits, stops>>

(* Did this write fall between a re-read and the write that follows it?      *)
InTheGap == pc \in {"put", "beat"}

(* `just pause` and `just resume` write the one field.                       *)
setPaused(p) ==
    /\ edits < MaxEdits /\ p # store.paused
    /\ store' = [store EXCEPT !.paused = p]
    /\ wanted' = p /\ raced' = InTheGap /\ edits' = edits + 1
    /\ UNCHANGED <<now, hour, thing, conv, enabled, pass, decided, stops>>

(* The demo loader declares everything so far to be history: it moves the    *)
(* watermark a second ahead.  Its read and its write are taken as one step.  *)
loadDemo ==
    /\ Demo /\ edits < MaxEdits
    /\ store' = [store EXCEPT !.watermark = now + 1, !.seen = {}]
    /\ raced' = (raced \/ InTheGap) /\ edits' = edits + 1
    /\ UNCHANGED <<now, hour, thing, conv, enabled, pass, decided, wanted, stops>>

ToggleAssistant(a) ==
    /\ edits < MaxEdits
    /\ enabled' = IF a \in enabled THEN enabled \ {a} ELSE enabled \cup {a}
    /\ edits' = edits + 1
    /\ UNCHANGED <<now, hour, thing, conv, store, pass, history, stops>>

SecondPasses ==
    /\ Looking /\ now < MaxNow
    /\ now' = now + 1
    /\ UNCHANGED <<hour, thing, conv, store, enabled, pass, history, edits, stops>>

HourPasses ==
    /\ hour < MaxHours
    /\ hour' = hour + 1
    /\ UNCHANGED <<now, thing, conv, store, enabled, pass, decided, wanted, raced, edits, stops>>

Pass ==
    \/ StartScan \/ stampMissingCreatedAt \/ StampsDone
    \/ QueryModel \/ QueryFails \/ NextRow \/ (\E a \in Assistants : BirthFor(a)) \/ Decide
    \/ EndModel \/ EndScan \/ SaveWatermark \/ stampHeartbeat

Turns ==
    \E c \in DOMAIN conv :
        \/ TurnEnds(c)
        \/ \E m \in ModelSet : TurnCreates(c, m)
        \/ \E a \in Assistants, t \in DOMAIN thing : TurnCalls(c, a, t)

Others ==
    \/ \E m \in ModelSet : MailArrives(m) \/ UserCreates(m)
    \/ \E p \in BOOLEAN : setPaused(p)
    \/ loadDemo
    \/ \E a \in Assistants : ToggleAssistant(a)
    \/ SecondPasses \/ HourPasses

Next == Pass \/ PassEnds \/ Turns \/ Others

Spec == Init /\ [][Next]_vars

(* index.ts calls scan again and again for as long as the process lives.     *)
FairSpec == Spec /\ WF_vars(Pass)

-----------------------------------------------------------------------------
(* The watermark passes a Thing, or names it as decided at its own second,   *)
(* only once the Thing has been decided: what it passes is never looked at   *)
(* again, so a Thing passed over is lost without a word.                     *)
NothingPassedOver ==
    \A t \in DOMAIN thing :
        /\ thing[t].at # 0
        /\ thing[t].at < store.watermark \/ t \in store.seen
        => t \in decided

(* However often a Thing is looked at again, and whoever else already opened *)
(* a Conversation about it, the scan gives birth at most once per Assistant  *)
(* and Thing: a second Conversation about it can only come from a call.      *)
BornOnce ==
    \A i, j \in DOMAIN conv :
        /\ i < j
        /\ conv[i].assistant = conv[j].assistant /\ conv[i].subject = conv[j].subject
        => conv[j].called

(* No Conversation is born of a Thing whose own Conversation is unfinished:  *)
(* the Runtime does not feed on its output half way through.                 *)
NeverFeedsOnItself ==
    [][\A i \in DOMAIN conv' \ DOMAIN conv :
          ~conv'[i].called => ~isConversationRunning(thing[conv'[i].subject].by)]_vars

(* The scan never reverts `just pause`, save for a write that fell in the    *)
(* gap between its re-read and its own write.                                *)
KillSwitchKept == ~raced => store.paused = wanted

(* Nor does it pull the watermark back behind what another writer set.       *)
WatermarkOnlyForward == [][~raced' => store'.watermark >= store.watermark]_vars

(* While the Runtime is not paused, no Conversation is open and the budget   *)
(* is not used up, every Thing with a createdAt is decided in the end.       *)
EveryThingIsDecided ==
    \A t \in Ids :
        (t \in DOMAIN thing /\ thing[t].at # 0)
            ~> \/ t \in decided
               \/ store.paused \/ enabled = {}
               \/ \E c \in DOMAIN conv : conv[c].open
               \/ ~withinBirthBudget(store)
=============================================================================
