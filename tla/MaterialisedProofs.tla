-------------------------- MODULE MaterialisedProofs --------------------------
(***************************************************************************)
(* Scan 1 of the Watcher, for every list of Models, every set of           *)
(* Assistants and Triggers, every page size and every bound.               *)
(*                                                                         *)
(* Proved without a hypothesis: the types, that a save reverts neither     *)
(* `just pause` nor a watermark another writer set (save for a write in    *)
(* the gap between the re-read and the write), and that a Thing gives      *)
(* birth at most once per Assistant.  With readable creating Conversations *)
(* ("get" not among the Faults): nothing is born of a Thing whose own      *)
(* Conversation is unfinished.                                             *)
(*                                                                         *)
(* NothingPassedOver needs AloneOnTheWatermark: no demo loader, no Thing   *)
(* dated by the model, and a page that holds more than one second brings   *)
(* of one Model.  The stored position, the copy of the pass and the        *)
(* re-read one are all safe; during a scan the Models that are done leave  *)
(* nothing undecided before the ceiling, and the Model at hand leaves      *)
(* nothing undecided before its frontier, because rows are taken oldest    *)
(* first and a page leaves out only what comes after its rows.  A full     *)
(* page that moved no frontier would hold nothing but Things of the        *)
(* watermark's second, more than one second can bring.                     *)
(***************************************************************************)
EXTENDS Materialised, FiniteSetTheorems, TLAPS

\* The rows of the page, and the one at hand, are Things of the store; a scan that looks at
\* rows is at a Model; and the Conversation a Thing names as its maker exists.
Placed ==
    /\ page \subseteq DOMAIN thing
    /\ pc = "birth" => row \in DOMAIN thing
    /\ pc \in {"rows", "birth"} => model <= Len(Models)
    /\ \A t \in DOMAIN thing : thing[t].by <= Len(conv)

\* The types and the places: what every other proof starts from.
TypeInv == TypeOK /\ Placed

-----------------------------------------------------------------------------
(* The operators.                                                            *)

\* The bounds are numbers.
LEMMA Bounds ==
    /\ PageSize \in Nat /\ PageSize > 0 /\ MaxNow \in Nat /\ MaxNow > 0
    /\ MaxBirths \in Nat /\ MaxThings \in Nat /\ MaxPerSecond \in Nat /\ MaxHours \in Nat
    /\ MaxEdits \in Nat /\ MaxStops \in Nat /\ MaxCalls \in Nat
    /\ Len(Models) \in Nat /\ DOMAIN Models = 1..Len(Models)
    /\ \A i \in 1..Len(Models) : Models[i] \in ModelSet
  <1>1. {PageSize, MaxNow} \subseteq Nat \ {0}
    BY SizesAreNatural
  <1>2. {MaxBirths, MaxThings, MaxPerSecond, MaxHours, MaxEdits, MaxStops, MaxCalls} \subseteq Nat
    BY SizesAreNatural
  <1>3. Models \in Seq(ModelSet)
    BY SizesAreNatural
  <1> QED  BY <1>1, <1>2, <1>3

\* The state a pass starts from when there is none.
LEMMA LoadState ==
    /\ loadState \in RuntimeState /\ loadState.watermark = 1 /\ loadState.seen = {} /\ loadState.paused = FALSE
    /\ NoMark \in Mark /\ NoMark.newest = 1
  <1>1. 1 \in Instants /\ 0 \in 0..MaxHours /\ 0 \in 0..(MaxNow + 1)
    BY Bounds DEF Instants
  <1> QED  BY <1>1 DEF loadState, RuntimeState, NoMark, Mark

\* A budget that is renewed is the same position.
LEMMA RenewedIs ==
    ASSUME NEW s \in RuntimeState, hour \in 0..MaxHours
    PROVE  /\ Renewed(s) \in RuntimeState /\ Renewed(s).paused = s.paused
           /\ Renewed(s).watermark = s.watermark /\ Renewed(s).seen = s.seen
  <1>1. CASE hour > s.window
    BY <1>1 DEF Renewed, RuntimeState
  <1>2. CASE ~(hour > s.window)
    BY <1>2 DEF Renewed
  <1> QED  BY <1>1, <1>2

\* What is saved is the position of the copy or, if that is ahead, the one that was re-read;
\* and the kill switch as it was re-read.
LEMMA MergedIs ==
    ASSUME mem \in RuntimeState, fresh \in RuntimeState
    PROVE  /\ Merged \in RuntimeState /\ Merged.paused = fresh.paused
           /\ \/ /\ Merged.watermark = mem.watermark /\ Merged.seen = mem.seen
                 /\ fresh.watermark <= mem.watermark
              \/ /\ Merged.watermark = fresh.watermark /\ Merged.seen = fresh.seen
                 /\ mem.watermark < fresh.watermark
  <1>1. mem.watermark \in Int /\ fresh.watermark \in Int
    BY DEF RuntimeState, Instants
  <1> DEFINE p == fresh.paused
             w == IF fresh.watermark > mem.watermark THEN fresh.watermark ELSE mem.watermark
             d == IF fresh.watermark > mem.watermark THEN fresh.seen ELSE mem.seen
  <1>2. Merged = [mem EXCEPT !.paused = p, !.watermark = w, !.seen = d]
    BY DEF Merged
  <1>3. p \in BOOLEAN /\ w \in Instants /\ d \in SUBSET Ids
    BY DEF RuntimeState
  <1>4. \/ w = mem.watermark /\ d = mem.seen /\ fresh.watermark <= mem.watermark
        \/ w = fresh.watermark /\ d = fresh.seen /\ mem.watermark < fresh.watermark
    BY <1>1
  <1> HIDE DEF p, w, d
  <1>5. Merged \in RuntimeState
    BY <1>2, <1>3 DEF RuntimeState
  <1>6. Merged.paused = p /\ Merged.watermark = w /\ Merged.seen = d
    BY <1>2 DEF RuntimeState
  <1> QED  BY <1>4, <1>5, <1>6 DEF p

\* A frozen Model keeps its frontier, or freezes at the watermark.
LEMMA FreezeIs ==
    ASSUME mark \in Mark, mem \in RuntimeState
    PROVE  /\ freeze \in Mark /\ freeze.frozen /\ freeze.newest = mark.newest
           /\ freeze.ceiling = mark.ceiling /\ freeze.at = mark.at
           /\ freeze.frontier = IF mark.frozen \/ mark.frontier # 0 THEN mark.frontier ELSE mem.watermark
  <1> DEFINE f == IF mark.frozen \/ mark.frontier # 0 THEN mark.frontier ELSE mem.watermark
  <1>1. f \in 0..(MaxNow + 1)
    BY DEF Mark, RuntimeState, Instants
  <1>2. freeze = [mark EXCEPT !.frozen = TRUE, !.frontier = f]
    BY DEF freeze
  <1> HIDE DEF f
  <1>3. freeze \in Mark
    BY <1>1, <1>2 DEF Mark
  <1>4. /\ freeze.frozen /\ freeze.newest = mark.newest
        /\ freeze.ceiling = mark.ceiling /\ freeze.at = mark.at /\ freeze.frontier = f
    BY <1>2 DEF Mark
  <1> QED  BY <1>3, <1>4 DEF f

\* The lower of two, where zero is none.
LEMMA LowestIs ==
    ASSUME NEW a \in 0..(MaxNow + 1), NEW b \in 1..(MaxNow + 1)
    PROVE  /\ lowest(a, b) \in 1..(MaxNow + 1) /\ lowest(a, b) <= b
           /\ a # 0 => lowest(a, b) <= a
  BY Bounds DEF lowest

\* The new position is that of the newest Thing, or lower.
LEMMA NewestSeenIs ==
    ASSUME mark \in Mark
    PROVE  /\ newestSeen \in Instants /\ newestSeen <= mark.newest
           /\ mark.ceiling # 0 => newestSeen <= mark.ceiling
  BY Bounds DEF newestSeen, Mark, Instants

\* Things and Conversations are numbered by their places.
LEMMA PlacesAre ==
    ASSUME TypeOK
    PROVE  /\ Len(thing) \in Nat /\ DOMAIN thing = 1..Len(thing) /\ DOMAIN thing \subseteq Ids
           /\ \A t \in DOMAIN thing : /\ thing[t] \in Thing /\ thing[t].model \in ModelSet
                                      /\ thing[t].at \in 0..MaxNow /\ thing[t].by \in Nat
           /\ Len(conv) \in Nat /\ DOMAIN conv = 1..Len(conv)
           /\ \A c \in DOMAIN conv : conv[c] \in Conversation
  <1>1. thing \in Seq(Thing) /\ Len(thing) <= MaxThings /\ conv \in Seq(Conversation)
    BY DEF TypeOK
  <1>2. Len(thing) \in Nat /\ DOMAIN thing = 1..Len(thing) /\ Len(conv) \in Nat /\ DOMAIN conv = 1..Len(conv)
    BY <1>1
  <1>3. \A t \in DOMAIN thing : thing[t] \in Thing
    BY <1>1, <1>2
  <1>4. \A c \in DOMAIN conv : conv[c] \in Conversation
    BY <1>1, <1>2
  <1>5. \A x \in Thing : x.model \in ModelSet /\ x.at \in 0..MaxNow /\ x.by \in Nat
    BY DEF Thing
  <1>6. DOMAIN thing \subseteq Ids
    BY <1>1, <1>2, Bounds DEF Ids
  <1> QED  BY <1>2, <1>3, <1>4, <1>5, <1>6

\* One page: a short one is everything.
LEMMA PageIs ==
    ASSUME TypeOK, NEW S \in SUBSET DOMAIN thing, NEW P \in PagesOf(S)
    PROVE  /\ P \in SUBSET S
           /\ \A p \in P, s \in S \ P : thing[p].at <= thing[s].at
           /\ ~(Cardinality(P) >= PageSize) => P = S
  <1> DEFINE k == IF Cardinality(S) < PageSize THEN Cardinality(S) ELSE PageSize
  <1>1. /\ P \in SUBSET S /\ Cardinality(P) = k
        /\ \A p \in P, s \in S \ P : thing[p].at <= thing[s].at
    BY DEF PagesOf, kSubset
  <1>2. IsFiniteSet(S) /\ Cardinality(S) \in Nat
    <2>1. IsFiniteSet(DOMAIN thing)
      BY PlacesAre, FS_Interval
    <2>2. IsFiniteSet(S)
      BY <2>1, FS_Subset
    <2> QED  BY <2>2, FS_CardinalityType
  <1>3. Cardinality(S) = Cardinality(P) => S = P
    BY <1>1, <1>2, FS_Subset
  <1> QED  BY <1>1, <1>2, <1>3, Bounds

-----------------------------------------------------------------------------
(* Types.                                                                    *)

\* The first second: nothing has been made.
LEMMA InitTyped == Init => TypeInv
  <1> SUFFICES ASSUME Init PROVE TypeInv
    OBVIOUS
  <1>1. /\ 1 \in 1..MaxNow /\ 0 \in 0..MaxHours /\ 0 \in 0..MaxThings /\ 0 <= MaxThings
        /\ 0 \in 0..MaxEdits /\ 0 \in 0..MaxStops /\ 1 \in 1..(Len(Models) + 1)
    BY Bounds
  <1>2. <<>> \in Seq(Thing) /\ <<>> \in Seq(Conversation) /\ Len(<<>>) = 0 /\ DOMAIN <<>> = {}
    OBVIOUS
  <1>3. TypeOK
    BY <1>1, <1>2, LoadState DEF Init, TypeOK, Places
  <1> QED  BY <1>2, <1>3 DEF Init, TypeInv, Placed

\* The numbers among the variables.
LEMMA Counters ==
    ASSUME TypeInv
    PROVE  /\ now \in 1..MaxNow /\ hour \in 0..MaxHours /\ model \in 1..(Len(Models) + 1)
           /\ edits \in 0..MaxEdits /\ stops \in 0..MaxStops
  BY DEF TypeInv, TypeOK

\* The pass as it begins, stamps and asks for a page.
LEMMA StartScanTyped == ASSUME TypeInv, StartScan PROVE TypeInv'
  <1>1. mem' \in RuntimeState
    BY RenewedIs DEF StartScan, TypeInv, TypeOK
  <1>2. mark' \in Mark /\ on' \subseteq Assistants /\ pc' \in {"stamp", "rest"}
    <2>1. [NoMark EXCEPT !.newest = store.watermark] \in Mark
      BY LoadState DEF TypeInv, TypeOK, Mark, RuntimeState
    <2> QED  BY <2>1 DEF StartScan, TypeInv, TypeOK
  <1>3. UNCHANGED <<now, hour, thing, conv, store, enabled, decided, wanted, raced, edits, stops,
                    fresh, model, page, full, row, owed>>
    BY DEF StartScan, Elsewhere, history
  <1> QED  BY <1>1, <1>2, <1>3 DEF TypeInv, TypeOK, Placed, Places

\* Stamping changes the time of some Things that have none.
LEMMA StampIs ==
    ASSUME TypeInv, stampMissingCreatedAt
    PROVE  /\ thing' \in Seq(Thing) /\ Len(thing') = Len(thing) /\ DOMAIN thing' = DOMAIN thing
           /\ \A t \in DOMAIN thing :
                 /\ thing'[t].model = thing[t].model /\ thing'[t].by = thing[t].by
                 /\ thing'[t].at = thing[t].at \/ (thing[t].at = 0 /\ thing'[t].at = now)
  <1>1. PICK S \in SUBSET {t \in DOMAIN thing : thing[t].at = 0 /\ thing[t].model = Models[model]} :
           thing' = [t \in DOMAIN thing |-> IF t \in S THEN [thing[t] EXCEPT !.at = now] ELSE thing[t]]
    BY DEF stampMissingCreatedAt
  <1>2. now \in 0..MaxNow
    BY Bounds DEF TypeInv, TypeOK
  <1>3. \A x \in Thing : /\ [x EXCEPT !.at = now] \in Thing /\ [x EXCEPT !.at = now].at = now
                         /\ [x EXCEPT !.at = now].model = x.model /\ [x EXCEPT !.at = now].by = x.by
    BY <1>2 DEF Thing
  <1>4. \A t \in DOMAIN thing : thing[t] \in Thing
    BY PlacesAre DEF TypeInv
  <1>5. \A t \in DOMAIN thing : /\ thing'[t] \in Thing
                                /\ thing'[t].model = thing[t].model /\ thing'[t].by = thing[t].by
                                /\ thing'[t].at = thing[t].at \/ (thing[t].at = 0 /\ thing'[t].at = now)
    BY <1>1, <1>3, <1>4
  <1>6. DOMAIN thing' = DOMAIN thing /\ DOMAIN thing = 1..Len(thing) /\ Len(thing) \in Nat
    BY <1>1, PlacesAre DEF TypeInv
  <1>7. thing' = [i \in 1..Len(thing) |-> thing'[i]]
    BY <1>1, <1>6
  <1>8. thing' \in Seq(Thing) /\ Len(thing') = Len(thing)
    BY <1>5, <1>6, <1>7
  <1> QED  BY <1>5, <1>6, <1>8

\* Stamping keeps the types: a Thing changes its time only.
LEMMA StampTyped == ASSUME TypeInv, stampMissingCreatedAt PROVE TypeInv'
  <1>1. model' \in 1..(Len(Models) + 1)
    <2>1. model <= Len(Models) /\ model' = model + 1
      BY DEF stampMissingCreatedAt
    <2> QED  BY <2>1, Counters, Bounds
  <1>2. /\ pc = "stamp"
        /\ UNCHANGED <<now, hour, conv, store, enabled, decided, wanted, raced, edits, stops,
                       pc, mem, fresh, on, page, full, row, owed, mark>>
    BY DEF stampMissingCreatedAt, history
  <1>3. TypeOK'
    BY <1>1, <1>2, StampIs DEF TypeInv, TypeOK
  <1> QED  BY <1>2, <1>3, StampIs DEF TypeInv, Placed

\* The stamps are done, and the first Model is next.
LEMMA StampsDoneTyped == ASSUME TypeInv, StampsDone PROVE TypeInv'
  <1>1. 1 \in 1..(Len(Models) + 1)
    BY Bounds
  <1> QED  BY <1>1 DEF StampsDone, Elsewhere, history, TypeInv, TypeOK, Placed, Places

\* A query takes one page of this Model, and starts without a frontier.
LEMMA QueryModelIs ==
    ASSUME TypeInv, QueryModel
    PROVE  /\ page' \subseteq DOMAIN thing /\ full' \in BOOLEAN /\ mark' \in Mark
           /\ mark'.frontier = 0 /\ mark'.frozen = FALSE /\ mark'.newest = mark.newest
           /\ mark'.ceiling = mark.ceiling /\ mark'.at = mark.at
           /\ pc' = "rows" /\ pc = "query" /\ model \in 1..Len(Models)
           /\ UNCHANGED <<now, hour, thing, conv, store, enabled, decided, wanted, raced, edits, stops,
                          mem, fresh, on, model, row, owed>>
  <1> DEFINE S == {t \in DOMAIN thing : thing[t].model = Models[model] /\ thing[t].at >= mem.watermark}
  <1>1. PICK P \in PagesOf(S) : page' = P /\ full' = (Cardinality(P) >= PageSize)
    BY DEF QueryModel
  <1>2. P \subseteq DOMAIN thing
    BY PageIs DEF TypeInv
  <1>3. /\ mark' = [mark EXCEPT !.frontier = 0, !.frozen = FALSE] /\ 0 \in 0..(MaxNow + 1)
        /\ mark \in Mark
    BY Bounds DEF QueryModel, TypeInv, TypeOK
  <1>4. /\ mark' \in Mark
        /\ mark'.frontier = 0 /\ mark'.frozen = FALSE /\ mark'.newest = mark.newest
        /\ mark'.ceiling = mark.ceiling /\ mark'.at = mark.at
    BY <1>3 DEF Mark
  <1>5. (Cardinality(P) >= PageSize) \in BOOLEAN
    OBVIOUS
  <1>6. model \in 1..Len(Models)
    <2>1. model <= Len(Models)
      BY DEF QueryModel
    <2> QED  BY <2>1, Counters, Bounds
  <1> QED  BY <1>1, <1>2, <1>4, <1>5, <1>6 DEF QueryModel, Elsewhere, history

\* A page holds Things of the store.
LEMMA QueryModelTyped == ASSUME TypeInv, QueryModel PROVE TypeInv'
  <1>1. page' \subseteq Ids
    BY QueryModelIs, PlacesAre DEF TypeInv
  <1>2. model <= Len(Models)
    BY QueryModelIs, Bounds
  <1> QED  BY <1>1, <1>2, QueryModelIs DEF TypeInv, TypeOK, Placed, Places

\* A query that fails lowers the ceiling to the watermark and leaves the Model.
LEMMA QueryFailsIs ==
    ASSUME TypeInv, QueryFails
    PROVE  /\ mark' \in Mark /\ mark'.ceiling = lowest(mark.ceiling, mem.watermark)
           /\ mark'.newest = mark.newest /\ mark'.at = mark.at
           /\ pc = "query" /\ model \in 1..Len(Models) /\ model' = model + 1
           /\ stops' \in 0..MaxStops
           /\ UNCHANGED <<now, hour, thing, conv, store, enabled, decided, wanted, raced, edits,
                          pc, mem, fresh, on, page, full, row, owed>>
  <1>1. mark \in Mark /\ mark.ceiling \in 0..(MaxNow + 1) /\ mem.watermark \in 1..(MaxNow + 1)
    BY DEF TypeInv, TypeOK, Mark, RuntimeState, Instants
  <1>2. lowest(mark.ceiling, mem.watermark) \in 0..(MaxNow + 1)
    BY <1>1, LowestIs
  <1>3. mark' = [mark EXCEPT !.ceiling = lowest(mark.ceiling, mem.watermark)]
    BY DEF QueryFails
  <1>4. /\ mark' \in Mark /\ mark'.ceiling = lowest(mark.ceiling, mem.watermark)
        /\ mark'.newest = mark.newest /\ mark'.at = mark.at
    BY <1>1, <1>2, <1>3 DEF Mark
  <1>5. stops' \in 0..MaxStops /\ model \in 1..Len(Models)
    <2>1. stops < MaxStops /\ stops' = stops + 1 /\ model <= Len(Models)
      BY DEF QueryFails
    <2> QED  BY <2>1, Counters, Bounds
  <1> QED  BY <1>4, <1>5 DEF QueryFails, history

\* After a failed query the next Model, or the end, is in range.
LEMMA QueryFailsTyped == ASSUME TypeInv, QueryFails PROVE TypeInv'
  <1>1. model' \in 1..(Len(Models) + 1)
    BY QueryFailsIs, Bounds
  <1> QED  BY <1>1, QueryFailsIs DEF TypeInv, TypeOK, Placed

\* One row of the page, the oldest, is dropped, freezes the Model, or is taken up.
LEMMA NextRowIs ==
    ASSUME TypeInv, NextRow
    PROVE  \E t \in page :
             /\ \A s \in page : thing[t].at <= thing[s].at
             /\ page' = page \ {t}
             /\ \/ t \in mem.seen /\ UNCHANGED <<pc, row, owed, mark>>
                \/ mark' = freeze /\ UNCHANGED <<pc, row, owed>>
                \/ /\ ~isConversationRunning(thing[t].by) \/ "get" \in Faults
                   /\ pc' = "birth" /\ row' = t /\ owed' \subseteq Assistants /\ UNCHANGED mark
             /\ pc = "rows"
             /\ UNCHANGED <<now, hour, thing, conv, store, enabled, decided, wanted, raced, edits, stops,
                            mem, fresh, on, model, full>>
  <1>1. PICK t \in page :
             /\ \A s \in page : thing[t].at <= thing[s].at
             /\ page' = page \ {t}
             /\ \/ /\ t \in mem.seen
                   /\ UNCHANGED <<pc, row, owed, mark>>
                \/ /\ mark' = freeze
                   /\ UNCHANGED <<pc, row, owed>>
                \/ /\ ~isConversationRunning(thing[t].by) \/ "get" \in Faults
                   /\ pc' = "birth" /\ row' = t
                   /\ owed' = {a \in on : matches(a, t)}
                   /\ UNCHANGED mark
    BY DEF NextRow
  <1>2. {a \in on : matches(a, t)} \subseteq Assistants
    BY DEF TypeInv, TypeOK
  <1>3. /\ pc = "rows"
        /\ UNCHANGED <<now, hour, thing, conv, store, enabled, decided, wanted, raced, edits, stops,
                       mem, fresh, on, model, full>>
    BY DEF NextRow, Elsewhere, history
  <1> QED  BY <1>1, <1>2, <1>3

\* A row comes from the page, so it is a Thing.
LEMMA NextRowTyped == ASSUME TypeInv, NextRow PROVE TypeInv'
  <1>1. PICK t \in page :
             /\ page' = page \ {t}
             /\ \/ UNCHANGED <<pc, row, owed, mark>>
                \/ mark' = freeze /\ UNCHANGED <<pc, row, owed>>
                \/ pc' = "birth" /\ row' = t /\ owed' \subseteq Assistants /\ UNCHANGED mark
             /\ pc = "rows"
             /\ UNCHANGED <<now, hour, thing, conv, store, enabled, decided, wanted, raced, edits, stops,
                            mem, fresh, on, model, full>>
    BY NextRowIs
  <1>2. t \in DOMAIN thing /\ t \in 0..MaxThings
    BY Bounds, PlacesAre DEF TypeInv, Placed, Ids
  <1>3. mark' \in Mark /\ pc' \in Places /\ row' \in 0..MaxThings /\ owed' \subseteq Assistants
    BY <1>1, <1>2, FreezeIs DEF TypeInv, TypeOK, Places
  <1>4. TypeOK'
    BY <1>1, <1>3 DEF TypeInv, TypeOK
  <1>5. Placed'
    BY <1>1, <1>2 DEF TypeInv, Placed
  <1> QED  BY <1>4, <1>5 DEF TypeInv

\* A birth adds one Conversation, about the row, to the others.
LEMMA BirthForIs ==
    ASSUME TypeInv, NEW a \in Assistants, BirthFor(a)
    PROVE  /\ pc = "birth" /\ row \in DOMAIN thing
           /\ mem' \in RuntimeState /\ mem'.watermark = mem.watermark /\ mem'.seen = mem.seen
           /\ owed' \subseteq owed
           /\ \/ UNCHANGED <<pc, row, mark, conv>>
              \/ mark' = freeze /\ pc' = "rows" /\ row' = 0 /\ UNCHANGED conv
              \/ /\ ~conversationExistsFor(a, row) /\ UNCHANGED <<pc, row, mark>>
                 /\ conv' = Append(conv, [assistant |-> a, subject |-> row, open |-> TRUE, called |-> FALSE])
           /\ UNCHANGED <<now, hour, thing, store, enabled, decided, wanted, raced, edits, stops,
                          fresh, on, model, page, full>>
  <1>1. mem \in RuntimeState /\ hour \in 0..MaxHours
    BY DEF TypeInv, TypeOK
  <1> DEFINE r == Renewed(mem)
  <1>2. r \in RuntimeState /\ r.watermark = mem.watermark /\ r.seen = mem.seen
    BY <1>1, RenewedIs
  <1> HIDE DEF r
  <1>3. /\ [r EXCEPT !.births = r.births + 1] \in RuntimeState
        /\ [r EXCEPT !.births = r.births + 1].watermark = mem.watermark
        /\ [r EXCEPT !.births = r.births + 1].seen = mem.seen
    BY <1>2 DEF RuntimeState
  <1>4. mem' = mem \/ mem' = [r EXCEPT !.births = r.births + 1]
    BY DEF BirthFor, r
  <1>5. mem' \in RuntimeState /\ mem'.watermark = mem.watermark /\ mem'.seen = mem.seen
    BY <1>1, <1>3, <1>4
  <1>6. pc = "birth" /\ row \in DOMAIN thing
    BY DEF BirthFor, TypeInv, Placed
  <1>7. UNCHANGED <<now, hour, thing, store, enabled, decided, wanted, raced, edits, stops,
                          fresh, on, model, page, full>>
    BY DEF BirthFor
  <1>8. /\ owed' \subseteq owed
        /\ \/ UNCHANGED <<pc, row, mark, conv>>
           \/ mark' = freeze /\ pc' = "rows" /\ row' = 0 /\ UNCHANGED conv
           \/ /\ ~conversationExistsFor(a, row) /\ UNCHANGED <<pc, row, mark>>
              /\ conv' = Append(conv, [assistant |-> a, subject |-> row, open |-> TRUE, called |-> FALSE])
    BY DEF BirthFor
  <1> QED  BY <1>5, <1>6, <1>7, <1>8

\* One Conversation more.
LEMMA ConvGrows ==
    ASSUME TypeOK, NEW c \in Conversation, conv' = Append(conv, c)
    PROVE  /\ conv' \in Seq(Conversation) /\ Len(conv') = Len(conv) + 1
           /\ DOMAIN conv' = 1..(Len(conv) + 1)
           /\ conv'[Len(conv) + 1] = c
           /\ \A i \in DOMAIN conv : conv'[i] = conv[i]
  BY DEF TypeOK

\* A birth keeps the types, and the makers of the Things.
LEMMA BirthForTyped == ASSUME TypeInv, NEW a \in Assistants, BirthFor(a) PROVE TypeInv'
  <1>0. row \in DOMAIN thing
    BY BirthForIs
  <1>1. row \in Ids /\ 0 \in 0..MaxThings
    BY <1>0, PlacesAre, Bounds DEF TypeInv
  <1>2. conv' \in Seq(Conversation) /\ Len(conv') \in Nat /\ Len(conv') >= Len(conv)
    <2>1. CASE conv' = conv
      BY <2>1, PlacesAre DEF TypeInv, TypeOK
    <2>2. CASE conv' = Append(conv, [assistant |-> a, subject |-> row, open |-> TRUE, called |-> FALSE])
      <3>1. [assistant |-> a, subject |-> row, open |-> TRUE, called |-> FALSE] \in Conversation
        BY <1>1 DEF Conversation
      <3> QED  BY <2>2, <3>1, ConvGrows, PlacesAre DEF TypeInv
    <2> QED  BY <2>1, <2>2, BirthForIs
  <1>3. mark' \in Mark /\ pc' \in Places /\ row' \in 0..MaxThings
    BY <1>1, BirthForIs, FreezeIs DEF TypeInv, TypeOK, Places
  <1>4. TypeOK'
    BY <1>2, <1>3, BirthForIs DEF TypeInv, TypeOK
  <1>5. Placed'
    <2>1. \A t \in DOMAIN thing : thing[t].by \in Nat /\ thing[t].by <= Len(conv)
      BY PlacesAre DEF TypeInv, Placed
    <2>2. \A t \in DOMAIN thing : thing[t].by <= Len(conv')
      BY <1>2, <2>1, PlacesAre DEF TypeInv
    <2> QED  BY <2>2, BirthForIs DEF TypeInv, Placed
  <1> QED  BY <1>4, <1>5 DEF TypeInv

\* A Thing that is decided may be the newest, and moves the frontier that is not frozen.
LEMMA DecideIs ==
    ASSUME TypeInv, Decide
    PROVE  /\ pc = "birth" /\ pc' = "rows" /\ row \in DOMAIN thing /\ row' = 0
           /\ decided' = decided \cup {row}
           /\ mark' \in Mark /\ mark'.ceiling = mark.ceiling /\ mark'.frozen = mark.frozen
           /\ mark'.at = mark.at \cup {row}
           /\ mark'.newest \in {mark.newest, thing[row].at}
           /\ mark'.frontier = IF ~mark.frozen /\ thing[row].at > mark.frontier
                               THEN thing[row].at ELSE mark.frontier
           /\ UNCHANGED <<now, hour, thing, conv, store, enabled, wanted, raced, edits, stops,
                          mem, fresh, on, model, page, full, owed>>
  <1> DEFINE at == thing[row].at
             n == IF at > mark.newest THEN at ELSE mark.newest
             f == IF ~mark.frozen /\ at > mark.frontier THEN at ELSE mark.frontier
             d == mark.at \cup {row}
  <1>1. /\ pc = "birth" /\ pc' = "rows" /\ row \in DOMAIN thing /\ row' = 0
        /\ decided' = decided \cup {row}
        /\ mark' = [mark EXCEPT !.newest = n, !.at = d, !.frontier = f]
        /\ UNCHANGED <<now, hour, thing, conv, store, enabled, wanted, raced, edits, stops,
                          mem, fresh, on, model, page, full, owed>>
    BY DEF Decide, TypeInv, Placed
  <1>2. at \in 0..MaxNow /\ row \in Ids
    BY <1>1, PlacesAre DEF TypeInv
  <1>3. mark \in Mark /\ mark.newest \in 1..(MaxNow + 1) /\ mark.frontier \in 0..(MaxNow + 1) /\ mark.at \subseteq Ids
    BY DEF TypeInv, TypeOK, Mark, Instants
  <1>4. n \in Instants /\ f \in 0..(MaxNow + 1) /\ d \subseteq Ids /\ n \in {mark.newest, at}
    BY <1>2, <1>3, Bounds DEF Instants
  <1> HIDE DEF n, f, d
  <1>5. /\ mark' \in Mark /\ mark'.ceiling = mark.ceiling /\ mark'.frozen = mark.frozen
        /\ mark'.at = d /\ mark'.newest = n /\ mark'.frontier = f
    BY <1>1, <1>3, <1>4 DEF Mark
  <1> QED  BY <1>1, <1>4, <1>5 DEF n, f, d

\* A decision keeps the types.
LEMMA DecideTyped == ASSUME TypeInv, Decide PROVE TypeInv'
  <1>1. row \in Ids /\ 0 \in 0..MaxThings
    BY DecideIs, PlacesAre, Bounds DEF TypeInv
  <1> QED  BY <1>1, DecideIs DEF TypeInv, TypeOK, Placed, Places

\* A Model that is done may lower the ceiling.
LEMMA EndModelIs ==
    ASSUME TypeInv, EndModel
    PROVE  /\ pc = "rows" /\ page = {} /\ pc' = "query" /\ model' = model + 1
           /\ mark'.ceiling = IF mark.frozen \/ (full /\ mark.frontier # 0)
                              THEN lowest(mark.ceiling, mark.frontier) ELSE mark.ceiling
           /\ mark' \in Mark /\ mark'.newest = mark.newest /\ mark'.at = mark.at
           /\ full' = FALSE
           /\ UNCHANGED <<now, hour, thing, conv, store, enabled, decided, wanted, raced, edits, stops,
                          mem, fresh, on, page, row, owed>>
  <1> DEFINE c == IF mark.frozen \/ (full /\ mark.frontier # 0)
                  THEN lowest(mark.ceiling, mark.frontier) ELSE mark.ceiling
  <1>1. mark \in Mark /\ mark.ceiling \in 0..(MaxNow + 1) /\ mark.frontier \in 0..(MaxNow + 1)
    BY DEF TypeInv, TypeOK, Mark
  <1>2. c \in 0..(MaxNow + 1)
    BY <1>1 DEF lowest
  <1>3. mark' = [mark EXCEPT !.ceiling = c]
    BY DEF EndModel
  <1> HIDE DEF c
  <1>4. mark' \in Mark /\ mark'.ceiling = c /\ mark'.newest = mark.newest /\ mark'.at = mark.at
    BY <1>1, <1>2, <1>3 DEF Mark
  <1>6. /\ pc = "rows" /\ page = {} /\ pc' = "query" /\ model' = model + 1 /\ full' = FALSE
        /\ UNCHANGED <<now, hour, thing, conv, store, enabled, decided, wanted, raced, edits, stops,
                       mem, fresh, on, page, row, owed>>
    BY DEF EndModel, Elsewhere, history
  <1> QED  BY <1>4, <1>6 DEF c

\* The Model after the last is the end of the scan.
LEMMA EndModelTyped == ASSUME TypeInv, EndModel PROVE TypeInv'
  <1>1. model <= Len(Models)
    BY EndModelIs DEF TypeInv, Placed
  <1>2. model' \in 1..(Len(Models) + 1)
    BY <1>1, EndModelIs, Counters, Bounds
  <1> QED  BY <1>2, EndModelIs DEF TypeInv, TypeOK, Placed, Places

\* The scan is over: its copy of the RuntimeState takes the new position.
LEMMA EndScanIs ==
    ASSUME TypeInv, EndScan
    PROVE  /\ pc = "query" /\ model = Len(Models) + 1 /\ pc' \in {"get", "rest"}
           /\ mem' \in RuntimeState
           /\ \/ mem'.watermark = newestSeen /\ mem'.seen = boundaryDocRefs
              \/ mem' = mem
           /\ mark' = NoMark /\ on' = {} /\ model' = 1
           /\ UNCHANGED <<now, hour, thing, conv, store, enabled, decided, wanted, raced, edits, stops,
                          fresh, page, full, row, owed>>
  <1>1. model > Len(Models)
    BY DEF EndScan
  <1>2. model = Len(Models) + 1
    BY <1>1, Counters, Bounds
  <1>3. mem \in RuntimeState /\ newestSeen \in Instants /\ boundaryDocRefs \subseteq Ids
    BY NewestSeenIs DEF TypeInv, TypeOK, boundaryDocRefs, Mark
  <1>4. \/ mem' = [mem EXCEPT !.watermark = newestSeen, !.seen = boundaryDocRefs]
        \/ mem' = mem
    BY DEF EndScan
  <1>5. /\ mem' \in RuntimeState
        /\ \/ mem'.watermark = newestSeen /\ mem'.seen = boundaryDocRefs
           \/ mem' = mem
    BY <1>3, <1>4 DEF RuntimeState
  <1>6. /\ pc = "query" /\ pc' \in {"get", "rest"} /\ mark' = NoMark /\ on' = {} /\ model' = 1
        /\ UNCHANGED <<now, hour, thing, conv, store, enabled, decided, wanted, raced, edits, stops,
                       fresh, page, full, row, owed>>
    BY DEF EndScan, Elsewhere, history
  <1> QED  BY <1>2, <1>5, <1>6

\* The end of the scan keeps the types.
LEMMA EndScanTyped == ASSUME TypeInv, EndScan PROVE TypeInv'
  <1>1. 1 \in 1..(Len(Models) + 1)
    BY Bounds
  <1> QED  BY <1>1, EndScanIs, LoadState DEF TypeInv, TypeOK, Placed, Places

\* The three ways through savePreservingHumanFields.
Saves == SaveWatermark \/ stampHeartbeat

\* A save re-reads, gives up, or writes what was merged; it touches nothing but the states.
LEMMA SavesIs ==
    ASSUME TypeInv, Saves
    PROVE  /\ pc \in {"get", "put", "rest", "beat"} /\ pc' \in {"idle", "rest", "put", "beat"}
           /\ \/ fresh' = store /\ UNCHANGED <<store, mem>>
              \/ pc' \in {"idle", "rest"} /\ UNCHANGED <<store, fresh>> /\ mem' \in {mem, loadState}
              \/ /\ pc \in {"put", "beat"} /\ pc' \in {"idle", "rest"}
                 /\ store' = Merged /\ mem' \in {Merged, loadState} /\ fresh' = loadState
           /\ store' \in RuntimeState /\ mem' \in RuntimeState /\ fresh' \in RuntimeState
           /\ stops' \in 0..MaxStops
           /\ UNCHANGED <<now, hour, thing, conv, enabled, decided, wanted, raced, edits,
                          on, model, page, full, row, owed, mark>>
  <1>1. stops' \in 0..MaxStops
    <2>1. stops' = stops \/ (stops < MaxStops /\ stops' = stops + 1)
      BY DEF Saves, SaveWatermark, stampHeartbeat, ReRead, SaveSkipped, savePreservingHumanFields, Elsewhere
    <2> QED  BY <2>1, Counters, Bounds
  <1>2. /\ pc \in {"get", "put", "rest", "beat"} /\ pc' \in {"idle", "rest", "put", "beat"}
        /\ \/ fresh' = store /\ UNCHANGED <<store, mem>>
           \/ pc' \in {"idle", "rest"} /\ UNCHANGED <<store, fresh>> /\ mem' \in {mem, loadState}
           \/ /\ pc \in {"put", "beat"} /\ pc' \in {"idle", "rest"}
              /\ store' = Merged /\ mem' \in {Merged, loadState} /\ fresh' = loadState
    BY DEF Saves, SaveWatermark, stampHeartbeat, ReRead, SaveSkipped, savePreservingHumanFields, Elsewhere
  <1>3. UNCHANGED <<now, hour, thing, conv, enabled, decided, wanted, raced, edits,
                    on, model, page, full, row, owed, mark>>
    BY DEF Saves, SaveWatermark, stampHeartbeat, ReRead, SaveSkipped, savePreservingHumanFields, Elsewhere, history
  <1>4. store' \in RuntimeState /\ mem' \in RuntimeState /\ fresh' \in RuntimeState
    <2>1. {store, mem, fresh, Merged, loadState} \subseteq RuntimeState
      BY MergedIs, LoadState DEF TypeInv, TypeOK
    <2> QED  BY <1>2, <2>1
  <1> QED  BY <1>1, <1>2, <1>3, <1>4

\* A save keeps the types.
LEMMA SavesTyped == ASSUME TypeInv, Saves PROVE TypeInv'
  <1>1. TypeOK'
    BY SavesIs DEF TypeInv, TypeOK, Places
  <1> QED  BY <1>1, SavesIs DEF TypeInv, Placed

\* A pass that ends early leaves nothing of its own.
LEMMA PassEndsIs ==
    ASSUME TypeInv, PassEnds
    PROVE  /\ pc' = "idle" /\ mem' = loadState /\ fresh' = loadState /\ mark' = NoMark
           /\ on' = {} /\ model' = 1 /\ page' = {} /\ full' = FALSE /\ row' = 0 /\ owed' = {}
           /\ stops' \in 0..MaxStops
           /\ UNCHANGED <<now, hour, thing, conv, store, enabled, decided, wanted, raced, edits>>
  <1>1. stops < MaxStops /\ stops' = stops + 1
    BY DEF PassEnds
  <1>2. stops' \in 0..MaxStops
    BY <1>1, Counters, Bounds
  <1> QED  BY <1>2 DEF PassEnds, NoPass, history

\* An early end keeps the types.
LEMMA PassEndsTyped == ASSUME TypeInv, PassEnds PROVE TypeInv'
  <1>1. 1 \in 1..(Len(Models) + 1) /\ 0 \in 0..MaxThings
    BY Bounds
  <1>2. TypeOK'
    BY <1>1, PassEndsIs, LoadState DEF TypeInv, TypeOK, Places
  <1> QED  BY <1>2, PassEndsIs DEF TypeInv, Placed

\* One Thing more, made now or without a time.
Grows == 
    \/ \E m \in ModelSet : MailArrives(m) \/ UserCreates(m)
    \/ \E c \in DOMAIN conv, m \in ModelSet : TurnCreates(c, m)

\* The new Thing has no time, the present one, or, from a Turn that backdates, an earlier one.
LEMMA GrowsIs ==
    ASSUME TypeInv, Grows
    PROVE  \E x \in Thing :
             /\ thing' = Append(thing, x) /\ x.by <= Len(conv) /\ Len(thing) < MaxThings
             /\ \/ x.at = 0
                \/ RoomAt(x.model) /\ x.at \in 1..now /\ (x.at = now \/ "backdate" \in Faults)
             /\ pc \in {"idle", "stamp", "rest"}
             /\ UNCHANGED <<now, hour, conv, store, enabled, decided, wanted, raced, edits, stops,
                            pc, mem, fresh, on, model, page, full, row, owed, mark>>
  <1>1. now \in 1..MaxNow /\ now \in 0..MaxNow /\ 0 \in 0..MaxNow
    BY Counters, Bounds
  <1>2. Len(conv) \in Nat /\ DOMAIN conv = 1..Len(conv)
    BY PlacesAre DEF TypeInv
  <1>3. \A m \in ModelSet, at \in 0..MaxNow, by \in Nat :
           LET x == [model |-> m, at |-> at, by |-> by]
           IN  x \in Thing /\ x.model = m /\ x.at = at /\ x.by = by
    BY DEF Thing
  <1>4. CASE \E m \in ModelSet : MailArrives(m) \/ UserCreates(m)
    <2>1. PICK m \in ModelSet : MailArrives(m) \/ UserCreates(m)
      BY <1>4
    <2>2. CASE MailArrives(m)
      <3> DEFINE x == [model |-> m, at |-> now, by |-> 0]
      <3>1. x \in Thing /\ x.model = m /\ x.at = now /\ x.by = 0
        BY <1>1, <1>3
      <3>2. /\ thing' = Append(thing, x) /\ RoomAt(m) /\ Len(thing) < MaxThings /\ pc = "idle"
            /\ UNCHANGED <<now, hour, conv, store, enabled, decided, wanted, raced, edits, stops,
                           pc, mem, fresh, on, model, page, full, row, owed, mark>>
        BY <2>2 DEF MailArrives, NewThing, pass, history
      <3> HIDE DEF x
      <3> QED  BY <1>1, <1>2, <3>1, <3>2
    <2>3. CASE UserCreates(m)
      <3> DEFINE x == [model |-> m, at |-> 0, by |-> 0]
      <3>1. x \in Thing /\ x.model = m /\ x.at = 0 /\ x.by = 0
        BY <1>1, <1>3
      <3>2. /\ thing' = Append(thing, x) /\ Len(thing) < MaxThings /\ pc \in {"idle", "stamp", "rest"}
            /\ UNCHANGED <<now, hour, conv, store, enabled, decided, wanted, raced, edits, stops,
                           pc, mem, fresh, on, model, page, full, row, owed, mark>>
        BY <2>3 DEF UserCreates, NewThing, Looking, pass, history
      <3> HIDE DEF x
      <3> QED  BY <1>2, <3>1, <3>2
    <2> QED  BY <2>1, <2>2, <2>3
  <1>5. CASE \E c \in DOMAIN conv, m \in ModelSet : TurnCreates(c, m)
    <2>1. PICK c \in DOMAIN conv, m \in ModelSet : TurnCreates(c, m)
      BY <1>5
    <2>2. PICK at \in 1..now : (at = now \/ "backdate" \in Faults) /\ NewThing(m, at, c)
      BY <2>1 DEF TurnCreates
    <2> DEFINE x == [model |-> m, at |-> at, by |-> c]
    <2>3. at \in 0..MaxNow /\ c \in Nat /\ c <= Len(conv)
      BY <1>1, <1>2, Bounds
    <2>4. x \in Thing /\ x.model = m /\ x.at = at /\ x.by = c
      BY <1>3, <2>3
    <2>5. /\ thing' = Append(thing, x) /\ RoomAt(m) /\ Len(thing) < MaxThings /\ pc = "rest"
          /\ UNCHANGED <<now, hour, conv, store, enabled, decided, wanted, raced, edits, stops,
                         pc, mem, fresh, on, model, page, full, row, owed, mark>>
      BY <2>1, <2>2 DEF TurnCreates, NewThing, pass, history
    <2> HIDE DEF x
    <2> QED  BY <2>2, <2>3, <2>4, <2>5
  <1> QED  BY <1>4, <1>5 DEF Grows

\* One Thing more: the others keep their places.
LEMMA ThingGrows ==
    ASSUME TypeOK, NEW x \in Thing, thing' = Append(thing, x)
    PROVE  /\ thing' \in Seq(Thing) /\ Len(thing') = Len(thing) + 1
           /\ DOMAIN thing' = 1..(Len(thing) + 1) /\ thing'[Len(thing) + 1] = x
           /\ \A t \in DOMAIN thing : t \in DOMAIN thing' /\ t # Len(thing) + 1 /\ thing'[t] = thing[t]
           /\ \A t \in DOMAIN thing' : t = Len(thing) + 1 \/ t \in DOMAIN thing
  <1>1. thing \in Seq(Thing)
    BY DEF TypeOK
  <1> QED  BY <1>1, PlacesAre

\* A new Thing fits the bounds.
LEMMA GrowsTyped == ASSUME TypeInv, Grows PROVE TypeInv'
  <1>1. PICK x \in Thing :
             /\ thing' = Append(thing, x) /\ x.by <= Len(conv) /\ Len(thing) < MaxThings
             /\ pc \in {"idle", "stamp", "rest"}
             /\ UNCHANGED <<now, hour, conv, store, enabled, decided, wanted, raced, edits, stops,
                            pc, mem, fresh, on, model, page, full, row, owed, mark>>
    BY GrowsIs
  <1>2. /\ thing' \in Seq(Thing) /\ Len(thing') = Len(thing) + 1
        /\ DOMAIN thing \subseteq DOMAIN thing'
        /\ \A t \in DOMAIN thing' : thing'[t].by <= Len(conv)
    BY <1>1, ThingGrows, Zenon DEF TypeInv, Placed
  <1>3. Len(thing') <= MaxThings
    BY <1>1, <1>2, PlacesAre, Bounds DEF TypeInv
  <1>4. TypeOK'
    BY <1>1, <1>2, <1>3 DEF TypeInv, TypeOK
  <1> QED  BY <1>1, <1>2, <1>4 DEF TypeInv, Placed

\* A Turn that calls adds a Conversation that is marked so, one that ends closes its own.
LEMMA TurnCallsIs ==
    ASSUME TypeInv, NEW c \in DOMAIN conv, NEW a \in Assistants, NEW t \in DOMAIN thing, TurnCalls(c, a, t)
    PROVE  \E x \in Conversation :
             /\ x.called /\ conv' = Append(conv, x) /\ pc = "rest"
             /\ UNCHANGED <<now, hour, thing, store, enabled, decided, wanted, raced, edits, stops,
                            pc, mem, fresh, on, model, page, full, row, owed, mark>>
  <1> DEFINE x == [assistant |-> a, subject |-> t, open |-> TRUE, called |-> TRUE]
  <1>1. t \in Ids
    BY PlacesAre DEF TypeInv
  <1>2. x \in Conversation /\ x.called
    BY <1>1 DEF Conversation
  <1>3. /\ conv' = Append(conv, x) /\ pc = "rest"
        /\ UNCHANGED <<now, hour, thing, store, enabled, decided, wanted, raced, edits, stops,
                       pc, mem, fresh, on, model, page, full, row, owed, mark>>
    BY DEF TurnCalls, pass, history
  <1> QED  BY <1>2, <1>3

\* A Turn that ends closes one Conversation.
LEMMA TurnEndsIs ==
    ASSUME TypeInv, NEW c \in DOMAIN conv, TurnEnds(c)
    PROVE  /\ conv' \in Seq(Conversation) /\ Len(conv') = Len(conv) /\ DOMAIN conv' = DOMAIN conv
           /\ \A i \in DOMAIN conv : /\ conv'[i].assistant = conv[i].assistant
                                     /\ conv'[i].subject = conv[i].subject
                                     /\ conv'[i].called = conv[i].called
           /\ pc = "rest"
           /\ UNCHANGED <<now, hour, thing, store, enabled, decided, wanted, raced, edits, stops,
                          pc, mem, fresh, on, model, page, full, row, owed, mark>>
  <1> DEFINE x == [conv[c] EXCEPT !.open = FALSE]
  <1>1. conv \in Seq(Conversation) /\ conv[c] \in Conversation
    BY PlacesAre DEF TypeInv, TypeOK
  <1>2. /\ x \in Conversation /\ x.assistant = conv[c].assistant /\ x.subject = conv[c].subject
        /\ x.called = conv[c].called
    BY <1>1 DEF Conversation
  <1>3. /\ conv' = [conv EXCEPT ![c] = x] /\ pc = "rest"
        /\ UNCHANGED <<now, hour, thing, store, enabled, decided, wanted, raced, edits, stops,
                       pc, mem, fresh, on, model, page, full, row, owed, mark>>
    BY DEF TurnEnds, pass, history
  <1> HIDE DEF x
  <1>4. conv' \in Seq(Conversation) /\ Len(conv') = Len(conv) /\ DOMAIN conv' = DOMAIN conv
    BY <1>1, <1>2, <1>3
  <1>5. \A i \in DOMAIN conv : conv'[i] = IF i = c THEN x ELSE conv[i]
    BY <1>1, <1>3
  <1> QED  BY <1>2, <1>3, <1>4, <1>5

\* The Turns keep the types.
LEMMA TurnsTyped == ASSUME TypeInv, Turns PROVE TypeInv'
  <1>1. PICK c \in DOMAIN conv : \/ TurnEnds(c)
                                 \/ \E m \in ModelSet : TurnCreates(c, m)
                                 \/ \E a \in Assistants, t \in DOMAIN thing : TurnCalls(c, a, t)
    BY DEF Turns
  <1>2. CASE TurnEnds(c)
    <2>1. TypeOK'
      BY <1>2, TurnEndsIs DEF TypeInv, TypeOK
    <2> QED  BY <1>2, <2>1, TurnEndsIs DEF TypeInv, Placed
  <1>3. CASE \E m \in ModelSet : TurnCreates(c, m)
    BY <1>3, GrowsTyped DEF Grows
  <1>4. CASE \E a \in Assistants, t \in DOMAIN thing : TurnCalls(c, a, t)
    <2>1. PICK x \in Conversation :
             /\ conv' = Append(conv, x) /\ pc = "rest"
             /\ UNCHANGED <<now, hour, thing, store, enabled, decided, wanted, raced, edits, stops,
                            pc, mem, fresh, on, model, page, full, row, owed, mark>>
      BY <1>4, TurnCallsIs
    <2>2. conv' \in Seq(Conversation) /\ Len(conv') = Len(conv) + 1
      BY <2>1, ConvGrows DEF TypeInv
    <2>3. \A t \in DOMAIN thing : thing[t].by <= Len(conv')
      <3>1. Len(conv) \in Nat /\ \A t \in DOMAIN thing : thing[t].by \in Nat /\ thing[t].by <= Len(conv)
        BY PlacesAre DEF TypeInv, Placed
      <3> QED  BY <2>2, <3>1
    <2>4. TypeOK'
      BY <2>1, <2>2 DEF TypeInv, TypeOK
    <2> QED  BY <2>1, <2>3, <2>4 DEF TypeInv, Placed
  <1> QED  BY <1>1, <1>2, <1>3, <1>4

\* The writers of the RuntimeState beside the scan.
LEMMA EditsAre ==
    ASSUME TypeInv, (\E p \in BOOLEAN : setPaused(p)) \/ loadDemo
    PROVE  /\ store' \in RuntimeState /\ edits' \in 0..MaxEdits /\ raced' \in BOOLEAN /\ wanted' \in BOOLEAN
           /\ \/ /\ store'.paused = wanted' /\ raced' = InTheGap
                 /\ store'.watermark = store.watermark /\ store'.seen = store.seen
              \/ /\ Demo /\ store'.paused = store.paused /\ wanted' = wanted /\ raced' = (raced \/ InTheGap)
                 /\ store'.watermark = now + 1
           /\ UNCHANGED <<now, hour, thing, conv, enabled, pc, mem, fresh, on, model, page, full, row, owed, mark,
                          decided, stops>>
  <1>1. store \in RuntimeState /\ now + 1 \in Instants
    BY Bounds DEF TypeInv, TypeOK, Instants
  <1>2. edits' \in 0..MaxEdits
    <2>1. edits < MaxEdits /\ edits' = edits + 1
      BY DEF setPaused, loadDemo
    <2> QED  BY <2>1, Counters, Bounds
  <1>3. InTheGap \in BOOLEAN /\ (raced \/ InTheGap) \in BOOLEAN
    BY DEF InTheGap
  <1>4. CASE \E p \in BOOLEAN : setPaused(p)
    <2>1. PICK p \in BOOLEAN : setPaused(p)
      BY <1>4
    <2>2. /\ [store EXCEPT !.paused = p] \in RuntimeState
          /\ [store EXCEPT !.paused = p].paused = p
          /\ [store EXCEPT !.paused = p].watermark = store.watermark
          /\ [store EXCEPT !.paused = p].seen = store.seen
      BY <1>1 DEF RuntimeState
    <2> QED  BY <1>2, <1>3, <2>1, <2>2 DEF setPaused, pass
  <1>5. CASE loadDemo
    <2> DEFINE s == [store EXCEPT !.watermark = now + 1, !.seen = {}]
    <2>1. s \in RuntimeState /\ s.paused = store.paused /\ s.watermark = now + 1
      BY <1>1 DEF RuntimeState
    <2>2. store' = s
      BY <1>5 DEF loadDemo
    <2> HIDE DEF s
    <2>3. wanted \in BOOLEAN
      BY DEF TypeInv, TypeOK
    <2> QED  BY <1>2, <1>3, <1>5, <2>1, <2>2, <2>3 DEF loadDemo, pass
  <1> QED  BY <1>4, <1>5

\* Writes by others keep the types.
LEMMA EditsTyped == ASSUME TypeInv, (\E p \in BOOLEAN : setPaused(p)) \/ loadDemo PROVE TypeInv'
  <1>1. TypeOK'
    BY EditsAre DEF TypeInv, TypeOK
  <1> QED  BY <1>1, EditsAre DEF TypeInv, Placed

\* The clock and the Assistants.
Drifts == (\E a \in Assistants : ToggleAssistant(a)) \/ SecondPasses \/ HourPasses

\* The clock and the switches of the Assistants change nothing else.
LEMMA DriftsAre ==
    ASSUME TypeInv, Drifts
    PROVE  /\ now' \in 1..MaxNow /\ now <= now' /\ (now' # now => pc \in {"idle", "stamp", "rest"})
           /\ hour' \in 0..MaxHours /\ enabled' \subseteq Assistants /\ edits' \in 0..MaxEdits
           /\ UNCHANGED <<thing, conv, store, pc, mem, fresh, on, model, page, full, row, owed, mark,
                          decided, wanted, raced, stops>>
  <1>1. /\ now \in 1..MaxNow /\ hour \in 0..MaxHours /\ edits \in 0..MaxEdits
    BY Counters
  <1>2. /\ now' = now \/ (now < MaxNow /\ now' = now + 1 /\ pc \in {"idle", "stamp", "rest"})
        /\ hour' = hour \/ (hour < MaxHours /\ hour' = hour + 1)
        /\ edits' = edits \/ (edits < MaxEdits /\ edits' = edits + 1)
    BY DEF Drifts, ToggleAssistant, SecondPasses, HourPasses, Looking
  <1>3. enabled' \subseteq Assistants
    BY DEF Drifts, ToggleAssistant, SecondPasses, HourPasses, TypeInv, TypeOK
  <1>4. UNCHANGED <<thing, conv, store, pc, mem, fresh, on, model, page, full, row, owed, mark,
                    decided, wanted, raced, stops>>
    BY DEF Drifts, ToggleAssistant, SecondPasses, HourPasses, pass, history
  <1>5. now' \in 1..MaxNow /\ now <= now' /\ hour' \in 0..MaxHours /\ edits' \in 0..MaxEdits
    BY <1>1, <1>2, Bounds
  <1> QED  BY <1>2, <1>3, <1>4, <1>5

\* The clock stays within its bounds.
LEMMA DriftsTyped == ASSUME TypeInv, Drifts PROVE TypeInv'
  <1>1. TypeOK'
    BY DriftsAre DEF TypeInv, TypeOK
  <1> QED  BY <1>1, DriftsAre DEF TypeInv, Placed

\* The actions, sorted by what they change.
LEMMA Steps ==
    ASSUME Next
    PROVE  \/ StartScan \/ stampMissingCreatedAt \/ StampsDone \/ QueryModel \/ QueryFails \/ NextRow
           \/ (\E a \in Assistants : BirthFor(a)) \/ Decide \/ EndModel \/ EndScan
           \/ Saves \/ PassEnds \/ Grows \/ Drifts
           \/ (\E c \in DOMAIN conv : TurnEnds(c))
           \/ (\E c \in DOMAIN conv, a \in Assistants, t \in DOMAIN thing : TurnCalls(c, a, t))
           \/ ((\E p \in BOOLEAN : setPaused(p)) \/ loadDemo)
  <1>1. CASE Pass
    BY <1>1 DEF Pass, Saves
  <1>2. CASE Turns
    BY <1>2 DEF Turns, Grows
  <1>3. CASE Others
    BY <1>3 DEF Others, Grows, Drifts
  <1> QED  BY <1>1, <1>2, <1>3 DEF Next

\* Every step keeps the types and the places.
LEMMA NextTyped == TypeInv /\ [Next]_vars => TypeInv'
  <1> SUFFICES ASSUME TypeInv, [Next]_vars PROVE TypeInv'
    OBVIOUS
  <1>1. CASE Next
    <2>1. Turns <=> \/ (\E c \in DOMAIN conv : TurnEnds(c))
                    \/ (\E c \in DOMAIN conv, m \in ModelSet : TurnCreates(c, m))
                    \/ (\E c \in DOMAIN conv, a \in Assistants, t \in DOMAIN thing : TurnCalls(c, a, t))
      BY DEF Turns
    <2> QED  BY <1>1, <2>1, Steps, StartScanTyped, StampTyped, StampsDoneTyped, QueryModelTyped, QueryFailsTyped,
                NextRowTyped, BirthForTyped, DecideTyped, EndModelTyped, EndScanTyped, SavesTyped,
                PassEndsTyped, GrowsTyped, DriftsTyped, TurnsTyped, EditsTyped
  <1>2. CASE UNCHANGED vars
    <2>1. UNCHANGED <<now, hour, thing, conv, store, enabled, pc, mem, fresh, on, model, page, full, row,
                      owed, mark, decided, wanted, raced, edits, stops>>
      BY <1>2 DEF vars, pass, history
    <2>2. TypeOK'
      BY <2>1 DEF TypeInv, TypeOK
    <2> QED  BY <2>1, <2>2 DEF TypeInv, Placed
  <1> QED  BY <1>1, <1>2

\* The types and the places hold throughout.
LEMMA Typed == Spec => []TypeInv
  BY InitTyped, NextTyped, PTL DEF Spec

\* The clock, the Things, the Conversations, the three copies of the RuntimeState and the
\* bookkeeping of a pass keep their types.
THEOREM TypeCorrect == Spec => []TypeOK
  <1>1. TypeInv => TypeOK
    BY DEF TypeInv
  <1> QED  BY <1>1, Typed, PTL

-----------------------------------------------------------------------------
(* The RuntimeState, which others write as well.                             *)

\* Every step but a save and a write of somebody else leaves the stored state alone, and
\* does not enter the gap between a re-read and the write that follows it.
Edits == (\E p \in BOOLEAN : setPaused(p)) \/ loadDemo
Aside == UNCHANGED <<store, raced, wanted>> /\ (pc' \notin {"put", "beat"} \/ UNCHANGED <<pc, fresh>>)

\* A step saves the RuntimeState, is a write of another, or leaves the kill switch and the gap alone.
LEMMA StateSteps == ASSUME TypeInv, [Next]_vars PROVE Saves \/ Edits \/ Aside
  <1>1. ASSUME StartScan \/ stampMissingCreatedAt \/ StampsDone PROVE Aside
    BY <1>1 DEF StartScan, stampMissingCreatedAt, StampsDone, Elsewhere, history, Aside
  <1>2. ASSUME QueryModel \/ QueryFails PROVE Aside
    BY <1>2, QueryModelIs, QueryFailsIs DEF Aside
  <1>3. ASSUME NextRow PROVE Aside
    BY <1>3, NextRowIs DEF Aside
  <1>4. ASSUME NEW a \in Assistants, BirthFor(a) PROVE Aside
    BY <1>4, BirthForIs DEF Aside
  <1>5. ASSUME Decide \/ EndModel \/ EndScan \/ PassEnds PROVE Aside
    BY <1>5, DecideIs, EndModelIs, EndScanIs, PassEndsIs DEF Aside
  <1>6. ASSUME Grows \/ Drifts PROVE Aside
    BY <1>6, GrowsIs, DriftsAre DEF Aside
  <1>7. ASSUME NEW c \in DOMAIN conv, TurnEnds(c) PROVE Aside
    BY <1>7, TurnEndsIs DEF Aside
  <1>8. ASSUME NEW c \in DOMAIN conv, NEW a \in Assistants, NEW t \in DOMAIN thing, TurnCalls(c, a, t) PROVE Aside
    BY <1>8, TurnCallsIs DEF Aside
  <1>9. CASE UNCHANGED vars
    BY <1>9 DEF vars, pass, history, Aside
  <1> QED  BY <1>1, <1>2, <1>3, <1>4, <1>5, <1>6, <1>7, <1>8, <1>9, Steps DEF Edits

\* In the gap the re-read copy is what the store has, unless somebody wrote there.
Gap ==
    pc \in {"put", "beat"} /\ ~raced => fresh.paused = wanted /\ fresh.watermark = store.watermark

\* Nobody has asked for a pause yet.
LEMMA InitKept == Init => KillSwitchKept /\ Gap
  BY LoadState DEF Init, KillSwitchKept, Gap

\* A save carries the re-read kill switch, which is the wish unless a write fell in the gap.
LEMMA NextKept == ASSUME TypeInv, KillSwitchKept, Gap, [Next]_vars PROVE KillSwitchKept' /\ Gap'
  <1>1. CASE Aside
    BY <1>1 DEF Aside, KillSwitchKept, Gap
  <1>2. CASE Saves
    <2>1. Merged.paused = fresh.paused
      BY MergedIs DEF TypeInv, TypeOK
    <2> QED  BY <1>2, <2>1, SavesIs DEF KillSwitchKept, Gap
  <1>3. CASE Edits
    <2>1. raced \in BOOLEAN /\ InTheGap \in BOOLEAN
      BY DEF TypeInv, TypeOK, InTheGap
    <2> QED  BY <1>3, <2>1, EditsAre DEF Edits, KillSwitchKept, Gap, InTheGap
  <1> QED  BY <1>1, <1>2, <1>3, StateSteps

\* The kill switch and the gap hold throughout.
LEMMA Kept == Spec => [](TypeInv /\ KillSwitchKept /\ Gap)
  <1>1. TypeInv /\ KillSwitchKept /\ Gap /\ [Next]_vars => (TypeInv /\ KillSwitchKept /\ Gap)'
    BY NextTyped, NextKept
  <1>2. Init => TypeInv /\ KillSwitchKept /\ Gap
    BY InitTyped, InitKept
  <1> QED  BY <1>1, <1>2, PTL DEF Spec

\* savePreservingHumanFields never reverts `just pause` or `just resume`, however often a
\* pass saves or dies, save for a write between its re-read and its own write.
THEOREM KillSwitchIsKept == Spec => []KillSwitchKept
  BY Kept, PTL

\* Nothing is ahead of the clock, and no position more than the demo loader's one second.
Timely ==
    /\ \A t \in DOMAIN thing : thing[t].at <= now
    /\ store.watermark <= now + 1 /\ mem.watermark <= now + 1 /\ fresh.watermark <= now + 1
    /\ mark.newest <= now + 1

\* There are no Things yet.
LEMMA InitTimely == Init => Timely
  BY LoadState DEF Init, Timely

\* A step of a pass moves neither the clock nor a Thing.
LEMMA TimelyPass ==
    ASSUME TypeInv, Timely, UNCHANGED <<now, thing, store, fresh>>,
           mem'.watermark <= now + 1, mark'.newest <= now + 1
    PROVE  Timely'
  BY DEF Timely

\* What was not ahead of the clock is not ahead of a later one.
LEMMA Later ==
    ASSUME NEW a \in Nat, NEW b \in Nat, a <= b, NEW n \in Nat
    PROVE  (n <= a => n <= b) /\ (n <= a + 1 => n <= b + 1)
  OBVIOUS

\* No step dates a Thing or a pass ahead of the clock.
LEMMA NextTimely == ASSUME TypeInv, Timely, [Next]_vars PROVE Timely'
  <1>0. now \in Nat
    BY Counters, Bounds
  <1>1. CASE StartScan
    <2>1. mem'.watermark = store.watermark
      BY <1>1, RenewedIs DEF StartScan, TypeInv, TypeOK
    <2>2. mark'.newest = store.watermark \/ mark' = mark
      BY <1>1, LoadState DEF StartScan, Mark
    <2> QED  BY <1>1, <2>1, <2>2, TimelyPass DEF StartScan, Elsewhere, Timely
  <1>2. CASE stampMissingCreatedAt
    BY <1>0, <1>2, StampIs DEF stampMissingCreatedAt, Timely
  <1>3. CASE StampsDone \/ QueryModel \/ QueryFails
    <2>1. UNCHANGED <<now, thing, store, fresh, mem>> /\ mark'.newest = mark.newest
      BY <1>3, QueryModelIs, QueryFailsIs DEF StampsDone, Elsewhere
    <2> QED  BY <2>1, TimelyPass DEF Timely
  <1>4. CASE NextRow
    <2>1. UNCHANGED <<now, thing, store, fresh, mem>> /\ mark'.newest = mark.newest
      BY <1>4, NextRowIs, FreezeIs DEF TypeInv, TypeOK
    <2> QED  BY <2>1, TimelyPass DEF Timely
  <1>5. ASSUME NEW a \in Assistants, BirthFor(a) PROVE Timely'
    <2>1. /\ UNCHANGED <<now, thing, store, fresh>> /\ mem'.watermark = mem.watermark
          /\ mark'.newest = mark.newest
      BY <1>5, BirthForIs, FreezeIs DEF TypeInv, TypeOK
    <2> QED  BY <2>1, TimelyPass DEF Timely
  <1>6. CASE Decide
    <2>1. thing[row].at <= now + 1 /\ mark.newest <= now + 1
      BY <1>0, <1>6, DecideIs, PlacesAre DEF Timely, TypeInv
    <2> QED  BY <1>6, <2>1, DecideIs, TimelyPass DEF Timely
  <1>7. CASE EndModel
    BY <1>7, EndModelIs, TimelyPass DEF Timely
  <1>8. CASE EndScan
    <2>1. newestSeen <= now + 1
      <3>1. newestSeen \in Int /\ newestSeen <= mark.newest /\ mark.newest \in Int
        BY NewestSeenIs DEF TypeInv, TypeOK, Mark, Instants
      <3> QED  BY <1>0, <3>1 DEF Timely
    <2>2. mem'.watermark <= now + 1 /\ mark'.newest <= now + 1
      BY <1>0, <1>8, <2>1, EndScanIs, LoadState DEF Timely
    <2> QED  BY <1>8, <2>2, EndScanIs, TimelyPass
  <1>9. CASE Saves \/ PassEnds
    <2>1. Merged.watermark <= now + 1 /\ loadState.watermark <= now + 1 /\ NoMark.newest <= now + 1
      BY <1>0, MergedIs, LoadState DEF TypeInv, TypeOK, Timely
    <2> QED  BY <1>9, <2>1, SavesIs, PassEndsIs DEF Timely
  <1>10. CASE Grows
    <2>1. PICK x \in Thing :
             /\ thing' = Append(thing, x) /\ (x.at = 0 \/ x.at \in 1..now)
             /\ UNCHANGED <<now, store, mem, fresh, mark>>
      BY <1>10, GrowsIs
    <2>2. x.at <= now
      BY <1>0, <2>1
    <2>3. \A t \in DOMAIN thing' : thing'[t].at <= now
      BY <2>1, <2>2, ThingGrows, Zenon DEF Timely, TypeInv
    <2> QED  BY <2>1, <2>3 DEF Timely
  <1>11. CASE Drifts
    <2>1. /\ now' \in Nat /\ now <= now' /\ UNCHANGED <<thing, store, mem, fresh, mark>>
      BY <1>11, DriftsAre, Bounds
    <2>2. /\ \A t \in DOMAIN thing : thing[t].at \in Nat
          /\ store.watermark \in Nat /\ mem.watermark \in Nat /\ fresh.watermark \in Nat /\ mark.newest \in Nat
      <3>1. \A t \in DOMAIN thing : thing[t].at \in Nat
        BY PlacesAre, Bounds DEF TypeInv
      <3>2. \A n \in Instants : n \in Nat
        BY Bounds DEF Instants
      <3>3. {store, mem, fresh} \subseteq RuntimeState /\ mark \in Mark
        BY DEF TypeInv, TypeOK
      <3> QED  BY <3>1, <3>2, <3>3 DEF RuntimeState, Mark
    <2>3. \A n \in Nat : (n <= now => n <= now') /\ (n <= now + 1 => n <= now' + 1)
      BY <1>0, <2>1, Later, Zenon
    <2> QED  BY <2>1, <2>2, <2>3 DEF Timely
  <1>12. ASSUME NEW c \in DOMAIN conv, TurnEnds(c) PROVE Timely'
    BY <1>12, TurnEndsIs DEF Timely
  <1>13. ASSUME NEW c \in DOMAIN conv, NEW a \in Assistants, NEW t \in DOMAIN thing, TurnCalls(c, a, t)
         PROVE  Timely'
    BY <1>13, TurnCallsIs DEF Timely
  <1>14. CASE Edits
    BY <1>0, <1>14, EditsAre DEF Edits, Timely
  <1>15. CASE UNCHANGED vars
    BY <1>15 DEF vars, pass, Timely
  <1> QED  BY <1>1, <1>2, <1>3, <1>4, <1>5, <1>6, <1>7, <1>8, <1>9, <1>10, <1>11, <1>12, <1>13, <1>14, <1>15,
              Steps DEF Edits

\* The scan never pulls the watermark back behind what the demo loader set, save for a
\* write in the gap; nor does the demo loader behind what the scan reached.
THEOREM WatermarkGoesForward == Spec => WatermarkOnlyForward
  <1> DEFINE I == TypeInv /\ KillSwitchKept /\ Gap /\ Timely
             F == ~raced' => store'.watermark >= store.watermark
  <1>1. I /\ [Next]_vars => I'
    BY NextTyped, NextKept, NextTimely
  <1>2. Init => I
    BY InitTyped, InitKept, InitTimely
  <1>3. I /\ [Next]_vars => [F]_vars
    <2> SUFFICES ASSUME I, [Next]_vars PROVE F
      OBVIOUS
    <2>1. store.watermark \in Int /\ fresh.watermark \in Int /\ mem.watermark \in Int /\ now \in Int
      BY Counters DEF TypeInv, TypeOK, RuntimeState, Instants
    <2>2. CASE Aside
      BY <2>1, <2>2 DEF Aside
    <2>3. CASE Saves
      <3>1. Merged.watermark >= fresh.watermark
        BY <2>1, MergedIs DEF TypeInv, TypeOK
      <3> QED  BY <2>1, <2>3, <3>1, SavesIs DEF Gap
    <2>4. CASE Edits
      BY <2>1, <2>4, EditsAre DEF Edits, Timely
    <2> QED  BY <2>2, <2>3, <2>4, StateSteps
  <1> HIDE DEF I, F
  <1>4. Spec => [][F]_vars
    BY <1>1, <1>2, <1>3, PTL DEF Spec
  <1> QED  BY <1>4 DEF F, WatermarkOnlyForward

-----------------------------------------------------------------------------
(* Births.                                                                   *)

\* A Conversation is born of a Thing, or called, or ends, or none of these.
ConvStays == UNCHANGED conv /\ (pc' = "birth" => pc = "birth" /\ UNCHANGED <<row, thing>>)

\* What a step may do to the Conversations.
LEMMA ConvSteps ==
    ASSUME TypeInv, [Next]_vars
    PROVE  \/ \E a \in Assistants : BirthFor(a)
           \/ \E c \in DOMAIN conv : TurnEnds(c)
           \/ \E c \in DOMAIN conv, a \in Assistants, t \in DOMAIN thing : TurnCalls(c, a, t)
           \/ NextRow
           \/ ConvStays
  <1>1. ASSUME StartScan \/ stampMissingCreatedAt \/ StampsDone PROVE ConvStays
    BY <1>1 DEF StartScan, stampMissingCreatedAt, StampsDone, Elsewhere, ConvStays
  <1>2. ASSUME QueryModel \/ QueryFails \/ Decide \/ EndModel \/ EndScan \/ PassEnds \/ Saves PROVE ConvStays
    BY <1>2, QueryModelIs, QueryFailsIs, DecideIs, EndModelIs, EndScanIs, PassEndsIs, SavesIs DEF ConvStays
  <1>3. ASSUME Grows \/ Drifts PROVE ConvStays
    BY <1>3, GrowsIs, DriftsAre DEF ConvStays
  <1>4. ASSUME Edits PROVE ConvStays
    BY <1>4, EditsAre DEF Edits, ConvStays
  <1>5. CASE UNCHANGED vars
    BY <1>5 DEF vars, pass, ConvStays
  <1> QED  BY <1>1, <1>2, <1>3, <1>4, <1>5, Steps DEF Edits

\* There are no Conversations yet.
LEMMA InitBorn == Init => BornOnce
  BY DEF Init, BornOnce

\* A birth follows a look for a Conversation about the row, and no other step comes between.
LEMMA NextBorn == ASSUME TypeInv, BornOnce, [Next]_vars PROVE BornOnce'
  <1>1. ASSUME NEW a \in Assistants, BirthFor(a), conv' # conv PROVE BornOnce'
    <2> DEFINE x == [assistant |-> a, subject |-> row, open |-> TRUE, called |-> FALSE]
    <2>1. row \in Ids
      BY <1>1, BirthForIs, PlacesAre DEF TypeInv
    <2>2. x \in Conversation /\ x.assistant = a /\ x.subject = row
      BY <2>1 DEF Conversation
    <2>3. conv' = Append(conv, x) /\ ~conversationExistsFor(a, row)
      BY <1>1, BirthForIs
    <2> HIDE DEF x
    <2>4. /\ DOMAIN conv' = 1..(Len(conv) + 1) /\ conv'[Len(conv) + 1] = x
          /\ \A i \in DOMAIN conv : conv'[i] = conv[i]
          /\ DOMAIN conv = 1..Len(conv) /\ Len(conv) \in Nat
      BY <2>2, <2>3, ConvGrows, PlacesAre DEF TypeInv
    <2>5. \A i \in DOMAIN conv : ~(conv'[i].assistant = x.assistant /\ conv'[i].subject = x.subject)
      BY <2>2, <2>3, <2>4 DEF conversationExistsFor
    <2>6. \A i, j \in DOMAIN conv' : i < j => i \in DOMAIN conv /\ (j \in DOMAIN conv \/ j = Len(conv) + 1)
      BY <2>4
    <2> QED  BY <2>4, <2>5, <2>6 DEF BornOnce
  <1>2. ASSUME NEW c \in DOMAIN conv, TurnEnds(c) PROVE BornOnce'
    BY <1>2, TurnEndsIs DEF BornOnce
  <1>3. ASSUME NEW c \in DOMAIN conv, NEW a \in Assistants, NEW t \in DOMAIN thing, TurnCalls(c, a, t)
        PROVE  BornOnce'
    <2>1. PICK x \in Conversation : x.called /\ conv' = Append(conv, x)
      BY <1>3, TurnCallsIs
    <2>2. /\ DOMAIN conv' = 1..(Len(conv) + 1) /\ conv'[Len(conv) + 1] = x
          /\ \A i \in DOMAIN conv : conv'[i] = conv[i]
          /\ DOMAIN conv = 1..Len(conv) /\ Len(conv) \in Nat
      BY <2>1, ConvGrows, PlacesAre DEF TypeInv
    <2>3. \A i, j \in DOMAIN conv' : i < j => i \in DOMAIN conv /\ (j \in DOMAIN conv \/ j = Len(conv) + 1)
      BY <2>2
    <2> QED  BY <2>1, <2>2, <2>3 DEF BornOnce
  <1>4. ASSUME UNCHANGED conv PROVE BornOnce'
    BY <1>4 DEF BornOnce
  <1>5. NextRow => UNCHANGED conv
    BY NextRowIs
  <1> QED  BY <1>1, <1>2, <1>3, <1>4, <1>5, ConvSteps DEF ConvStays

\* conversationExistsFor is asked before every birth: whatever is looked at again after a
\* restart, a freeze or a failed save, no Assistant is started a second time for a Thing.
THEOREM BornAtMostOnce == Spec => []BornOnce
  <1>1. TypeInv /\ BornOnce /\ [Next]_vars => (TypeInv /\ BornOnce)'
    BY NextTyped, NextBorn
  <1>2. Init => TypeInv /\ BornOnce
    BY InitTyped, InitBorn
  <1> QED  BY <1>1, <1>2, PTL DEF Spec

\* While births are made for a Thing, the Conversation that made it stays finished.
Ripe == pc = "birth" => ~isConversationRunning(thing[row].by)

\* What is up for birth stays ripe: no Conversation is opened again.
LEMMA NextRipe == ASSUME "get" \notin Faults, TypeInv, Ripe, [Next]_vars PROVE Ripe'
  <1>1. ASSUME NEW a \in Assistants, BirthFor(a) PROVE Ripe'
    <2> SUFFICES ASSUME pc' = "birth" PROVE ~isConversationRunning(thing[row].by)'
      BY DEF Ripe
    <2>1. row \in DOMAIN thing /\ UNCHANGED <<thing, row>> /\ pc = "birth"
      BY <1>1, BirthForIs
    <2>2. thing[row].by \in Nat /\ thing[row].by <= Len(conv)
      BY <2>1, PlacesAre DEF TypeInv, Placed
    <2>3. thing[row].by # 0 => thing[row].by \in DOMAIN conv
      BY <2>2, PlacesAre DEF TypeInv
    <2>4. \A i \in DOMAIN conv : conv'[i] = conv[i]
      <3>1. CASE UNCHANGED conv
        BY <3>1
      <3>2. CASE conv' = Append(conv, [assistant |-> a, subject |-> row, open |-> TRUE, called |-> FALSE])
        <4>1. row \in Ids
          BY <2>1, PlacesAre DEF TypeInv
        <4>2. [assistant |-> a, subject |-> row, open |-> TRUE, called |-> FALSE] \in Conversation
          BY <4>1 DEF Conversation
        <4> QED  BY <3>2, <4>2, ConvGrows DEF TypeInv
      <3> QED  BY <1>1, <3>1, <3>2, BirthForIs
    <2> QED  BY <2>1, <2>3, <2>4 DEF Ripe, isConversationRunning
  <1>2. ASSUME NEW c \in DOMAIN conv, TurnEnds(c) PROVE Ripe'
    BY <1>2, TurnEndsIs DEF Ripe
  <1>3. ASSUME NEW c \in DOMAIN conv, NEW a \in Assistants, NEW t \in DOMAIN thing, TurnCalls(c, a, t) PROVE Ripe'
    BY <1>3, TurnCallsIs DEF Ripe
  <1>4. CASE NextRow
    BY <1>4, NextRowIs DEF Ripe, isConversationRunning
  <1>5. CASE ConvStays
    BY <1>5 DEF ConvStays, Ripe, isConversationRunning
  <1> QED  BY <1>1, <1>2, <1>3, <1>4, <1>5, ConvSteps

\* No Assistant is started about a Thing whose own Conversation is unfinished: it was
\* finished when the row was taken up, and nothing but a Turn could open it again.  A read
\* of that Conversation that fails counts as finished and is left out here.
THEOREM DoesNotFeedOnItself == ASSUME "get" \notin Faults PROVE Spec => NeverFeedsOnItself
  <1> DEFINE I == TypeInv /\ Ripe
             F == \A i \in DOMAIN conv' \ DOMAIN conv :
                     ~conv'[i].called => ~isConversationRunning(thing[conv'[i].subject].by)
  <1>1. I /\ [Next]_vars => I'
    BY NextTyped, NextRipe
  <1>2. Init => I
    BY InitTyped DEF Init, Ripe
  <1>3. I /\ [Next]_vars => [F]_vars
    <2> SUFFICES ASSUME I, [Next]_vars PROVE F
      OBVIOUS
    <2>1. ASSUME NEW a \in Assistants, BirthFor(a), conv' # conv PROVE F
      <3> DEFINE x == [assistant |-> a, subject |-> row, open |-> TRUE, called |-> FALSE]
      <3>1. row \in Ids /\ pc = "birth"
        BY <2>1, BirthForIs, PlacesAre DEF TypeInv
      <3>2. x \in Conversation /\ x.subject = row
        BY <3>1 DEF Conversation
      <3>3. conv' = Append(conv, x)
        BY <2>1, BirthForIs
      <3> HIDE DEF x
      <3>4. /\ DOMAIN conv' = 1..(Len(conv) + 1) /\ conv'[Len(conv) + 1] = x
            /\ DOMAIN conv = 1..Len(conv) /\ Len(conv) \in Nat
        BY <3>2, <3>3, ConvGrows, PlacesAre DEF TypeInv
      <3>5. \A i \in DOMAIN conv' \ DOMAIN conv : i = Len(conv) + 1
        BY <3>4
      <3> QED  BY <3>1, <3>2, <3>4, <3>5 DEF Ripe
    <2>2. ASSUME NEW c \in DOMAIN conv, NEW a \in Assistants, NEW t \in DOMAIN thing, TurnCalls(c, a, t)
          PROVE  F
      <3>1. PICK x \in Conversation : x.called /\ conv' = Append(conv, x)
        BY <2>2, TurnCallsIs
      <3>2. /\ DOMAIN conv' = 1..(Len(conv) + 1) /\ conv'[Len(conv) + 1] = x
            /\ DOMAIN conv = 1..Len(conv) /\ Len(conv) \in Nat
        BY <3>1, ConvGrows, PlacesAre DEF TypeInv
      <3>3. \A i \in DOMAIN conv' \ DOMAIN conv : i = Len(conv) + 1
        BY <3>2
      <3> QED  BY <3>1, <3>2, <3>3
    <2>3. ASSUME DOMAIN conv' = DOMAIN conv PROVE F
      BY <2>3
    <2>4. ASSUME NEW c \in DOMAIN conv, TurnEnds(c) PROVE F
      BY <2>3, <2>4, TurnEndsIs
    <2>5. NextRow => UNCHANGED conv
      BY NextRowIs
    <2> QED  BY <2>1, <2>2, <2>3, <2>4, <2>5, ConvSteps DEF ConvStays
  <1> HIDE DEF I, F
  <1>4. Spec => [][F]_vars
    BY <1>1, <1>2, <1>3, PTL DEF Spec
  <1> QED  BY <1>4 DEF F, NeverFeedsOnItself

-----------------------------------------------------------------------------
(* The position of the scan.                                                 *)

\* What the position is safe from: another writer moves the watermark, or a Thing is dated
\* behind it, or more Things of a Model come in one second than a page holds.
AloneOnTheWatermark == ~Demo /\ "backdate" \notin Faults /\ MaxPerSecond < PageSize

\* A watermark w with the Things d decided at its second passes over nothing.
Safe(w, d) ==
    /\ \A t \in DOMAIN thing : thing[t].at # 0 /\ thing[t].at < w => t \in decided
    /\ \A t \in d : t \in DOMAIN thing /\ t \in decided /\ thing[t].at = w
    /\ w <= now

AllSafe ==
    /\ Safe(store.watermark, store.seen)
    /\ Safe(mem.watermark, mem.seen)
    /\ Safe(fresh.watermark, fresh.seen)

Of(m, s) == {t \in DOMAIN thing : thing[t].at = s /\ thing[t].model = m}

FewPerSecond == \A m \in ModelSet, s \in 1..MaxNow : Cardinality(Of(m, s)) <= MaxPerSecond

\* What the scan notes of a pass.
Marked == mark.newest <= now /\ mark.at \subseteq decided \cap DOMAIN thing

Undecided(m) == {t \in DOMAIN thing : thing[t].model = m /\ thing[t].at # 0 /\ t \notin decided}

\* What the Models that are done leave undecided is at or after the ceiling.
Done ==
    pc \in {"query", "rows", "birth"} =>
        \A i \in 1..(model - 1) : \A t \in Undecided(Models[i]) :
            mark.ceiling # 0 /\ mark.ceiling <= thing[t].at

\* The rows of this Model's page that are not decided yet, oldest first.
Left == page \cup (IF pc = "birth" THEN {row} ELSE {})

Ordered ==
    /\ \A p \in Left : thing[p].model = Models[model] /\ mem.watermark <= thing[p].at
    /\ pc = "birth" => \A p \in page : thing[row].at <= thing[p].at

\* This Model leaves nothing undecided before its frontier.
Front ==
    /\ \A t \in Undecided(Models[model]) : mark.frontier <= thing[t].at
    /\ mark.frozen => mark.frontier # 0

\* Until the Model is frozen, only what did not fit the page is undecided beside its rows.
Beyond ==
    ~mark.frozen => \A t \in Undecided(Models[model]) \ Left :
                       full /\ \A p \in Left : thing[p].at <= thing[t].at

\* A full page P of which nothing has been decided yet: what is gone was seen before.
AllSeen(P) ==
    /\ Cardinality(P) >= PageSize
    /\ \A t \in P : thing[t].model = Models[model]
    /\ P \subseteq Left \cup mem.seen

NoFrontier == ~mark.frozen /\ full /\ mark.frontier = 0 => \E P \in SUBSET DOMAIN thing : AllSeen(P)

InModel == pc \in {"rows", "birth"} => Ordered /\ Front /\ Beyond /\ NoFrontier

Inv == TypeInv /\ Timely /\ AllSafe /\ FewPerSecond /\ Marked /\ Done /\ InModel

\* Positions, times and places are numbers.
LEMMA Numbers ==
    ASSUME TypeInv
    PROVE  /\ now \in Nat /\ now >= 1
           /\ \A t \in DOMAIN thing : thing[t].at \in Nat /\ thing[t].at <= MaxNow
           /\ store.watermark \in Instants /\ mem.watermark \in Instants /\ fresh.watermark \in Instants
           /\ mem.watermark \in Nat /\ mem.watermark >= 1
           /\ mark.newest \in Nat /\ mark.ceiling \in Nat /\ mark.frontier \in Nat
           /\ mark.ceiling \in 0..(MaxNow + 1) /\ mark.frontier \in 0..(MaxNow + 1)
           /\ mem.watermark \in 1..(MaxNow + 1) /\ mark.frozen \in BOOLEAN /\ full \in BOOLEAN
  <1>1. now \in Nat /\ now >= 1
    BY Counters, Bounds
  <1>2. \A t \in DOMAIN thing : thing[t].at \in Nat /\ thing[t].at <= MaxNow
    BY PlacesAre, Bounds DEF TypeInv
  <1>3. {store, mem, fresh} \subseteq RuntimeState /\ mark \in Mark /\ full \in BOOLEAN
    BY DEF TypeInv, TypeOK
  <1>4. \A n \in 1..(MaxNow + 1) : n \in Nat /\ n >= 1
    BY Bounds
  <1>5. \A n \in 0..(MaxNow + 1) : n \in Nat
    BY Bounds
  <1> QED  BY <1>1, <1>2, <1>3, <1>4, <1>5 DEF RuntimeState, Mark, Instants

\* How time, Things and decisions move: a Thing gets its time now, and keeps it.
Moves ==
    /\ now <= now' /\ decided \subseteq decided' /\ DOMAIN thing \subseteq DOMAIN thing'
    /\ \A t \in DOMAIN thing : thing'[t].at = thing[t].at \/ (thing[t].at = 0 /\ thing'[t].at = now)
    /\ \A t \in DOMAIN thing' \ DOMAIN thing : thing'[t].at \in {0, now}

\* Every step moves time, Things and decisions that way only.
LEMMA AlwaysMoves == ASSUME "backdate" \notin Faults, TypeInv, [Next]_vars PROVE Moves
  <1>0. now \in Nat /\ now <= now
    BY Numbers
  <1>1. ASSUME UNCHANGED <<now, thing>>, decided \subseteq decided' PROVE Moves
    BY <1>0, <1>1 DEF Moves
  <1>2. ASSUME StartScan \/ StampsDone PROVE Moves
    BY <1>1, <1>2 DEF StartScan, StampsDone, Elsewhere, history
  <1>3. CASE stampMissingCreatedAt
    BY <1>0, <1>3, StampIs DEF stampMissingCreatedAt, history, Moves
  <1>4. CASE QueryModel \/ QueryFails \/ Decide \/ EndModel \/ EndScan \/ PassEnds \/ Saves
    BY <1>1, <1>4, QueryModelIs, QueryFailsIs, DecideIs, EndModelIs, EndScanIs, PassEndsIs, SavesIs
  <1>5. CASE NextRow
    BY <1>1, <1>5, NextRowIs
  <1>6. ASSUME NEW a \in Assistants, BirthFor(a) PROVE Moves
    BY <1>1, <1>6, BirthForIs
  <1>7. CASE Grows
    <2>1. PICK x \in Thing : thing' = Append(thing, x) /\ x.at \in {0, now} /\ UNCHANGED <<now, decided>>
      BY <1>7, GrowsIs
    <2> QED  BY <1>0, <2>1, ThingGrows, Zenon DEF Moves, TypeInv
  <1>8. CASE Drifts
    BY <1>8, DriftsAre DEF Moves
  <1>9. ASSUME NEW c \in DOMAIN conv, TurnEnds(c) PROVE Moves
    BY <1>1, <1>9, TurnEndsIs
  <1>10. ASSUME NEW c \in DOMAIN conv, NEW a \in Assistants, NEW t \in DOMAIN thing, TurnCalls(c, a, t) PROVE Moves
    BY <1>1, <1>10, TurnCallsIs
  <1>11. CASE Edits
    BY <1>1, <1>11, EditsAre DEF Edits
  <1>12. CASE UNCHANGED vars
    BY <1>1, <1>12 DEF vars, history
  <1> QED  BY <1>2, <1>3, <1>4, <1>5, <1>6, <1>7, <1>8, <1>9, <1>10, <1>11, <1>12, Steps DEF Edits

\* A position that is safe stays so.
LEMMA SafeStays ==
    ASSUME TypeInv, TypeInv', Moves, NEW w \in Instants, NEW d, Safe(w, d)
    PROVE  Safe(w, d)'
  <1>1. w \in Nat /\ w >= 1 /\ now \in Nat /\ now' \in Nat /\ w <= now /\ now <= now'
    <2>1. w \in Nat /\ w >= 1
      BY Bounds DEF Instants
    <2>2. now' \in Nat
      BY Bounds DEF TypeInv, TypeOK
    <2> QED  BY <2>1, <2>2, Numbers DEF Safe, Moves
  <1>2. ASSUME NEW t \in DOMAIN thing', thing'[t].at # 0, thing'[t].at < w PROVE t \in decided'
    <2>1. CASE t \in DOMAIN thing
      <3>1. thing'[t].at # now
        BY <1>1, <1>2
      <3>2. thing'[t].at = thing[t].at
        BY <2>1, <3>1 DEF Moves
      <3> QED  BY <1>2, <2>1, <3>2 DEF Moves, Safe
    <2>2. CASE t \notin DOMAIN thing
      BY <1>1, <1>2, <2>2 DEF Moves
    <2> QED  BY <2>1, <2>2
  <1>3. ASSUME NEW t \in d PROVE t \in DOMAIN thing' /\ t \in decided' /\ thing'[t].at = w
    <2>1. t \in DOMAIN thing /\ t \in decided /\ thing[t].at = w
      BY DEF Safe
    <2>2. thing'[t].at = thing[t].at
      BY <1>1, <2>1 DEF Moves
    <2> QED  BY <2>1, <2>2 DEF Moves
  <1>4. w <= now'
    BY <1>1
  <1> QED  BY <1>2, <1>3, <1>4 DEF Safe

\* The end of a scan: all Models are done, so what is undecided is not before the position.
LEMMA NewPosition ==
    ASSUME Inv, pc = "query", model = Len(Models) + 1
    PROVE  newestSeen \in Instants /\ Safe(newestSeen, boundaryDocRefs)
  <1>1. /\ newestSeen \in Nat /\ newestSeen \in Instants /\ newestSeen <= mark.newest
        /\ mark.ceiling # 0 => newestSeen <= mark.ceiling
    BY NewestSeenIs, Bounds DEF Inv, TypeInv, TypeOK, Instants
  <1>2. ASSUME NEW t \in DOMAIN thing, thing[t].at # 0, thing[t].at < newestSeen, t \notin decided PROVE FALSE
    <2>1. PICK i \in DOMAIN Models : thing[t].model = Models[i]
      BY PlacesAre DEF Inv, TypeInv, ModelSet
    <2>2. i \in 1..(model - 1)
      BY <2>1, Bounds
    <2>3. t \in Undecided(Models[i])
      BY <1>2, <2>1 DEF Undecided
    <2>4. mark.ceiling # 0 /\ mark.ceiling <= thing[t].at
      BY <2>2, <2>3 DEF Inv, Done
    <2> QED  BY <1>1, <1>2, <2>4, Numbers DEF Inv
  <1>3. \A t \in boundaryDocRefs : t \in DOMAIN thing /\ t \in decided /\ thing[t].at = newestSeen
    BY DEF boundaryDocRefs, Inv, Marked
  <1>4. newestSeen <= now
    BY <1>1, Numbers DEF Inv, Marked
  <1> QED  BY <1>1, <1>2, <1>3, <1>4 DEF Safe

\* The stored state, the pass's copy and the re-read one take positions from each other,
\* from the end of a scan, or from the beginning of time.
LEMMA NextSafe == ASSUME AloneOnTheWatermark, Inv, [Next]_vars PROVE AllSafe'
  <1>0. TypeInv /\ TypeInv' /\ Moves
    BY NextTyped, AlwaysMoves DEF Inv, AloneOnTheWatermark
  <1> DEFINE Good(s) == s.watermark \in Instants /\ Safe(s.watermark, s.seen)
  <1>1. Good(store) /\ Good(mem) /\ Good(fresh) /\ Good(loadState)
    <2>1. Good(loadState)
      <3>1. \A t \in DOMAIN thing : ~(thing[t].at # 0 /\ thing[t].at < 1)
        BY <1>0, Numbers
      <3>2. 1 \in Instants /\ 1 <= now
        BY <1>0, Numbers, Bounds DEF Instants
      <3> QED  BY <3>1, <3>2, LoadState DEF Safe
    <2> QED  BY <1>0, <2>1, Numbers DEF Inv, AllSafe
  <1>2. \A w, d : w \in Instants /\ Safe(w, d) => Safe(w, d)'
    BY <1>0, SafeStays
  <1>3. ASSUME UNCHANGED <<store, fresh>>, mem'.watermark = mem.watermark, mem'.seen = mem.seen PROVE AllSafe'
    BY <1>1, <1>2, <1>3 DEF AllSafe
  <1>4. CASE StartScan
    <2>1. mem'.watermark = store.watermark /\ mem'.seen = store.seen
      BY <1>0, <1>4, RenewedIs DEF StartScan, TypeInv, TypeOK
    <2>2. UNCHANGED <<store, fresh>>
      BY <1>4 DEF StartScan, Elsewhere
    <2> QED  BY <1>1, <1>2, <2>1, <2>2 DEF AllSafe
  <1>5. CASE stampMissingCreatedAt \/ StampsDone \/ QueryModel \/ QueryFails \/ Decide \/ EndModel
    BY <1>0, <1>3, <1>5, QueryModelIs, QueryFailsIs, DecideIs, EndModelIs
       DEF stampMissingCreatedAt, StampsDone, Elsewhere
  <1>6. CASE NextRow
    BY <1>0, <1>3, <1>6, NextRowIs
  <1>7. ASSUME NEW a \in Assistants, BirthFor(a) PROVE AllSafe'
    BY <1>0, <1>3, <1>7, BirthForIs
  <1>8. CASE EndScan
    <2>1. /\ pc = "query" /\ model = Len(Models) + 1 /\ UNCHANGED <<store, fresh>>
          /\ \/ mem'.watermark = newestSeen /\ mem'.seen = boundaryDocRefs
             \/ mem' = mem
      BY <1>0, <1>8, EndScanIs
    <2>2. newestSeen \in Instants /\ Safe(newestSeen, boundaryDocRefs)
      BY <2>1, NewPosition
    <2>3. Safe(mem.watermark, mem.seen)' 
      BY <1>1, <1>2, <2>1, <2>2
    <2> QED  BY <1>1, <1>2, <2>1, <2>3 DEF AllSafe
  <1>9. CASE Saves
    <2>1. Good(Merged)
      BY <1>0, <1>1, MergedIs DEF TypeInv, TypeOK
    <2>2. /\ store' \in {store, Merged} /\ mem' \in {mem, loadState, Merged}
          /\ fresh' \in {store, fresh, loadState}
      BY <1>0, <1>9, SavesIs
    <2> HIDE DEF Good
    <2>4. Good(store) /\ Good(mem) /\ Good(fresh) /\ Good(loadState) /\ Good(Merged)
      BY <1>1, <2>1
    <2>5. Safe(store.watermark, store.seen)'
      BY <1>2, <2>2, <2>4 DEF Good
    <2>6. Safe(mem.watermark, mem.seen)'
      BY <1>2, <2>2, <2>4 DEF Good
    <2>7. Safe(fresh.watermark, fresh.seen)'
      BY <1>2, <2>2, <2>4 DEF Good
    <2> QED  BY <2>5, <2>6, <2>7 DEF AllSafe
  <1>10. CASE PassEnds
    BY <1>0, <1>1, <1>2, <1>10, PassEndsIs DEF AllSafe
  <1>11. CASE Grows \/ Drifts
    BY <1>0, <1>3, <1>11, GrowsIs, DriftsAre
  <1>12. ASSUME NEW c \in DOMAIN conv, TurnEnds(c) PROVE AllSafe'
    BY <1>0, <1>3, <1>12, TurnEndsIs
  <1>13. ASSUME NEW c \in DOMAIN conv, NEW a \in Assistants, NEW t \in DOMAIN thing, TurnCalls(c, a, t) PROVE AllSafe'
    BY <1>0, <1>3, <1>13, TurnCallsIs
  <1>14. CASE Edits
    <2>1. UNCHANGED <<mem, fresh>> /\ store'.watermark = store.watermark /\ store'.seen = store.seen
      BY <1>0, <1>14, EditsAre DEF Edits, AloneOnTheWatermark
    <2> QED  BY <1>1, <1>2, <2>1 DEF AllSafe
  <1>15. CASE UNCHANGED vars
    BY <1>3, <1>15 DEF vars, pass
  <1> QED  BY <1>4, <1>5, <1>6, <1>7, <1>8, <1>9, <1>10, <1>11, <1>12, <1>13, <1>14, <1>15, Steps DEF Edits

\* The Things of a Model and a second are finitely many.
LEMMA OfFinite ==
    ASSUME TypeInv, NEW S \in SUBSET DOMAIN thing
    PROVE  IsFiniteSet(S) /\ Cardinality(S) \in Nat
  <1>1. IsFiniteSet(DOMAIN thing)
    BY PlacesAre, FS_Interval DEF TypeInv
  <1>2. IsFiniteSet(S)
    BY <1>1, FS_Subset
  <1> QED  BY <1>2, FS_CardinalityType

\* The least of two or three is none of them exceeded.
LEMMA MinIs ==
    ASSUME NEW a \in Int, NEW b \in Int, NEW c \in Int
    PROVE  Min({a, b, c}) <= b /\ Min({a, b}) <= b
  <1>1. \E x \in {a, b, c} : \A y \in {a, b, c} : x =< y
    OBVIOUS
  <1>2. \E x \in {a, b} : \A y \in {a, b} : x =< y
    OBVIOUS
  <1> QED  BY <1>1, <1>2 DEF Min

\* Stamping and creating leave room for no more than MaxPerSecond to a second.
LEMMA NextFew == ASSUME "backdate" \notin Faults, TypeInv, FewPerSecond, [Next]_vars PROVE FewPerSecond'
  <1>0. MaxPerSecond \in Nat /\ now \in 1..MaxNow
    BY Bounds, Counters
  <1>1. ASSUME UNCHANGED thing PROVE FewPerSecond'
    BY <1>1 DEF FewPerSecond, Of
  <1>2. CASE stampMissingCreatedAt
    <2> DEFINE k == Models[model]
               orphans == {t \in DOMAIN thing : thing[t].at = 0 /\ thing[t].model = k}
               room == MaxPerSecond - Cardinality(Of(k, now))
    <2>1. PICK S \in SUBSET orphans :
             /\ \/ Cardinality(S) = Min({PageSize, room, Cardinality(orphans)})
                \/ Cardinality(S) < Min({PageSize, room})
             /\ thing' = [t \in DOMAIN thing |-> IF t \in S THEN [thing[t] EXCEPT !.at = now] ELSE thing[t]]
      BY <1>2 DEF stampMissingCreatedAt, Of
    <2>2. /\ IsFiniteSet(S) /\ Cardinality(S) \in Nat /\ Cardinality(orphans) \in Nat
          /\ IsFiniteSet(Of(k, now)) /\ Cardinality(Of(k, now)) \in Nat
      BY OfFinite DEF Of
    <2>3. Cardinality(S) <= room
      <3>1. room \in Int /\ PageSize \in Int
        BY <1>0, <2>2, Bounds
      <3> HIDE DEF room, orphans
      <3>2. /\ Min({PageSize, room, Cardinality(orphans)}) <= room
            /\ Min({PageSize, room}) <= room
        BY <2>2, <3>1, MinIs
      <3>3. Min({PageSize, room}) \in Int
        <4>1. \E x \in {PageSize, room} : \A y \in {PageSize, room} : x =< y
          BY <3>1
        <4> QED  BY <3>1, <4>1 DEF Min
      <3> QED  BY <2>1, <2>2, <3>1, <3>2, <3>3
    <2>4. \A x \in Thing : [x EXCEPT !.at = now].at = now /\ [x EXCEPT !.at = now].model = x.model
      BY DEF Thing
    <2>5. /\ DOMAIN thing' = DOMAIN thing
          /\ \A t \in DOMAIN thing : /\ thing'[t].model = thing[t].model
                                     /\ thing'[t].at = IF t \in S THEN now ELSE thing[t].at
      BY <2>1, <2>4, PlacesAre DEF TypeInv
    <2>6. ASSUME NEW m \in ModelSet, NEW s \in 1..MaxNow PROVE Cardinality(Of(m, s)') <= MaxPerSecond
      <3>1. Of(m, s) \in SUBSET DOMAIN thing /\ Cardinality(Of(m, s)) <= MaxPerSecond
        BY DEF FewPerSecond, Of
      <3>2. CASE m = k /\ s = now
        <4>1. Of(m, s)' = Of(k, now) \cup S
          BY <1>0, <2>5, <3>2 DEF Of
        <4>2. Cardinality(Of(k, now) \cup S) = Cardinality(Of(k, now)) + Cardinality(S) - Cardinality(Of(k, now) \cap S)
          BY <2>2, FS_Union
        <4>3. Cardinality(Of(k, now) \cap S) \in Nat
          BY OfFinite DEF Of
        <4> QED  BY <1>0, <2>2, <2>3, <4>1, <4>2, <4>3
      <3>3. CASE ~(m = k /\ s = now)
        <4>1. Of(m, s)' = Of(m, s)
          <5>1. \A t \in S : ~(s = now /\ thing[t].model = m) /\ thing[t].at = 0 /\ 0 # s
            BY <3>3
          <5> QED  BY <2>5, <5>1 DEF Of
        <4> QED  BY <3>1, <4>1
      <3> QED  BY <3>2, <3>3
    <2> QED  BY <2>6 DEF FewPerSecond
  <1>3. CASE Grows
    <2>1. PICK x \in Thing :
             /\ thing' = Append(thing, x) /\ UNCHANGED now
             /\ x.at = 0 \/ (RoomAt(x.model) /\ x.at = now)
      BY <1>3, GrowsIs
    <2> DEFINE n == Len(thing) + 1
    <2>2. /\ n \in DOMAIN thing' /\ thing'[n] = x
          /\ \A t \in DOMAIN thing : t \in DOMAIN thing' /\ t # n /\ thing'[t] = thing[t]
          /\ \A t \in DOMAIN thing' : t = n \/ t \in DOMAIN thing
      <3>1. Len(thing) \in Nat
        BY PlacesAre DEF TypeInv
      <3>2. n \in 1..(Len(thing) + 1)
        BY <3>1
      <3> QED  BY <2>1, <3>2, ThingGrows DEF TypeInv
    <2> HIDE DEF n
    <2>3. ASSUME NEW m \in ModelSet, NEW s \in 1..MaxNow PROVE Cardinality(Of(m, s)') <= MaxPerSecond
      <3>1. Of(m, s) \in SUBSET DOMAIN thing /\ Cardinality(Of(m, s)) <= MaxPerSecond
        BY DEF FewPerSecond, Of
      <3>2. CASE x.model = m /\ x.at = s
        <4>1. Of(m, s)' = Of(m, s) \cup {n} /\ n \notin Of(m, s)
          BY <2>2, <3>2 DEF Of
        <4>2. IsFiniteSet(Of(m, s)) /\ Cardinality(Of(m, s)) \in Nat
          BY <3>1, OfFinite
        <4>3. Cardinality(Of(m, s)') = Cardinality(Of(m, s)) + 1
          BY <4>1, <4>2, FS_AddElement
        <4>4. Cardinality(Of(m, s)) < MaxPerSecond
          <5>1. x.at # 0
            BY <3>2
          <5>2. RoomAt(m) /\ s = now
            BY <2>1, <3>2, <5>1
          <5>3. Of(m, s) = {t \in DOMAIN thing : thing[t].at = now /\ thing[t].model = m}
            BY <5>2 DEF Of
          <5> QED  BY <5>2, <5>3 DEF RoomAt
        <4> QED  BY <1>0, <4>2, <4>3, <4>4
      <3>3. CASE ~(x.model = m /\ x.at = s)
        <4>1. Of(m, s)' = Of(m, s)
          BY <2>2, <3>3 DEF Of
        <4> QED  BY <3>1, <4>1
      <3> QED  BY <3>2, <3>3
    <2> QED  BY <2>3 DEF FewPerSecond
  <1>4. ASSUME ~Grows, ~stampMissingCreatedAt PROVE UNCHANGED thing
    <2>1. ASSUME StartScan \/ StampsDone PROVE UNCHANGED thing
      BY <2>1 DEF StartScan, StampsDone, Elsewhere
    <2>2. ASSUME QueryModel \/ QueryFails \/ Decide \/ EndModel \/ EndScan \/ PassEnds \/ Saves \/ Drifts
          PROVE  UNCHANGED thing
      BY <2>2, QueryModelIs, QueryFailsIs, DecideIs, EndModelIs, EndScanIs, PassEndsIs, SavesIs, DriftsAre
    <2>3. ASSUME NextRow PROVE UNCHANGED thing
      BY <2>3, NextRowIs
    <2>4. ASSUME NEW a \in Assistants, BirthFor(a) PROVE UNCHANGED thing
      BY <2>4, BirthForIs
    <2>5. ASSUME NEW c \in DOMAIN conv, TurnEnds(c) PROVE UNCHANGED thing
      BY <2>5, TurnEndsIs
    <2>6. ASSUME NEW c \in DOMAIN conv, NEW a \in Assistants, NEW t \in DOMAIN thing, TurnCalls(c, a, t)
          PROVE  UNCHANGED thing
      BY <2>6, TurnCallsIs
    <2>7. ASSUME Edits PROVE UNCHANGED thing
      BY <2>7, EditsAre DEF Edits
    <2>8. CASE UNCHANGED vars
      BY <2>8 DEF vars
    <2> QED  BY <1>4, <2>1, <2>2, <2>3, <2>4, <2>5, <2>6, <2>7, <2>8, Steps DEF Edits
  <1> QED  BY <1>1, <1>2, <1>3, <1>4

\* What the pass has noted stays decided, and is not ahead of the clock.
LEMMA NextMarked == ASSUME AloneOnTheWatermark, Inv, [Next]_vars PROVE Marked'
  <1>0. TypeInv /\ TypeInv' /\ Moves /\ now \in Nat /\ now' \in Nat /\ mark.newest \in Nat
    <2>1. TypeInv /\ TypeInv' /\ Moves
      BY NextTyped, AlwaysMoves DEF Inv, AloneOnTheWatermark
    <2>2. now' \in Nat
      BY <2>1, Bounds DEF TypeInv, TypeOK
    <2> QED  BY <2>1, <2>2, Numbers
  <1>1. mark.newest <= now' /\ mark.at \subseteq decided' \cap DOMAIN thing'
    BY <1>0 DEF Inv, Marked, Moves
  <1>2. ASSUME mark'.newest = mark.newest, mark'.at = mark.at PROVE Marked'
    BY <1>1, <1>2 DEF Marked
  <1>3. ASSUME mark' = NoMark PROVE Marked'
    <2>1. now >= 1 /\ now <= now'
      BY <1>0, Numbers DEF Moves
    <2> QED  BY <1>0, <1>3, <2>1 DEF Marked, NoMark
  <1>4. CASE StartScan
    <2>1. CASE mark' = mark
      BY <1>2, <2>1
    <2>2. CASE mark' = [NoMark EXCEPT !.newest = store.watermark]
      <3>1. mark'.newest = store.watermark /\ mark'.at = {}
        BY <2>2 DEF NoMark
      <3>2. store.watermark <= now /\ UNCHANGED now
        BY <1>4 DEF Inv, AllSafe, Safe, StartScan, Elsewhere
      <3> QED  BY <3>1, <3>2 DEF Marked
    <2> QED  BY <1>4, <2>1, <2>2 DEF StartScan
  <1>5. CASE stampMissingCreatedAt \/ StampsDone
    BY <1>2, <1>5 DEF stampMissingCreatedAt, StampsDone
  <1>6. CASE QueryModel \/ QueryFails \/ EndModel \/ Saves \/ Drifts
    BY <1>0, <1>2, <1>6, QueryModelIs, QueryFailsIs, EndModelIs, SavesIs, DriftsAre
  <1>7. CASE EndScan \/ PassEnds
    BY <1>0, <1>3, <1>7, EndScanIs, PassEndsIs
  <1>8. CASE NextRow
    <2>1. mark' = mark \/ mark' = freeze
      BY <1>0, <1>8, NextRowIs
    <2> QED  BY <1>0, <1>2, <2>1, FreezeIs DEF TypeInv, TypeOK
  <1>9. ASSUME NEW a \in Assistants, BirthFor(a) PROVE Marked'
    <2>1. mark' = mark \/ mark' = freeze
      BY <1>0, <1>9, BirthForIs
    <2> QED  BY <1>0, <1>2, <2>1, FreezeIs DEF TypeInv, TypeOK
  <1>10. CASE Decide
    <2>1. thing[row].at <= now
      BY <1>0, <1>10, DecideIs DEF Inv, Timely
    <2> QED  BY <1>0, <1>1, <1>10, <2>1, DecideIs DEF Marked
  <1>11. CASE Grows
    BY <1>0, <1>2, <1>11, GrowsIs
  <1>12. ASSUME NEW c \in DOMAIN conv, TurnEnds(c) PROVE Marked'
    BY <1>0, <1>2, <1>12, TurnEndsIs
  <1>13. ASSUME NEW c \in DOMAIN conv, NEW a \in Assistants, NEW t \in DOMAIN thing, TurnCalls(c, a, t) PROVE Marked'
    BY <1>0, <1>2, <1>13, TurnCallsIs
  <1>14. CASE Edits
    BY <1>0, <1>2, <1>14, EditsAre DEF Edits
  <1>15. CASE UNCHANGED vars
    BY <1>2, <1>15 DEF vars, pass
  <1> QED  BY <1>4, <1>5, <1>6, <1>7, <1>8, <1>9, <1>10, <1>11, <1>12, <1>13, <1>14, <1>15, Steps DEF Edits


\* A step that touches neither the scan nor the Things leaves the Model where it was.
Quiet ==
    /\ UNCHANGED <<thing, decided, mark, page, row, pc, model, full>>
    /\ mem'.watermark = mem.watermark /\ mem'.seen = mem.seen

\* Such a step keeps what is known of the Models.
LEMMA QuietKeeps == ASSUME Done, InModel, Quiet PROVE Done' /\ InModel'
  <1>1. UNCHANGED Left
    BY DEF Quiet, Left
  <1>2. Done'
    BY DEF Quiet, Done, Undecided
  <1>3. (pc \in {"rows", "birth"} => Ordered /\ Front /\ Beyond)'
    BY <1>1 DEF Quiet, InModel, Ordered, Front, Beyond, Undecided
  <1>4. (pc \in {"rows", "birth"} => NoFrontier)'
    BY <1>1 DEF Quiet, InModel, NoFrontier, AllSeen
  <1> QED  BY <1>2, <1>3, <1>4 DEF InModel

\* Outside the scan there is nothing to keep.
LEMMA Outside == ASSUME pc' \notin {"query", "rows", "birth"} PROVE Done' /\ InModel'
  BY DEF Done, InModel

\* Whatever is undecided is not before the watermark the pass started from.
LEMMA UndecidedIs ==
    ASSUME Inv, NEW m, NEW t \in Undecided(m)
    PROVE  /\ t \in DOMAIN thing /\ thing[t].model = m /\ thing[t].at \in Nat /\ t \notin decided
           /\ mem.watermark <= thing[t].at
  <1>1. t \in DOMAIN thing /\ thing[t].model = m /\ thing[t].at # 0 /\ t \notin decided
    BY DEF Undecided
  <1>2. thing[t].at \in Nat /\ mem.watermark \in Nat
    BY <1>1, Numbers DEF Inv
  <1>3. ~(thing[t].at < mem.watermark)
    BY <1>1 DEF Inv, AllSafe, Safe
  <1> QED  BY <1>1, <1>2, <1>3

\* The Models that are done stay so while the ceiling does.
LEMMA DoneStays ==
    ASSUME Done, pc \in {"query", "rows", "birth"}, UNCHANGED <<thing, model>>, decided \subseteq decided',
           mark'.ceiling = mark.ceiling
    PROVE  Done'
  <1>1. \A m : Undecided(m)' \subseteq Undecided(m)
    BY DEF Undecided
  <1> QED  BY <1>1 DEF Done

\* The page is of this Model, and what it leaves out comes after its rows.
LEMMA QueryModelKeeps == ASSUME Inv, QueryModel PROVE Done' /\ InModel'
  <1> DEFINE S == {t \in DOMAIN thing : thing[t].model = Models[model] /\ thing[t].at >= mem.watermark}
  <1>0. TypeInv /\ TypeOK
    BY DEF Inv, TypeInv
  <1>1. PICK P \in PagesOf(S) : page' = P /\ full' = (Cardinality(P) >= PageSize)
    BY DEF QueryModel
  <1>2. /\ P \in SUBSET S
        /\ \A p \in P, s \in S \ P : thing[p].at <= thing[s].at
        /\ ~(Cardinality(P) >= PageSize) => P = S
    BY <1>0, PageIs
  <1>3. /\ mark'.frontier = 0 /\ mark'.frozen = FALSE /\ mark'.ceiling = mark.ceiling
        /\ pc' = "rows" /\ pc = "query"
        /\ UNCHANGED <<thing, decided, model, mem>>
    BY <1>0, QueryModelIs
  <1>4. Left' = P
    BY <1>1, <1>3 DEF Left
  <1>5. Done'
    BY <1>3, DoneStays DEF Inv
  <1>6. \A t \in Undecided(Models[model]) : t \in S /\ thing[t].at \in Nat
    <2>1. SUFFICES ASSUME NEW t \in Undecided(Models[model]) PROVE t \in S /\ thing[t].at \in Nat
      OBVIOUS
    <2>2. t \in DOMAIN thing /\ thing[t].model = Models[model] /\ thing[t].at \in Nat
          /\ mem.watermark <= thing[t].at
      BY UndecidedIs
    <2>3. mem.watermark \in Nat
      BY <1>0, Numbers
    <2> QED  BY <2>2, <2>3
  <1>7. Undecided(Models[model])' = Undecided(Models[model])
    BY <1>3 DEF Undecided
  <1>8. Ordered'
    <2>1. \A p \in P : thing[p].model = Models[model] /\ thing[p].at >= mem.watermark /\ p \in DOMAIN thing
      BY <1>2
    <2>2. \A p \in P : mem.watermark <= thing[p].at
      BY <1>0, <2>1, Numbers
    <2> QED  BY <1>3, <1>4, <2>1, <2>2 DEF Ordered
  <1>9. Front'
    BY <1>3, <1>6, <1>7 DEF Front
  <1>10. Beyond'
    <2>1. ASSUME NEW t \in Undecided(Models[model]) \ P PROVE full' /\ \A p \in P : thing[p].at <= thing[t].at
      BY <1>1, <1>2, <1>6
    <2> QED  BY <1>3, <1>4, <1>7, <2>1 DEF Beyond
  <1>11. NoFrontier'
    <2>1. full' => Cardinality(P) >= PageSize
      BY <1>1
    <2>2. P \in SUBSET DOMAIN thing' /\ \A t \in P : thing'[t].model = Models[model]'
      BY <1>2, <1>3
    <2>3. full' => AllSeen(P)'
      BY <1>4, <2>1, <2>2 DEF AllSeen
    <2> QED  BY <2>2, <2>3 DEF NoFrontier
  <1> QED  BY <1>5, <1>8, <1>9, <1>10, <1>11 DEF InModel

\* A Model whose query failed is done, and its watermark is the ceiling.
LEMMA QueryFailsKeeps == ASSUME Inv, QueryFails PROVE Done' /\ InModel'
  <1>0. TypeInv
    BY DEF Inv
  <1>1. /\ mark'.ceiling = lowest(mark.ceiling, mem.watermark)
        /\ pc = "query" /\ pc' = "query" /\ model \in 1..Len(Models) /\ model' = model + 1
        /\ UNCHANGED <<thing, decided>>
    BY <1>0, QueryFailsIs
  <1>2. /\ mark'.ceiling \in 1..(MaxNow + 1) /\ mark'.ceiling <= mem.watermark
        /\ mark.ceiling # 0 => mark'.ceiling <= mark.ceiling
    BY <1>0, <1>1, Numbers, LowestIs
  <1>3. mark'.ceiling \in Nat /\ mark'.ceiling # 0 /\ mem.watermark \in Nat /\ mark.ceiling \in Nat
    BY <1>0, <1>2, Numbers, Bounds
  <1>4. ASSUME NEW i \in 1..model, NEW t \in Undecided(Models[i]) PROVE mark'.ceiling <= thing[t].at
    <2>1. thing[t].at \in Nat /\ mem.watermark <= thing[t].at
      BY UndecidedIs
    <2> QED  BY <1>2, <1>3, <2>1
  <1>5. 1..(model' - 1) = 1..model
    BY <1>1, Bounds
  <1>6. Done'
    BY <1>1, <1>3, <1>4, <1>5 DEF Done, Undecided
  <1> QED  BY <1>1, <1>6 DEF InModel

\* A Model that freezes has its frontier at or before whatever is undecided.
LEMMA FreezeFront ==
    ASSUME Inv, pc \in {"rows", "birth"}, mark' = freeze,
           UNCHANGED <<thing, decided, model>>
    PROVE  Front' /\ mark'.frozen /\ mark'.ceiling = mark.ceiling
  <1>1. TypeInv /\ mark \in Mark /\ mem \in RuntimeState
    BY DEF Inv, TypeInv, TypeOK
  <1>2. /\ mark'.frozen /\ mark'.ceiling = mark.ceiling
        /\ mark'.frontier = IF mark.frozen \/ mark.frontier # 0 THEN mark.frontier ELSE mem.watermark
    BY <1>1, FreezeIs
  <1>3. \A t \in Undecided(Models[model]) : mark.frontier <= thing[t].at /\ mem.watermark <= thing[t].at
    BY UndecidedIs DEF Inv, InModel, Front
  <1>4. mark'.frontier # 0
    BY <1>1, <1>2, Numbers DEF Inv, InModel, Front
  <1>5. \A t \in Undecided(Models[model]) : mark'.frontier <= thing[t].at
    BY <1>2, <1>3
  <1> QED  BY <1>2, <1>4, <1>5 DEF Front, Undecided

\* A row that was seen is decided; one that waits freezes the Model; the oldest is taken up first.
LEMMA NextRowKeeps == ASSUME Inv, NextRow PROVE Done' /\ InModel'
  <1>0. TypeInv /\ pc = "rows" /\ Ordered /\ Front /\ Beyond /\ NoFrontier /\ Left = page
    BY DEF Inv, InModel, NextRow, Left
  <1>1. PICK t \in page :
             /\ \A s \in page : thing[t].at <= thing[s].at
             /\ page' = page \ {t}
             /\ \/ t \in mem.seen /\ UNCHANGED <<pc, row, owed, mark>>
                \/ mark' = freeze /\ UNCHANGED <<pc, row, owed>>
                \/ pc' = "birth" /\ row' = t /\ UNCHANGED mark
             /\ UNCHANGED <<thing, decided, mem, model, full>>
    BY <1>0, NextRowIs
  <1>2. CASE t \in mem.seen /\ UNCHANGED <<pc, row, owed, mark>>
    <2>1. Left' = page \ {t} /\ t \in decided
      BY <1>0, <1>1, <1>2 DEF Left, Inv, AllSafe, Safe
    <2>2. Done'
      BY <1>0, <1>1, <1>2, DoneStays DEF Inv
    <2>3. Ordered' /\ Front'
      BY <1>0, <1>1, <1>2, <2>1 DEF Ordered, Front, Undecided
    <2>4. Beyond'
      <3>1. t \notin Undecided(Models[model]) /\ Undecided(Models[model])' = Undecided(Models[model])
        BY <1>1, <2>1 DEF Undecided
      <3>2. Undecided(Models[model])' \ Left' = Undecided(Models[model]) \ Left
        BY <1>0, <2>1, <3>1
      <3> QED  BY <1>0, <1>1, <1>2, <2>1, <3>2 DEF Beyond
    <2>5. NoFrontier'
      <3>1. \A P : AllSeen(P) => AllSeen(P)'
        BY <1>0, <1>1, <1>2, <2>1 DEF AllSeen
      <3> QED  BY <1>0, <1>1, <1>2, <3>1 DEF NoFrontier
    <2> QED  BY <2>2, <2>3, <2>4, <2>5 DEF InModel
  <1>3. CASE mark' = freeze /\ UNCHANGED <<pc, row, owed>>
    <2>1. Front' /\ mark'.frozen /\ mark'.ceiling = mark.ceiling
      BY <1>0, <1>1, <1>3, FreezeFront
    <2>2. Done'
      BY <1>0, <1>1, <1>3, <2>1, DoneStays DEF Inv
    <2>3. Ordered'
      BY <1>0, <1>1, <1>3 DEF Ordered, Left
    <2> QED  BY <2>1, <2>2, <2>3 DEF InModel, Beyond, NoFrontier
  <1>4. CASE pc' = "birth" /\ row' = t /\ UNCHANGED mark
    <2>1. Left' = Left
      BY <1>0, <1>1, <1>4 DEF Left
    <2>2. Done'
      BY <1>0, <1>1, <1>4, DoneStays DEF Inv
    <2>3. Ordered' /\ Front' /\ Beyond'
      BY <1>0, <1>1, <1>4, <2>1 DEF Ordered, Front, Beyond, Undecided
    <2>4. NoFrontier'
      BY <1>0, <1>1, <1>4, <2>1 DEF NoFrontier, AllSeen
    <2> QED  BY <2>2, <2>3, <2>4 DEF InModel
  <1> QED  BY <1>1, <1>2, <1>3, <1>4

\* A birth for which the budget is used up freezes the Model; any other leaves the scan alone.
LEMMA BirthForKeeps == ASSUME Inv, NEW a \in Assistants, BirthFor(a) PROVE Done' /\ InModel'
  <1>0. TypeInv /\ pc = "birth" /\ Ordered /\ Done /\ InModel
    BY DEF Inv, InModel, BirthFor
  <1>1. /\ mem'.watermark = mem.watermark /\ mem'.seen = mem.seen
        /\ UNCHANGED <<pc, row, mark>> \/ (mark' = freeze /\ pc' = "rows")
        /\ UNCHANGED <<thing, decided, model, page, full>>
    BY <1>0, BirthForIs
  <1>2. CASE UNCHANGED <<pc, row, mark>>
    BY <1>0, <1>1, <1>2, QuietKeeps DEF Quiet
  <1>3. CASE mark' = freeze /\ pc' = "rows"
    <2>1. Front' /\ mark'.frozen /\ mark'.ceiling = mark.ceiling
      BY <1>0, <1>1, <1>3, FreezeFront
    <2>2. Done'
      BY <1>0, <1>1, <1>3, <2>1, DoneStays
    <2>3. Ordered'
      BY <1>0, <1>1, <1>3 DEF Ordered, Left
    <2> QED  BY <2>1, <2>2, <2>3 DEF InModel, Beyond, NoFrontier
  <1> QED  BY <1>1, <1>2, <1>3

\* The row that is decided is no later than whatever this Model leaves undecided.
LEMMA DecideKeeps == ASSUME Inv, Decide PROVE Done' /\ InModel'
  <1>0. TypeInv /\ pc = "birth" /\ Ordered /\ Front /\ Beyond /\ NoFrontier /\ Left = page \cup {row}
    BY DEF Inv, InModel, Decide, Left
  <1>1. /\ pc' = "rows" /\ row \in DOMAIN thing /\ decided' = decided \cup {row}
        /\ mark'.ceiling = mark.ceiling /\ mark'.frozen = mark.frozen
        /\ mark'.frontier = IF ~mark.frozen /\ thing[row].at > mark.frontier
                            THEN thing[row].at ELSE mark.frontier
        /\ UNCHANGED <<thing, mem, model, page, full>>
    BY <1>0, DecideIs
  <1>2. Left' = page
    BY <1>1 DEF Left
  <1>3. /\ thing[row].at \in Nat /\ mark.frontier \in Nat /\ mem.watermark \in Nat /\ mem.watermark >= 1
        /\ mem.watermark <= thing[row].at
    BY <1>0, <1>1, Numbers DEF Ordered
  <1>4. /\ Undecided(Models[model])' \subseteq Undecided(Models[model])
        /\ row \notin Undecided(Models[model])'
    BY <1>1 DEF Undecided
  <1>5. Done'
    BY <1>0, <1>1, DoneStays DEF Inv
  <1>6. Ordered'
    BY <1>0, <1>1, <1>2 DEF Ordered
  <1>7. Front'
    <2>1. ASSUME NEW t \in Undecided(Models[model])' PROVE mark'.frontier <= thing[t].at
      <3>1. mark.frontier <= thing[t].at
        BY <1>0, <1>4 DEF Front
      <3>2. ~mark.frozen => thing[row].at <= thing[t].at
        <4>1. CASE t \in page
          BY <1>0, <4>1 DEF Ordered
        <4>2. CASE t \notin page
          BY <1>0, <1>4, <4>2 DEF Beyond
        <4> QED  BY <4>1, <4>2
      <3> QED  BY <1>1, <3>1, <3>2
    <2>2. mark'.frozen => mark'.frontier # 0
      BY <1>0, <1>1, <1>3 DEF Front
    <2> QED  BY <1>1, <2>1, <2>2 DEF Front
  <1>8. Beyond'
    BY <1>0, <1>1, <1>2, <1>4 DEF Beyond
  <1>9. NoFrontier'
    <2>1. ~mark'.frozen => mark'.frontier # 0
      BY <1>1, <1>3
    <2> QED  BY <2>1 DEF NoFrontier
  <1> QED  BY <1>5, <1>6, <1>7, <1>8, <1>9 DEF InModel

\* A Model is done: it lowered the ceiling to its frontier, or left nothing undecided.
LEMMA EndModelKeeps == ASSUME AloneOnTheWatermark, Inv, EndModel PROVE Done' /\ InModel'
  <1>0. TypeInv /\ pc = "rows" /\ Front /\ Beyond /\ NoFrontier /\ Done /\ FewPerSecond
    BY DEF Inv, InModel, EndModel
  <1>1. /\ page = {} /\ pc' = "query" /\ model' = model + 1 /\ UNCHANGED <<thing, decided>>
        /\ mark'.ceiling = IF mark.frozen \/ (full /\ mark.frontier # 0)
                           THEN lowest(mark.ceiling, mark.frontier) ELSE mark.ceiling
    BY <1>0, EndModelIs
  <1>2. Left = {}
    BY <1>0, <1>1 DEF Left
  <1>3. model \in 1..Len(Models)
    BY <1>0, Counters, Bounds DEF TypeInv, Placed
  <1>4. mark.ceiling \in Nat /\ mark.frontier \in 0..(MaxNow + 1) /\ mark.ceiling \in 0..(MaxNow + 1)
    BY <1>0, Numbers
  <1>5. 1..(model' - 1) = 1..(model - 1) \cup {model}
    BY <1>1, <1>3, Bounds
  <1>6. \A i \in 1..(model - 1) : \A t \in Undecided(Models[i]) :
            mark.ceiling # 0 /\ mark.ceiling <= thing[t].at /\ thing[t].at \in Nat
    BY <1>0, UndecidedIs DEF Done
  <1>7. CASE mark.frozen \/ (full /\ mark.frontier # 0)
    <2>1. mark.frontier # 0
      BY <1>0, <1>7 DEF Front
    <2>2. /\ mark'.ceiling \in 1..(MaxNow + 1) /\ mark'.ceiling <= mark.frontier
          /\ mark.ceiling # 0 => mark'.ceiling <= mark.ceiling
      <3>1. mark.frontier \in 1..(MaxNow + 1)
        BY <1>4, <2>1, Bounds
      <3> QED  BY <1>1, <1>4, <1>7, <3>1, LowestIs
    <2>3. mark'.ceiling \in Nat /\ mark'.ceiling # 0
      BY <2>2, Bounds
    <2>4. \A t \in Undecided(Models[model]) : mark'.ceiling <= thing[t].at
      <3>1. SUFFICES ASSUME NEW t \in Undecided(Models[model]) PROVE mark'.ceiling <= thing[t].at
        OBVIOUS
      <3>2. mark.frontier <= thing[t].at /\ thing[t].at \in Nat /\ mark.frontier \in Nat
        BY <1>0, <1>4, Numbers, UndecidedIs DEF Front
      <3> QED  BY <2>2, <2>3, <3>2
    <2>5. \A i \in 1..(model - 1) : \A t \in Undecided(Models[i]) : mark'.ceiling <= thing[t].at
      BY <1>4, <1>6, <2>2, <2>3
    <2>6. Done'
      BY <1>1, <1>5, <2>3, <2>4, <2>5 DEF Done, Undecided
    <2> QED  BY <1>1, <2>6 DEF InModel
  <1>8. CASE ~(mark.frozen \/ (full /\ mark.frontier # 0))
    <2>1. Undecided(Models[model]) = {}
      <3>1. CASE full
        <4>1. PICK P \in SUBSET DOMAIN thing : AllSeen(P)
          BY <1>0, <1>8, <3>1 DEF NoFrontier
        <4>2. mem.watermark \in 1..MaxNow /\ Models[model] \in ModelSet
          <5>1. mem.watermark <= now
            BY DEF Inv, AllSafe, Safe
          <5> QED  BY <1>0, <1>3, <5>1, Numbers, Counters, Bounds
        <4>3. P \subseteq Of(Models[model], mem.watermark)
          BY <1>2, <4>1 DEF AllSeen, Of, Inv, AllSafe, Safe
        <4>4. Of(Models[model], mem.watermark) \in SUBSET DOMAIN thing
          BY DEF Of
        <4>5. /\ IsFiniteSet(Of(Models[model], mem.watermark))
              /\ Cardinality(Of(Models[model], mem.watermark)) \in Nat /\ Cardinality(P) \in Nat
          BY <1>0, <4>1, <4>4, OfFinite
        <4>6. Cardinality(P) <= Cardinality(Of(Models[model], mem.watermark))
          BY <4>3, <4>5, FS_Subset
        <4>7. Cardinality(Of(Models[model], mem.watermark)) <= MaxPerSecond
          BY <1>0, <4>2 DEF FewPerSecond
        <4>8. Cardinality(P) >= PageSize /\ MaxPerSecond < PageSize
          BY <4>1 DEF AllSeen, AloneOnTheWatermark
        <4> QED  BY <4>5, <4>6, <4>7, <4>8, Bounds
      <3>2. CASE ~full
        BY <1>0, <1>2, <1>8, <3>2 DEF Beyond
      <3> QED  BY <3>1, <3>2
    <2>2. Done'
      BY <1>1, <1>5, <1>6, <1>8, <2>1 DEF Done, Undecided
    <2> QED  BY <1>1, <2>2 DEF InModel
  <1> QED  BY <1>7, <1>8

\* The scan keeps its promises in every step, its own and those of the others.
LEMMA NextScan == ASSUME AloneOnTheWatermark, Inv, [Next]_vars PROVE Done' /\ InModel'
  <1>0. TypeInv /\ Done /\ InModel
    BY DEF Inv
  <1>1. CASE StartScan
    BY <1>1, Outside DEF StartScan
  <1>2. CASE stampMissingCreatedAt
    BY <1>2, Outside DEF stampMissingCreatedAt
  <1>3. CASE StampsDone
    <2>1. pc' = "query" /\ model' = 1
      BY <1>3 DEF StampsDone
    <2>2. 1..(model' - 1) = {}
      BY <2>1
    <2> QED  BY <2>1, <2>2 DEF Done, InModel
  <1>4. CASE QueryModel
    BY <1>4, QueryModelKeeps
  <1>5. CASE QueryFails
    BY <1>5, QueryFailsKeeps
  <1>6. CASE NextRow
    BY <1>6, NextRowKeeps
  <1>7. ASSUME NEW a \in Assistants, BirthFor(a) PROVE Done' /\ InModel'
    BY <1>7, BirthForKeeps
  <1>8. CASE Decide
    BY <1>8, DecideKeeps
  <1>9. CASE EndModel
    BY <1>9, EndModelKeeps
  <1>10. CASE EndScan \/ Saves \/ PassEnds
    BY <1>0, <1>10, EndScanIs, SavesIs, PassEndsIs, Outside
  <1>11. CASE Grows
    <2>1. pc' \in {"idle", "stamp", "rest"}
      BY <1>0, <1>11, GrowsIs
    <2> QED  BY <2>1, Outside
  <1>12. CASE Drifts
    BY <1>0, <1>12, DriftsAre, QuietKeeps DEF Quiet
  <1>13. ASSUME NEW c \in DOMAIN conv, TurnEnds(c) PROVE Done' /\ InModel'
    BY <1>0, <1>13, TurnEndsIs, QuietKeeps DEF Quiet
  <1>14. ASSUME NEW c \in DOMAIN conv, NEW a \in Assistants, NEW t \in DOMAIN thing, TurnCalls(c, a, t)
         PROVE  Done' /\ InModel'
    BY <1>0, <1>14, TurnCallsIs, QuietKeeps DEF Quiet
  <1>15. CASE Edits
    BY <1>0, <1>15, EditsAre, QuietKeeps DEF Quiet, Edits
  <1>16. CASE UNCHANGED vars
    BY <1>0, <1>16, QuietKeeps DEF Quiet, vars, pass, history
  <1> QED  BY <1>1, <1>2, <1>3, <1>4, <1>5, <1>6, <1>7, <1>8, <1>9, <1>10, <1>11, <1>12, <1>13, <1>14, <1>15, <1>16,
              Steps DEF Edits

\* The first second again: nothing to pass over.
LEMMA InitInv == Init => Inv
  <1> SUFFICES ASSUME Init PROVE Inv
    OBVIOUS
  <1>1. TypeInv /\ Timely
    BY InitTyped, InitTimely
  <1>2. DOMAIN thing = {}
    BY DEF Init
  <1>3. AllSafe
    BY <1>2, LoadState DEF Init, AllSafe, Safe
  <1>4. FewPerSecond
    <2>1. \A m, s : Of(m, s) = {}
      BY <1>2 DEF Of
    <2>2. Cardinality({}) = 0
      BY FS_EmptySet
    <2> QED  BY <2>1, <2>2, Bounds DEF FewPerSecond
  <1>5. Marked
    BY DEF Init, Marked, NoMark
  <1>6. Done /\ InModel
    BY DEF Init, Done, InModel
  <1> QED  BY <1>1, <1>3, <1>4, <1>5, <1>6 DEF Inv

\* Every step keeps all of it.
LEMMA NextInv == ASSUME AloneOnTheWatermark, Inv, [Next]_vars PROVE Inv'
  <1>1. TypeInv' /\ Timely'
    BY NextTyped, NextTimely DEF Inv
  <1>2. FewPerSecond'
    BY NextFew DEF Inv, AloneOnTheWatermark
  <1> QED  BY <1>1, <1>2, NextSafe, NextMarked, NextScan DEF Inv

\* Scan 1 loses nothing: while the Runtime is the only one to move the watermark, Things are
\* dated when they are made, and a page is larger than what one second brings of a Model, the
\* stored watermark passes a Thing, or names it, only once the Thing has been decided.
THEOREM NothingIsPassedOver == ASSUME AloneOnTheWatermark PROVE Spec => []NothingPassedOver
  <1>1. Inv /\ [Next]_vars => Inv'
    BY NextInv
  <1>2. Inv => NothingPassedOver
    BY DEF Inv, AllSafe, Safe, NothingPassedOver
  <1>3. Init => Inv
    BY InitInv
  <1> HIDE DEF Inv, NothingPassedOver
  <1> QED  BY <1>1, <1>2, <1>3, PTL DEF Spec
=============================================================================
