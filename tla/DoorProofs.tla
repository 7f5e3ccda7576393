----------------------------- MODULE DoorProofs -----------------------------
(***************************************************************************)
(* The door stays read-only and a view shows what it asks, for any number  *)
(* of reads, views, Operations and edits, and whatever the allowlists.     *)
(*                                                                         *)
(* DoorStaysReadOnly speaks of a read whose Source runs, two steps after   *)
(* the gate looked at the Thing.  Its invariant carries back to the gate   *)
(* what is known there: that the User had the Operation switched on        *)
(* (Witnessed), and that a writing Operation's flags are right whenever    *)
(* the allowlist is not (Controlled).                                      *)
(*                                                                         *)
(* The ladder of months a Tile counts by has a place for every instant,    *)
(* and only one.                                                           *)
(***************************************************************************)
EXTENDS Door, Integers, FiniteSetTheorems, WellFoundedInduction, TLAPS

Stages == {"none", "asked", "ticket", "forwarded", "allowed", "running", "over"}
Answers == {"none", "value", "nothing"}

ReadType == [page : Pages \cup {"none"}, subject : Subjects \cup {"none"}, op : DoorOps \cup {"none"},
             stage : Stages, hook : {"none", "waiting", "settled"}, answer : Answers, wasOn : BOOLEAN]

ThingType == [key : DoorOps, implementation : {"built-in", "dynamic"}, enabled : Tri, mutating : Tri,
              requiresApproval : Tri, clientReadable : Tri, source : {"compiles", "broken"},
              reconciles : BOOLEAN, egress : {"bookkeeping", "elsewhere"}, parameters : {"object"}]

Typed == /\ read \in [1..MaxAsks -> ReadType]
         /\ catalogue \in [DoorOps -> SUBSET ThingType]
         /\ deployment.wide \in BOOLEAN

\* A read whose Operation is on has seen it on.
Witnessed == \A g \in 1..MaxAsks : read[g].op \in DoorOps /\ On(read[g].op, catalogue) => read[g].wasOn

\* Where the allowlist offers what writes, the Thing says that it writes.
Controlled == deployment.wide => \A op \in DoorOps \cap Writers : \A t \in catalogue[op] : t.mutating = "yes"

\* Only an EXTERNAL_CALL goes to the Runtime, and what is past the gate may run.
PastTheGate(r) ==
    /\ r.page \in External => r.op \in DoorOps
    /\ r.stage \in {"forwarded", "allowed", "running"} => r.page \in External
    /\ r.stage \in {"allowed", "running"} => r.op \notin Writers /\ r.wasOn

ScreenType == [page : Pages \cup {"none"}, subject : Subjects \cup {"none"}, gen : 0..MaxAsks,
               shown : {"nothing", "loading", "key", "ready", "error"}, from : 0..MaxAsks]

\* The view on screen is the newest read's, and the one URL there may be is its own.
ViewInv ==
    /\ screen \in ScreenType
    /\ screen.page # "none" =>
         /\ screen.gen \in 1..MaxAsks /\ screen.from = screen.gen
         /\ read[screen.gen].page = screen.page /\ read[screen.gen].subject = screen.subject
    /\ \A g \in urls : /\ g = screen.gen /\ screen.page = "attachment" /\ screen.shown = "ready"
                       /\ read[g].hook # "waiting"

ReadInv == Typed /\ Witnessed /\ Controlled /\ \A g \in 1..MaxAsks : PastTheGate(read[g])

-----------------------------------------------------------------------------
(* The gate. *)

\* What is admitted is switched on and does not write.
LEMMA AdmittedReads ==
    ASSUME ReadInv, NEW op \in DoorOps, NEW things \in findOperation(op), Admitted(op, things)
    PROVE  op \notin Writers /\ On(op, catalogue)
  <1>1. things = catalogue[op] /\ things # {}
    BY DEF findOperation, Admitted
  <1>2. On(op, catalogue)
    BY <1>1 DEF Admitted, On
  <1>3. ASSUME op \in Writers  PROVE FALSE
    <2>1. op \in Allowlist
      BY DEF Admitted, decide
    <2>2. deployment.wide
      BY <2>1, <1>3, DoorAssumption DEF Allowlist
    <2>3. \A t \in things : t.mutating = "yes"
      BY <1>1, <1>3, <2>2 DEF ReadInv, Controlled
    <2>4. (CHOOSE t \in things : TRUE) \in things
      BY <1>1
    <2>5. CASE \E t \in things : t.implementation = "dynamic"
      BY <2>3, <2>4, <2>5 DEF Admitted, decide
    <2>6. CASE ~\E t \in things : t.implementation = "dynamic"
      BY <2>6, <1>3, DoorAssumption DEF Admitted, decide
    <2> QED  BY <2>5, <2>6
  <1> QED  BY <1>2, <1>3

-----------------------------------------------------------------------------
(* Steps. *)

\* The seeds and an idle client satisfy the first half of the invariant.
LEMMA InitReadInv == Init => ReadInv
  <1> SUFFICES ASSUME Init PROVE ReadInv
    OBVIOUS
  <1>1. \A g \in 1..MaxAsks : read[g] = NoRead
    BY DEF Init
  <1>2. read \in [1..MaxAsks -> ReadType]
    <2>1. NoRead \in ReadType
      BY DEF NoRead, ReadType, Stages, Answers
    <2> QED  BY <2>1 DEF Init
  <1>3. \A op \in DoorOps : Seed(op) \in ThingType
    BY DEF Seed, ThingType, Tri
  <1>4. catalogue = [op \in DoorOps |-> {Seed(op)}]
    BY DEF Init
  <1>5. catalogue \in [DoorOps -> SUBSET ThingType]
    BY <1>3, <1>4
  <1>6. deployment.wide \in BOOLEAN
    BY DEF Init
  <1>7. Controlled
    <2>1. \A op \in DoorOps \cap Writers : Seed(op).mutating = "yes"
      BY DEF Seed
    <2> QED  BY <1>4, <2>1 DEF Controlled
  <1>8. Witnessed
    BY <1>1, DoorAssumption DEF Witnessed, NoRead
  <1>9. \A g \in 1..MaxAsks : PastTheGate(read[g])
    <2>1. NoRead.page = "none" /\ NoRead.stage = "none"
      BY DEF NoRead
    <2>2. "none" \notin External
      BY DEF External, Tiles
    <2> QED  BY <1>1, <2>1, <2>2 DEF PastTheGate
  <1> QED  BY <1>2, <1>5, <1>6, <1>7, <1>8, <1>9 DEF ReadInv, Typed

\* One read moves on, and keeps what it is about.
Moves(g, stage) ==
    /\ read' \in [1..MaxAsks -> ReadType]
    /\ \A h \in 1..MaxAsks : h # g => read'[h] = read[h]
    /\ read'[g].page = read[g].page /\ read'[g].subject = read[g].subject
    /\ read'[g].op = read[g].op /\ read'[g].wasOn = read[g].wasOn
    /\ read'[g].stage = stage
    /\ read[g].hook # "waiting" => read'[g].hook # "waiting"
    /\ UNCHANGED <<catalogue, deployment>>

\* A read that advances moves, and keeps what it is about.
LEMMA AdvanceMoves ==
    ASSUME Typed, NEW g \in 1..MaxAsks, NEW stage \in Stages, Advance(g, stage)
    PROVE  Moves(g, stage)
  <1>1. read \in [1..MaxAsks -> ReadType] /\ read[g] \in ReadType
    BY DEF Typed
  <1>2. read' = [read EXCEPT ![g] = [read[g] EXCEPT !.stage = stage]]
    BY <1>1 DEF Advance
  <1>3. [read[g] EXCEPT !.stage = stage] \in ReadType
    BY <1>1 DEF ReadType
  <1>4. /\ read' \in [1..MaxAsks -> ReadType]
        /\ \A h \in 1..MaxAsks : h # g => read'[h] = read[h]
        /\ read'[g] = [read[g] EXCEPT !.stage = stage]
    BY <1>1, <1>2, <1>3
  <1>5. /\ read'[g].page = read[g].page /\ read'[g].subject = read[g].subject
        /\ read'[g].op = read[g].op /\ read'[g].wasOn = read[g].wasOn
        /\ read'[g].stage = stage /\ read'[g].hook = read[g].hook
    BY <1>1, <1>4 DEF ReadType
  <1> QED  BY <1>4, <1>5 DEF Advance, Moves

\* So does one that is answered on the way,
LEMMA ReturnMoves ==
    ASSUME Typed, NEW g \in 1..MaxAsks, NEW stage \in Stages, NEW answer \in Answers, Return(g, stage, answer)
    PROVE  Moves(g, stage)
  <1> DEFINE a == IF read[g].answer = "none" THEN answer ELSE read[g].answer
             r == [read[g] EXCEPT !.stage = stage, !.answer = a]
  <1>1. read \in [1..MaxAsks -> ReadType] /\ read[g] \in ReadType
    BY DEF Typed
  <1>2. a \in Answers
    BY <1>1 DEF ReadType
  <1>3. read' = [read EXCEPT ![g] = r]
    BY <1>1 DEF Return, ReadType
  <1> HIDE DEF a
  <1>4. r \in ReadType
    BY <1>1, <1>2 DEF ReadType
  <1>5. /\ r.page = read[g].page /\ r.subject = read[g].subject
        /\ r.op = read[g].op /\ r.wasOn = read[g].wasOn
        /\ r.stage = stage /\ r.hook = read[g].hook
    BY <1>1 DEF ReadType
  <1> HIDE DEF r
  <1>6. /\ read' \in [1..MaxAsks -> ReadType]
        /\ \A h \in 1..MaxAsks : h # g => read'[h] = read[h]
        /\ read'[g] = r
    BY <1>1, <1>3, <1>4
  <1> QED  BY <1>5, <1>6 DEF Return, Moves

\* and one whose promise settles, which stays where it is.
LEMMA SettleMoves ==
    ASSUME Typed, NEW g \in 1..MaxAsks, NEW answer, settle(g, answer)
    PROVE  Moves(g, read[g].stage) /\ read'[g].hook = "settled"
  <1> DEFINE r == [read[g] EXCEPT !.hook = "settled"]
  <1>1. read \in [1..MaxAsks -> ReadType] /\ read[g] \in ReadType
    BY DEF Typed
  <1>2. read' = [read EXCEPT ![g] = r]
    BY <1>1 DEF settle
  <1>3. r \in ReadType
    BY <1>1 DEF ReadType
  <1>4. /\ r.page = read[g].page /\ r.subject = read[g].subject
        /\ r.op = read[g].op /\ r.wasOn = read[g].wasOn
        /\ r.stage = read[g].stage /\ r.hook = "settled"
    BY <1>1 DEF ReadType
  <1> HIDE DEF r
  <1>5. /\ read' \in [1..MaxAsks -> ReadType]
        /\ \A h \in 1..MaxAsks : h # g => read'[h] = read[h]
        /\ read'[g] = r
    BY <1>1, <1>2, <1>3
  <1> QED  BY <1>4, <1>5 DEF settle, Moves

\* A read may always move, but into the Runtime only from the server and past the gate only
\* when what the gate saw was a read.
LEMMA MovesKeep ==
    ASSUME ReadInv, NEW g \in 1..MaxAsks, NEW stage \in Stages, Moves(g, stage),
           stage \in {"forwarded", "allowed", "running"} => read[g].page \in External,
           stage \in {"allowed", "running"} => read[g].op \notin Writers /\ read[g].wasOn
    PROVE  ReadInv'
  <1>1. catalogue' = catalogue /\ deployment' = deployment
    BY DEF Moves
  <1>2. Typed' /\ Controlled'
    BY <1>1 DEF Moves, ReadInv, Typed, Controlled
  <1>3. Witnessed'
    BY <1>1 DEF Moves, ReadInv, Witnessed, On
  <1>4. ASSUME NEW h \in 1..MaxAsks  PROVE PastTheGate(read'[h])
    <2>1. PastTheGate(read[h])
      BY DEF ReadInv
    <2>2. CASE h # g
      BY <2>1, <2>2 DEF Moves
    <2>3. CASE h = g
      BY <2>1, <2>3 DEF PastTheGate, Moves
    <2> QED  BY <2>2, <2>3
  <1> QED  BY <1>2, <1>3, <1>4 DEF ReadInv

\* Where a read stands says nothing new when it stays there.
LEMMA SettleKeeps ==
    ASSUME ReadInv, NEW g \in 1..MaxAsks, NEW answer, settle(g, answer)
    PROVE  ReadInv'
  <1>1. Typed /\ PastTheGate(read[g])
    BY DEF ReadInv
  <1>2. read[g] \in ReadType
    BY <1>1 DEF Typed
  <1>3. read[g].stage \in Stages
    BY <1>2 DEF ReadType
  <1>4. Moves(g, read[g].stage)
    BY <1>1, SettleMoves
  <1> QED  BY <1>1, <1>3, <1>4, MovesKeep DEF PastTheGate

\* A new read has gone nowhere yet.
LEMMA OpenKeeps ==
    ASSUME ReadInv, NEW page \in Pages, NEW subject \in Subjects \cup {"none"}, NEW op \in DoorOps \cup {"none"},
           screen \in ScreenType, Open(page, subject, op)
    PROVE  ReadInv'
  <1> DEFINE g == screen.gen + 1
             known == page \in Memoised /\ <<page, subject>> \in memo
             on == op \in DoorOps /\ On(op, catalogue)
             r == [NoRead EXCEPT !.page = page, !.subject = subject, !.op = op,
                                 !.stage = IF known THEN "over" ELSE "asked",
                                 !.hook = IF known THEN "settled" ELSE "waiting",
                                 !.wasOn = on]
  <1>1. g \in 1..MaxAsks
    BY DoorAssumption DEF Open, ScreenType
  <1>2. read' = [read EXCEPT ![g] = r]
    BY DEF Open
  <1>3. OperationOf(page, op)
    BY DEF Open
  <1>4. UNCHANGED <<catalogue, deployment>>
    BY DEF Open
  <1>5. on \in BOOLEAN
    OBVIOUS
  <1> HIDE DEF known, on
  <1>6. r \in ReadType
    BY <1>5 DEF NoRead, ReadType, Stages, Answers
  <1>7. r.page = page /\ r.op = op /\ r.wasOn = on /\ r.stage \in {"over", "asked"}
    BY DEF NoRead
  <1> HIDE DEF r, g
  <1>8. /\ read' \in [1..MaxAsks -> ReadType]
        /\ \A h \in 1..MaxAsks : h # g => read'[h] = read[h]
        /\ read'[g] = r
    BY <1>1, <1>2, <1>6 DEF ReadInv, Typed
  <1>9. Typed' /\ Controlled'
    BY <1>4, <1>8 DEF ReadInv, Typed, Controlled
  <1>10. Witnessed'
    BY <1>4, <1>7, <1>8 DEF ReadInv, Witnessed, On, on
  <1>11. page \in External => op \in DoorOps
    BY <1>3 DEF OperationOf, External, Tiles
  <1>12. PastTheGate(r)
    BY <1>7, <1>11 DEF PastTheGate
  <1>13. \A h \in 1..MaxAsks : PastTheGate(read'[h])
    BY <1>8, <1>12 DEF ReadInv
  <1> QED  BY <1>9, <1>10, <1>13 DEF ReadInv

\* An edit is seen by every read that is under way, and leaves the flags right where they
\* are the only control.
LEMMA UserEditsKeeps ==
    ASSUME ReadInv, NEW op \in DoorOps, UserEdits(op)
    PROVE  ReadInv'
  <1>0. PICK t \in catalogue[op] : \E u \in Edited(t) :
           \/ catalogue' = [catalogue EXCEPT ![op] = (@ \ {t}) \cup {u}]
           \/ catalogue' = [catalogue EXCEPT ![op] = @ \cup {u}]
    BY DEF UserEdits
  <1>1. PICK u \in Edited(t) :
           \/ catalogue' = [catalogue EXCEPT ![op] = (@ \ {t}) \cup {u}]
           \/ catalogue' = [catalogue EXCEPT ![op] = @ \cup {u}]
    BY <1>0
  <1>2. read' = [g \in 1..MaxAsks |->
                   [read[g] EXCEPT !.wasOn = @ \/ (read[g].op \in DoorOps /\ On(read[g].op, catalogue'))]]
    BY DEF UserEdits
  <1>3. deployment' = deployment
    BY DEF UserEdits
  <1>4. Typed
    BY DEF ReadInv
  <1>5. catalogue \in [DoorOps -> SUBSET ThingType] /\ t \in ThingType
    BY <1>4 DEF Typed
  <1>6. u \in ThingType
    BY <1>5 DEF Edited, ThingType, Tri
  <1>7. deployment.wide => u.mutating = t.mutating
    BY <1>5 DEF Edited, ThingType
  <1>8. /\ catalogue' \in [DoorOps -> SUBSET ThingType]
        /\ \A o \in DoorOps : catalogue'[o] \subseteq catalogue[o] \cup (IF o = op THEN {u} ELSE {})
    BY <1>1, <1>5, <1>6
  <1>9. Controlled'
    <2> SUFFICES ASSUME deployment.wide, NEW o \in DoorOps \cap Writers, NEW x \in catalogue'[o]
                 PROVE  x.mutating = "yes"
      BY <1>3 DEF Controlled
    <2>1. \A y \in catalogue[o] : y.mutating = "yes"
      BY DEF ReadInv, Controlled
    <2>2. CASE x \in catalogue[o]
      BY <2>1, <2>2
    <2>3. CASE o = op /\ x = u
      BY <2>1, <2>3, <1>1, <1>7
    <2> QED  BY <1>8, <2>2, <2>3
  <1>10. ASSUME NEW g \in 1..MaxAsks
         PROVE  /\ read'[g] \in ReadType /\ PastTheGate(read'[g])
                /\ read'[g].op \in DoorOps /\ On(read'[g].op, catalogue') => read'[g].wasOn
    <2> DEFINE on == read[g].op \in DoorOps /\ On(read[g].op, catalogue')
               w == read[g].wasOn \/ on
    <2>1. read[g] \in ReadType /\ PastTheGate(read[g])
      BY <1>4 DEF Typed, ReadInv
    <2>2. read'[g] = [read[g] EXCEPT !.wasOn = w]
      BY <1>2, <2>1 DEF ReadType
    <2>3. w \in BOOLEAN /\ (read[g].wasOn => w) /\ (on => w)
      OBVIOUS
    <2> HIDE DEF w
    <2>4. /\ read'[g] \in ReadType /\ read'[g].wasOn = w /\ read'[g].op = read[g].op
          /\ read'[g].page = read[g].page /\ read'[g].stage = read[g].stage
      BY <2>1, <2>2, <2>3 DEF ReadType
    <2>5. PastTheGate(read'[g])
      BY <2>1, <2>3, <2>4 DEF PastTheGate
    <2>6. read'[g].op \in DoorOps /\ On(read'[g].op, catalogue') => read'[g].wasOn
      BY <2>3, <2>4
    <2> QED  BY <2>4, <2>5, <2>6
  <1>11. read' \in [1..MaxAsks -> ReadType]
    BY <1>2, <1>10
  <1>12. Typed'
    BY <1>3, <1>4, <1>8, <1>11 DEF Typed
  <1>13. Witnessed'
    BY <1>10 DEF Witnessed, On
  <1> QED  BY <1>9, <1>10, <1>12, <1>13 DEF ReadInv

\* The invariant speaks of reads, Things and the deployment only.
LEMMA StutterKeeps ==
    ASSUME ReadInv, UNCHANGED <<read, catalogue, deployment>>
    PROVE  ReadInv'
  BY DEF ReadInv, Typed, Witnessed, Controlled, On

\* The steps of a read that the store answers.
LEMMA StoreSettles ==
    ASSUME ReadInv, NEW g \in 1..MaxAsks,
           \/ countThings(g) \/ readAssistants(g) \/ readThing(g) \/ readAssistantName(g)
           \/ fetchAttachment(g) \/ callReturns(g) \/ deadline(g)
    PROVE  \E answer : settle(g, answer)
  BY DEF countThings, readAssistants, readThing, readAssistantName, fetchAttachment, storeAnswers,
         callReturns, deadline

\* The steps of a read between browser, server and Runtime.
Travels(g) ==
    \/ \E stage \in Stages : /\ Advance(g, stage) \/ \E answer \in Answers : Return(g, stage, answer)
                             /\ stage \in {"forwarded", "allowed", "running"} => read[g].page \in External
                             /\ stage \in {"allowed", "running"} => read[g].op \notin Writers /\ read[g].wasOn

\* The server forwards an EXTERNAL_CALL or answers it.
LEMMA RpcTravels ==
    ASSUME ReadInv, NEW g \in 1..MaxAsks, rpc(g)
    PROVE  Travels(g)
  <1>1. "over" \in Stages /\ "forwarded" \in Stages /\ "nothing" \in Answers
    BY DEF Stages, Answers
  <1>2. read[g].page \in External
    BY DEF rpc
  <1>3. Advance(g, "forwarded") \/ Return(g, "over", "nothing")
    BY DEF rpc
  <1> QED  BY <1>1, <1>2, <1>3 DEF Travels

\* A server that gives up leaves the call where it is.
LEMMA TimesOutTravels ==
    ASSUME ReadInv, NEW g \in 1..MaxAsks, serverTimesOut(g)
    PROVE  Travels(g)
  <1>1. read[g].stage \in Stages /\ "nothing" \in Answers
    BY DEF serverTimesOut, Stages, Answers
  <1>2. PastTheGate(read[g])
    BY DEF ReadInv
  <1>3. Return(g, read[g].stage, "nothing")
    BY DEF serverTimesOut
  <1> QED  BY <1>1, <1>2, <1>3 DEF Travels, PastTheGate

\* The inbox lets past the gate only what reads and is on.
LEMMA HandleTravels ==
    ASSUME ReadInv, NEW g \in 1..MaxAsks, handle(g)
    PROVE  Travels(g)
  <1>1. "over" \in Stages /\ "allowed" \in Stages /\ "nothing" \in Answers
    BY DEF Stages, Answers
  <1>2. PastTheGate(read[g]) /\ read[g].stage = "forwarded"
    BY DEF ReadInv, handle
  <1>3. read[g].page \in External /\ read[g].op \in DoorOps
    BY <1>2 DEF PastTheGate
  <1>4. PICK things \in findOperation(read[g].op) :
           IF deployment.secret = "right" /\ Admitted(read[g].op, things)
           THEN Advance(g, "allowed") ELSE Return(g, "over", "nothing")
    BY DEF handle
  <1>5. CASE Admitted(read[g].op, things) /\ Advance(g, "allowed")
    <2>1. read[g].op \notin Writers /\ On(read[g].op, catalogue)
      BY <1>3, <1>5, AdmittedReads
    <2>2. read[g].wasOn
      BY <1>3, <2>1 DEF ReadInv, Witnessed
    <2> QED  BY <1>1, <1>3, <1>5, <2>1, <2>2 DEF Travels
  <1>6. CASE Return(g, "over", "nothing")
    BY <1>1, <1>6 DEF Travels
  <1> QED  BY <1>4, <1>5, <1>6

\* Behind the gate a call runs or is over.
LEMMA RunsTravels ==
    ASSUME ReadInv, NEW g \in 1..MaxAsks, readBodyFails(g) \/ execute(g) \/ send(g)
    PROVE  Travels(g)
  <1>1. "over" \in Stages /\ "running" \in Stages /\ "nothing" \in Answers /\ "value" \in Answers
    BY DEF Stages, Answers
  <1>2. PastTheGate(read[g])
    BY DEF ReadInv
  <1>3. CASE readBodyFails(g)
    BY <1>1, <1>3 DEF Travels, readBodyFails
  <1>4. CASE execute(g)
    <2>1. read[g].stage = "allowed" /\ Advance(g, "running")
      BY <1>4 DEF execute
    <2> QED  BY <1>1, <1>2, <2>1 DEF Travels, PastTheGate
  <1>5. CASE send(g)
    BY <1>1, <1>5 DEF Travels, send
  <1> QED  BY <1>3, <1>4, <1>5

\* A ticket is minted, or the read settles.
LEMMA MintTravels ==
    ASSUME ReadInv, NEW g \in 1..MaxAsks, mint(g)
    PROVE  Travels(g) \/ \E answer : settle(g, answer)
  <1>1. "ticket" \in Stages
    BY DEF Stages
  <1>2. Advance(g, "ticket") \/ settle(g, "nothing")
    BY DEF mint, Advance
  <1> QED  BY <1>1, <1>2 DEF Travels

\* Every step of the system: a view opens or is left, a read travels or settles, an edit.
LEMMA Steps ==
    ASSUME ReadInv, Next
    PROVE  \/ \E page \in Pages, subject \in Subjects \cup {"none"}, op \in DoorOps \cup {"none"} : Open(page, subject, op)
           \/ Leave
           \/ \E g \in 1..MaxAsks : Travels(g) \/ \E answer : settle(g, answer)
           \/ \E op \in DoorOps : UserEdits(op)
  <1>1. CASE \E g \in 1..MaxAsks :
          \/ countThings(g) \/ readAssistants(g) \/ readThing(g) \/ readAssistantName(g)
          \/ mint(g) \/ fetchAttachment(g) \/ callReturns(g) \/ deadline(g)
          \/ rpc(g) \/ serverTimesOut(g) \/ handle(g) \/ readBodyFails(g) \/ execute(g) \/ send(g)
    BY <1>1, StoreSettles, MintTravels, RpcTravels, TimesOutTravels, HandleTravels, RunsTravels
  <1> QED  BY <1>1 DEF Next

\* Travelling keeps the invariant and touches no view.
LEMMA TravelsMoves ==
    ASSUME ReadInv, NEW g \in 1..MaxAsks, Travels(g)
    PROVE  /\ ReadInv'
           /\ \E stage \in Stages : Moves(g, stage)
           /\ UNCHANGED <<screen, urls>>
  <1>1. PICK stage \in Stages :
           /\ Advance(g, stage) \/ \E answer \in Answers : Return(g, stage, answer)
           /\ stage \in {"forwarded", "allowed", "running"} => read[g].page \in External
           /\ stage \in {"allowed", "running"} => read[g].op \notin Writers /\ read[g].wasOn
    BY DEF Travels
  <1>2. Moves(g, stage)
    BY <1>1, AdvanceMoves, ReturnMoves DEF ReadInv
  <1>3. ReadInv'
    BY <1>1, <1>2, MovesKeep
  <1>4. UNCHANGED <<screen, urls>>
    BY <1>1 DEF Advance, Return
  <1> QED  BY <1>2, <1>3, <1>4

\* Every step keeps the first half of the invariant.
LEMMA NextReadInv ==
    ASSUME ReadInv, ViewInv, [Next]_vars
    PROVE  ReadInv'
  <1>1. CASE UNCHANGED vars
    BY <1>1, StutterKeeps DEF vars, clientVars
  <1>2. ASSUME NEW page \in Pages, NEW subject \in Subjects \cup {"none"}, NEW op \in DoorOps \cup {"none"},
               Open(page, subject, op)
        PROVE  ReadInv'
    BY <1>2, OpenKeeps DEF ViewInv
  <1>3. CASE Leave
    BY <1>3, StutterKeeps DEF Leave
  <1>4. ASSUME NEW g \in 1..MaxAsks, Travels(g) \/ \E answer : settle(g, answer)
        PROVE  ReadInv'
    BY <1>4, TravelsMoves, SettleKeeps
  <1>5. ASSUME NEW op \in DoorOps, UserEdits(op)  PROVE ReadInv'
    BY <1>5, UserEditsKeeps
  <1> QED  BY <1>1, <1>2, <1>3, <1>4, <1>5, Steps

-----------------------------------------------------------------------------
(* The view. *)

\* Nothing is on screen at first.
LEMMA InitViewInv == Init => ViewInv
  <1> SUFFICES ASSUME Init PROVE ViewInv
    OBVIOUS
  <1>1. screen = Closed /\ urls = {}
    BY DEF Init
  <1>2. Closed \in ScreenType /\ Closed.page = "none"
    BY DoorAssumption DEF Closed, ScreenType
  <1> QED  BY <1>1, <1>2 DEF ViewInv

\* A read that moves behind a view leaves it what it is about.
LEMMA ViewUnmoved ==
    ASSUME ViewInv, UNCHANGED <<screen, urls>>,
           \A g \in 1..MaxAsks : /\ read'[g].page = read[g].page /\ read'[g].subject = read[g].subject
                                 /\ read[g].hook # "waiting" => read'[g].hook # "waiting"
    PROVE  ViewInv'
  <1>1. \A g \in urls : g \in 1..MaxAsks
    BY DEF ViewInv
  <1> QED  BY <1>1 DEF ViewInv

\* A settled read is shown only by the view that asked.
LEMMA ViewSettled ==
    ASSUME ReadInv, ViewInv, NEW g \in 1..MaxAsks, NEW answer, settle(g, answer)
    PROVE  ViewInv'
  <1>1. Moves(g, read[g].stage) /\ read'[g].hook = "settled"
    BY SettleMoves DEF ReadInv
  <1>2. \A h \in 1..MaxAsks : /\ read'[h].page = read[h].page /\ read'[h].subject = read[h].subject
                              /\ read[h].hook # "waiting" => read'[h].hook # "waiting"
    BY <1>1 DEF Moves
  <1>3. CASE ~Live(g)
    <2>1. UNCHANGED <<screen, urls>>
      BY <1>3 DEF settle
    <2> QED  BY <1>2, <2>1, ViewUnmoved
  <1>4. CASE Live(g)
    <2> DEFINE shows == IF answer = "value" THEN "ready" ELSE Without(screen.page)
    <2>1. screen' = [screen EXCEPT !.shown = shows, !.from = g]
      BY <1>4 DEF settle
    <2>2. shows \in {"ready", "key", "error"} /\ (answer = "value" => shows = "ready")
      BY DEF Without
    <2> HIDE DEF shows
    <2>3. g = screen.gen /\ screen.page # "none"
      BY <1>4 DEF Live
    <2>4. screen \in ScreenType /\ g \in 0..MaxAsks
      BY DEF ViewInv
    <2>5. /\ screen' \in ScreenType /\ screen'.page = screen.page /\ screen'.subject = screen.subject
          /\ screen'.gen = screen.gen /\ screen'.shown = shows /\ screen'.from = g
      BY <2>1, <2>2, <2>4 DEF ScreenType
    <2>6. urls = {}
      BY <2>3 DEF ViewInv, settle
    <2>7. urls' = IF answer = "value" /\ read[g].page = "attachment" THEN {g} ELSE {}
      BY <1>4, <2>6 DEF settle
    <2>8. read[g].page = screen.page /\ read[g].subject = screen.subject
      BY <2>3 DEF ViewInv
    <2>9. \A h \in urls' : /\ h = screen'.gen /\ screen'.page = "attachment" /\ screen'.shown = "ready"
                           /\ read'[h].hook # "waiting"
      BY <1>1, <2>2, <2>3, <2>5, <2>7, <2>8
    <2> QED  BY <1>2, <2>3, <2>5, <2>8, <2>9 DEF ViewInv
  <1> QED  BY <1>3, <1>4

\* Opening and leaving revoke the one URL there may be.
LEMMA Revoked == ASSUME ViewInv PROVE Cleaned = {}
  BY DEF ViewInv, Cleaned

\* A view that opens is the newest read's.
LEMMA ViewOpened ==
    ASSUME ReadInv, ViewInv, NEW page \in Pages, NEW subject \in Subjects \cup {"none"},
           NEW op \in DoorOps \cup {"none"}, Open(page, subject, op)
    PROVE  ViewInv'
  <1> DEFINE g == screen.gen + 1
             shows == IF page \in Memoised /\ <<page, subject>> \in memo THEN "ready" ELSE Before(page)
  <1>1. g \in 1..MaxAsks /\ g \in 0..MaxAsks
    BY DoorAssumption DEF Open, ViewInv, ScreenType
  <1>2. screen' = [page |-> page, subject |-> subject, gen |-> g, shown |-> shows, from |-> g]
    BY DEF Open
  <1>3. shows \in {"ready", "key", "loading"}
    BY DEF Before
  <1>4. urls' = {}
    BY Revoked DEF Open
  <1>5. read'[g].page = page /\ read'[g].subject = subject
    BY <1>1 DEF Open, NoRead, ReadInv, Typed
  <1> HIDE DEF g, shows
  <1>6. screen' \in ScreenType
    BY <1>1, <1>2, <1>3 DEF ScreenType
  <1> QED  BY <1>1, <1>2, <1>4, <1>5, <1>6 DEF ViewInv

\* A view that is left leaves nothing behind.
LEMMA ViewLeft ==
    ASSUME ViewInv, Leave
    PROVE  ViewInv'
  <1>1. screen \in ScreenType
    BY DEF ViewInv
  <1>2. screen' = [Closed EXCEPT !.gen = screen.gen] /\ urls' = {}
    BY Revoked DEF Leave
  <1>3. screen' \in ScreenType /\ screen'.page = "none"
    BY <1>1, <1>2, DoorAssumption DEF Closed, ScreenType
  <1> QED  BY <1>2, <1>3 DEF ViewInv

\* Every step keeps the second half of the invariant.
LEMMA NextViewInv ==
    ASSUME ReadInv, ViewInv, [Next]_vars
    PROVE  ViewInv'
  <1>1. CASE UNCHANGED vars
    BY <1>1, ViewUnmoved DEF vars, clientVars
  <1>2. ASSUME NEW page \in Pages, NEW subject \in Subjects \cup {"none"}, NEW op \in DoorOps \cup {"none"},
               Open(page, subject, op)
        PROVE  ViewInv'
    BY <1>2, ViewOpened
  <1>3. CASE Leave
    BY <1>3, ViewLeft
  <1>4. ASSUME NEW g \in 1..MaxAsks, Travels(g)  PROVE ViewInv'
    <2>1. UNCHANGED <<screen, urls>> /\ \E stage \in Stages : Moves(g, stage)
      BY <1>4, TravelsMoves
    <2>2. \A h \in 1..MaxAsks : /\ read'[h].page = read[h].page /\ read'[h].subject = read[h].subject
                                /\ read[h].hook # "waiting" => read'[h].hook # "waiting"
      BY <2>1 DEF Moves
    <2> QED  BY <2>1, <2>2, ViewUnmoved
  <1>5. ASSUME NEW g \in 1..MaxAsks, NEW answer, settle(g, answer)  PROVE ViewInv'
    BY <1>5, ViewSettled
  <1>6. ASSUME NEW op \in DoorOps, UserEdits(op)  PROVE ViewInv'
    <2>1. UNCHANGED <<screen, urls>>
      BY <1>6 DEF UserEdits
    <2>2. ASSUME NEW h \in 1..MaxAsks
          PROVE  read'[h].page = read[h].page /\ read'[h].subject = read[h].subject /\ read'[h].hook = read[h].hook
      <3>1. read[h] \in ReadType
        BY DEF ReadInv, Typed
      <3>2. read'[h] = [read[h] EXCEPT !.wasOn = @ \/ (read[h].op \in DoorOps /\ On(read[h].op, catalogue'))]
        BY <1>6 DEF UserEdits
      <3> QED  BY <3>1, <3>2 DEF ReadType
    <2> QED  BY <2>1, <2>2, ViewUnmoved
  <1> QED  BY <1>1, <1>2, <1>3, <1>4, <1>5, <1>6, Steps

-----------------------------------------------------------------------------
(* The gate and the grants. *)

\* The Things of a key bear it, and there are finitely many.
Keyed == \A op \in DoorOps : IsFiniteSet(catalogue[op]) /\ \A t \in catalogue[op] : t.key = op

\* As the code is: no Implementation is marked clientReadable, and assistant.call is one.
CodeIsNotOffered ==
    /\ \A key \in DOMAIN Code : Code[key].clientReadable = FALSE
    /\ "assistant.call" \in DoorOps => Registered("assistant.call")

\* The seeds bear their keys.
LEMMA InitKeyed == Init => Keyed
  <1> SUFFICES ASSUME Init, NEW op \in DoorOps
               PROVE  IsFiniteSet(catalogue[op]) /\ \A t \in catalogue[op] : t.key = op
    BY DEF Keyed
  <1>1. catalogue[op] = {Seed(op)} /\ Seed(op).key = op
    BY DEF Init, Seed
  <1> QED  BY <1>1, FS_Singleton

\* An edit keeps the key, and adds one Thing at most.
LEMMA NextKeyed ==
    ASSUME ReadInv, ViewInv, Keyed, [Next]_vars
    PROVE  Keyed'
  <1>1. CASE UNCHANGED catalogue
    BY <1>1 DEF Keyed
  <1>2. ASSUME NEW op \in DoorOps, UserEdits(op)  PROVE Keyed'
    <2>0. PICK t \in catalogue[op] : \E u \in Edited(t) :
             \/ catalogue' = [catalogue EXCEPT ![op] = (@ \ {t}) \cup {u}]
             \/ catalogue' = [catalogue EXCEPT ![op] = @ \cup {u}]
      BY <1>2 DEF UserEdits
    <2>1. PICK u \in Edited(t) :
             \/ catalogue' = [catalogue EXCEPT ![op] = (@ \ {t}) \cup {u}]
             \/ catalogue' = [catalogue EXCEPT ![op] = @ \cup {u}]
      BY <2>0
    <2>2. catalogue \in [DoorOps -> SUBSET ThingType] /\ t \in ThingType
      BY DEF ReadInv, Typed
    <2>3. u.key = t.key
      BY <2>2 DEF Edited, ThingType
    <2>4. t.key = op /\ IsFiniteSet(catalogue[op])
      BY DEF Keyed
    <2>5. IsFiniteSet((catalogue[op] \ {t}) \cup {u}) /\ IsFiniteSet(catalogue[op] \cup {u})
      <3>1. IsFiniteSet(catalogue[op] \ {t})
        BY <2>4, FS_Subset
      <3> QED  BY <2>4, <3>1, FS_AddElement
    <2> SUFFICES ASSUME NEW o \in DoorOps
                 PROVE  IsFiniteSet(catalogue'[o]) /\ \A x \in catalogue'[o] : x.key = o
      BY DEF Keyed
    <2>6. CASE o # op
      <3>1. catalogue'[o] = catalogue[o]
        BY <2>1, <2>2, <2>6
      <3> QED  BY <3>1 DEF Keyed
    <2>7. CASE o = op
      <3>1. catalogue'[o] \in {(catalogue[op] \ {t}) \cup {u}, catalogue[op] \cup {u}}
        BY <2>1, <2>2, <2>7
      <3>2. \A x \in catalogue'[o] : x \in catalogue[op] \/ x = u
        BY <3>1
      <3> QED  BY <2>3, <2>4, <2>5, <2>7, <3>1, <3>2 DEF Keyed
    <2> QED  BY <2>6, <2>7
  <1>3. ASSUME NEW g \in 1..MaxAsks, Travels(g) \/ \E answer : settle(g, answer)  PROVE UNCHANGED catalogue
    BY <1>3, TravelsMoves DEF Moves, settle
  <1>4. CASE \E page \in Pages, subject \in Subjects \cup {"none"}, op \in DoorOps \cup {"none"} :
                Open(page, subject, op)
    BY <1>1, <1>4 DEF Open
  <1>5. CASE Leave \/ UNCHANGED vars
    BY <1>1, <1>5 DEF Leave, vars
  <1> QED  BY <1>1, <1>2, <1>3, <1>4, <1>5, Steps

\* The Thing of the only key there is.
LEMMA OnlyThing ==
    ASSUME NEW t, NEW op, t.key = op
    PROVE  ThingOf(op, <<t>>) = {t} /\ (CHOOSE x \in ThingOf(op, <<t>>) : TRUE) = t
  <1>1. DOMAIN <<t>> = {1} /\ <<t>>[1] = t
    OBVIOUS
  <1>2. {i \in DOMAIN <<t>> : <<t>>[i].key = op} = {1}
    BY <1>1
  <1>3. ThingOf(op, <<t>>) = {t}
    BY <1>1, <1>2 DEF ThingOf
  <1>4. (CHOOSE x \in {t} : TRUE) = t
    OBVIOUS
  <1> QED  BY <1>3, <1>4

\* A Dynamic Operation that runs, as the loop sees it when it is granted.
LEMMA GrantedAsRead ==
    ASSUME NEW op, NEW t, t.key = op, t.implementation = "dynamic", t.parameters = "object",
           t.enabled # "no", ~Registered(op), Compiles(t), hasEgress(t), op # "assistant.call",
           t.mutating # "yes", t.requiresApproval # "yes"
    PROVE  LET offered == grantedTo("receptionist", <<[base |-> op, callee |-> "none"]>>, <<t>>) IN
           /\ offered.granted # {}
           /\ \A o \in offered.granted : ~o.mutating /\ ~o.requiresApproval
  <1> DEFINE grant == [base |-> op, callee |-> "none"]
             grants == <<grant>>
             dynamic == resolveDynamic(op, t)
  <1>1. grant.base = op /\ grant.callee = "none" /\ DOMAIN grants = {1} /\ grants[1] = grant
    OBVIOUS
  <1>2. ThingOf(op, <<t>>) = {t} /\ (CHOOSE x \in ThingOf(op, <<t>>) : TRUE) = t
    BY OnlyThing
  <1>3. Reason(grant, "receptionist", <<t>>) = "granted"
    BY <1>1, <1>2 DEF Reason, Compiles
  <1>4. GrantedOperation(grant, <<t>>) = [dynamic EXCEPT !.callee = "none"]
    BY <1>1, <1>2 DEF GrantedOperation, withCalleeBound
  <1>5. /\ GrantedOperation(grant, <<t>>).mutating = FALSE
        /\ GrantedOperation(grant, <<t>>).requiresApproval = FALSE
    BY <1>4 DEF resolveDynamic
  <1> HIDE DEF grant
  <1>6. grantedTo("receptionist", grants, <<t>>).granted = {GrantedOperation(grant, <<t>>)}
    <2>1. {k \in DOMAIN grants : /\ Reason(grants[k], "receptionist", <<t>>) = "granted"
                                 /\ \A j \in 1..(k - 1) : Reason(grants[j], "receptionist", <<t>>) = "granted"
                                                                => grants[j] # grants[k]} = {1}
      BY <1>1, <1>3
    <2>2. {GrantedOperation(grants[i], <<t>>) : i \in {1}} = {GrantedOperation(grant, <<t>>)}
      BY <1>1
    <2> QED  BY <2>1, <2>2 DEF grantedTo
  <1> QED  BY <1>5, <1>6 DEF grant

\* What the gate admits is one Dynamic Operation of the grants.
LEMMA AdmittedIsGranted == CodeIsNotOffered /\ ReadInv /\ Keyed => GateWithinGrants
  <1> SUFFICES ASSUME CodeIsNotOffered, ReadInv, Keyed, NEW op \in DoorOps, Admitted(op, catalogue[op]),
                      NEW t \in catalogue[op]
               PROVE  LET offered == grantedTo("receptionist", <<[base |-> op, callee |-> "none"]>>, <<t>>) IN
                      /\ offered.granted # {}
                      /\ \A o \in offered.granted : ~o.mutating /\ ~o.requiresApproval
    BY DEF GateWithinGrants
  <1>1. catalogue[op] = {t}
    <2>1. IsFiniteSet(catalogue[op]) /\ Cardinality(catalogue[op]) < 2 /\ Cardinality(catalogue[op]) \in Nat
      BY FS_CardinalityType DEF Keyed, Admitted
    <2>2. Cardinality(catalogue[op]) # 0
      BY <2>1, FS_EmptySet
    <2>3. Cardinality(catalogue[op]) = 1
      BY <2>1, <2>2
    <2>4. PICK x : catalogue[op] = {x}
      BY <2>1, <2>3, FS_Singleton
    <2> QED  BY <2>4
  <1>2. t \in ThingType /\ t.key = op /\ t.enabled # "no" /\ t.parameters = "object"
    BY DEF ReadInv, Typed, Keyed, Admitted, ThingType
  <1>3. (CHOOSE x \in catalogue[op] : TRUE) = t
    BY <1>1
  <1>4. t.implementation = "dynamic"
    <2> SUFFICES ASSUME t.implementation # "dynamic" PROVE FALSE
      OBVIOUS
    <2>1. Registered(op) /\ Code[op].clientReadable
      BY <1>1 DEF Admitted, decide
    <2> QED  BY <2>1 DEF CodeIsNotOffered, Registered
  <1>5. /\ ~Registered(op) /\ t.mutating # "yes" /\ t.requiresApproval # "yes" /\ Compiles(t) /\ hasEgress(t)
    BY <1>3, <1>4 DEF Admitted, decide, clientExecutable
  <1>6. op # "assistant.call"
    BY <1>5 DEF CodeIsNotOffered
  <1> QED  BY <1>2, <1>4, <1>5, <1>6, GrantedAsRead

-----------------------------------------------------------------------------
(* Theorems. *)

\* The two halves together are inductive.
LEMMA Invariant == Spec => [](ReadInv /\ ViewInv)
  <1>1. Init => ReadInv /\ ViewInv
    BY InitReadInv, InitViewInv
  <1>2. ReadInv /\ ViewInv /\ [Next]_vars => (ReadInv /\ ViewInv)'
    BY NextReadInv, NextViewInv
  <1> QED  BY <1>1, <1>2, PTL DEF Spec

(***************************************************************************)
(* No Source that writes runs for a browser (inbound/server.ts, gate.ts),  *)
(* and none of an Operation that was switched off for the whole call: for  *)
(* any number of calls and edits, if the allowlist or the flags are right. *)
(***************************************************************************)
THEOREM ReadDoor == Spec => []DoorStaysReadOnly
  <1>1. ReadInv => DoorStaysReadOnly
    BY DEF ReadInv, PastTheGate, DoorStaysReadOnly
  <1> QED  BY <1>1, Invariant, PTL

(***************************************************************************)
(* Whatever answers come back late, a view of the client shows the answer  *)
(* to what it asks, and holds the only object URL that has not been        *)
(* revoked: for any number of views, subjects and reads under way.         *)
(***************************************************************************)
THEOREM LateAnswersDrop == Spec => []ShownIsAsked
  <1>1. ViewInv => ShownIsAsked
    BY DEF ViewInv, ShownIsAsked
  <1> QED  BY <1>1, Invariant, PTL

(***************************************************************************)
(* The gate (inbound/gate.ts) and the join (operations/registry.ts) read   *)
(* one Thing in two places, and the gate is the narrower for every         *)
(* catalogue the edits can lead to, as long as no Implementation in code   *)
(* is marked clientReadable: for such a one the gate asks the code whether *)
(* it needs approval and the join asks the Thing.                          *)
(***************************************************************************)
THEOREM GateIsNarrower == ASSUME CodeIsNotOffered PROVE Spec => []GateWithinGrants
  <1>1. ReadInv /\ Keyed => GateWithinGrants
    BY AdmittedIsGranted
  <1>2. Init => Keyed
    BY InitKeyed
  <1>3. ReadInv /\ ViewInv /\ Keyed /\ [Next]_vars => Keyed'
    BY NextKeyed
  <1>4. Spec => [](ReadInv /\ ViewInv)
    BY Invariant
  <1> QED  BY <1>1, <1>2, <1>3, <1>4, PTL DEF Spec

-----------------------------------------------------------------------------
(* The ladder of months under the Tile's curve. *)

CONSTANTS MONTHS, MonthStart, Upper

Ladder == INSTANCE Dashboard

\* A set of numbers that is not empty has a least one.
LEMMA LeastExists ==
    ASSUME NEW S, S \subseteq Nat, S # {}
    PROVE  \E x \in S : \A y \in S : x <= y
  <1>1. PICK x \in S : \A y \in S : ~(<<y, x>> \in OpToRel(<, Nat))
    BY NatLessThanWellFounded, WFMin
  <1>2. ASSUME NEW y \in S  PROVE x <= y
    <2>1. x \in Nat /\ y \in Nat
      OBVIOUS
    <2>2. y < x => <<y, x>> \in OpToRel(<, Nat)
      BY <2>1 DEF OpToRel
    <2>3. ~(y < x)
      BY <1>1, <2>2
    <2> QED  BY <2>1, <2>3
  <1> QED  BY <1>2

\* Each month of the curve, and the one after it, starts at its own instant, in order.
Calendar(start, month, n) ==
    /\ \A m \in (month + 1 - n)..(month + 1) : start[m] \in Nat
    /\ \A m, k \in (month + 1 - n)..(month + 1) : m < k => start[m] < start[k]

(***************************************************************************)
(* monthBuckets (buckets.ts): for any number of months and a calendar of   *)
(* any lengths, an instant up to the end of the last month is before the   *)
(* curve or in one of its buckets, never in both and never in two; so no   *)
(* Document is counted twice and none falls between the counts.            *)
(***************************************************************************)
THEOREM EveryInstantHasItsBucket ==
    ASSUME MONTHS \in Nat \ {0}, NEW month \in Int, NEW at \in Nat,
           Calendar(MonthStart, month, MONTHS), at < MonthStart[month + 1]
    PROVE  LET ladder == Ladder!monthBuckets(month)
               Within(k) == Ladder!InRange(at, ladder.months[k].from, ladder.months[k].to)
               Earlier == Ladder!InRange(at, 0, ladder.before)
           IN  /\ Earlier \/ \E k \in 1..MONTHS : Within(k)
               /\ \A k \in 1..MONTHS : Within(k) => ~Earlier
               /\ \A k, j \in 1..MONTHS : Within(k) /\ Within(j) => k = j
  <1> DEFINE Start(k) == MonthStart[month + k - MONTHS]
             S == {k \in 1..MONTHS : at < Start(k + 1)}
             ladder == Ladder!monthBuckets(month)
             Within(k) == Ladder!InRange(at, ladder.months[k].from, ladder.months[k].to)
             Earlier == Ladder!InRange(at, 0, ladder.before)
  <1>1. /\ \A k \in 1..(MONTHS + 1) : Start(k) \in Nat
        /\ \A k, j \in 1..(MONTHS + 1) : k < j => Start(k) < Start(j)
        /\ at < Start(MONTHS + 1)
    BY DEF Calendar
  <1>2. \A k \in 1..MONTHS : /\ month + k - (MONTHS - 1) = month + (k + 1) - MONTHS
                             /\ month - (MONTHS - 1) = month + 1 - MONTHS
    OBVIOUS
  <1>3. ladder = [before |-> Start(1) - 1, months |-> [k \in 1..MONTHS |-> [from |-> Start(k), to |-> Start(k + 1) - 1]]]
    BY <1>2 DEF Ladder!monthBuckets
  <1>4. Earlier <=> at <= Start(1) - 1
    BY <1>3 DEF Ladder!InRange, Ladder!Unstamped
  <1>5. \A k \in 1..MONTHS : Within(k) <=> Start(k) <= at /\ at <= Start(k + 1) - 1
    <2> SUFFICES ASSUME NEW k \in 1..MONTHS
                 PROVE  Within(k) <=> Start(k) <= at /\ at <= Start(k + 1) - 1
      OBVIOUS
    <2>1. ladder.months[k].from = Start(k) /\ ladder.months[k].to = Start(k + 1) - 1
      <3> HIDE DEF Start
      <3> QED  BY <1>3
    <2>2. at # Ladder!Unstamped
      BY DEF Ladder!Unstamped
    <2> HIDE DEF Start, ladder
    <2> QED  BY <2>1, <2>2 DEF Ladder!InRange
  <1> HIDE DEF Earlier, Within, Start
  <1>6. Earlier \/ \E k \in 1..MONTHS : Within(k)
    <2>1. S \subseteq Nat
      OBVIOUS
    <2>2. MONTHS \in S
      BY <1>1
    <2>3. PICK k \in S : \A j \in S : k <= j
      BY <2>1, <2>2, LeastExists
    <2>4. k \in 1..MONTHS /\ at < Start(k + 1)
      BY <2>3
    <2>5. CASE k = 1
      <3>1. Start(1) \in Nat
        BY <1>1
      <3>2. at <= Start(k + 1) - 1
        BY <1>1, <2>4
      <3> QED  BY <1>4, <1>5, <2>4, <2>5, <3>1, <3>2
    <2>6. CASE k # 1
      <3>1. k - 1 \in 1..MONTHS /\ k - 1 \notin S /\ (k - 1) + 1 = k
        BY <2>3, <2>4, <2>6
      <3>2. ~(at < Start(k))
        BY <3>1
      <3>3. Start(k) \in Nat /\ Start(k + 1) \in Nat
        BY <1>1, <2>4
      <3>4. Start(k) <= at /\ at <= Start(k + 1) - 1
        BY <2>4, <3>2, <3>3
      <3> QED  BY <1>5, <2>4, <3>4
    <2> QED  BY <2>5, <2>6
  <1>7. \A k \in 1..MONTHS : Within(k) => ~Earlier
    <2> SUFFICES ASSUME NEW k \in 1..MONTHS, Within(k), Earlier  PROVE FALSE
      OBVIOUS
    <2>1. k = 1 \/ Start(1) < Start(k)
      BY <1>1
    <2>2. Start(1) \in Nat /\ Start(k) \in Nat
      BY <1>1
    <2>3. Start(k) <= at /\ at <= Start(1) - 1
      BY <1>4, <1>5
    <2> QED  BY <2>1, <2>2, <2>3
  <1>8. \A k, j \in 1..MONTHS : Within(k) /\ Within(j) => k = j
    <2> SUFFICES ASSUME NEW k \in 1..MONTHS, NEW j \in 1..MONTHS, k < j, Within(k), Within(j)  PROVE FALSE
      OBVIOUS
    <2>1. k + 1 = j \/ Start(k + 1) < Start(j)
      BY <1>1
    <2>2. Start(k + 1) \in Nat /\ Start(j) \in Nat
      BY <1>1
    <2>3. at <= Start(k + 1) - 1 /\ Start(j) <= at
      BY <1>5
    <2> QED  BY <2>1, <2>2, <2>3
  <1> QED  BY <1>6, <1>7, <1>8 DEF Earlier, Within

=============================================================================
