---------------------------- MODULE WatcherProofs ----------------------------
(***************************************************************************)
(* Two of the Watcher's scans.                                             *)
(*                                                                         *)
(* A sweep skips nothing: for any number of Conversations, any size of     *)
(* page and of pass, any restarts, and any order in which Conversations    *)
(* leave, return and become ready, provided that the Conversations of one  *)
(* second fit a page.  What a sweep still owes is never behind its cursor  *)
(* (Behind).  To keep that when the cursor moves, what is owed and not in  *)
(* the page that is being worked through must lie at or after all of it    *)
(* (InPage); and when the cursor steps past a second because the page held *)
(* nothing new, the page was that whole second (NothingNew), which is      *)
(* where the size of a second matters.                                     *)
(*                                                                         *)
(* The letterbox loses nothing and files nothing twice: for any mails, any *)
(* batches and limits, through either connector, whatever fails, crashes   *)
(* or is moved meanwhile.  The duplicate check has nothing but ExternalRefs *)
(* to go by, so the invariant is about what a ref means: the mail itself   *)
(* (ByMessage), or a UID of a generation (ByUid) that no other mail has,   *)
(* neither in the folder nor in the batch in hand (RefUids).  From that, a *)
(* part that is passed over because its ref is there has landed            *)
(* (RefFound), and every part is still to come or has landed (Landing).    *)
(***************************************************************************)
EXTENDS Sweep, MailIngest, FiniteSetTheorems, SequenceTheorems, WellFoundedInduction, TLAPS

\* The exception the code names: more rows of one second than a page holds.
TiesFitAPage == \A t \in Nat : Cardinality({r \in Rows : CreatedAt[r] = t}) <= PageSize

\* Where the sweep has got to.
Reached == IF active = "idle" THEN kept ELSE cursor

\* What waited when the sweep began waits still, or has been looked at.
Owed == whole \subseteq waiting \cup sweep

\* What the sweep owes a look is ahead of it.
Behind == \A r \in whole \ sweep : Reached <= CreatedAt[r]

\* What the pass has looked at is not ahead of it.
Looked == active = "query" => \A r \in examined : CreatedAt[r] <= cursor

\* Within a page: what is looked at, then what is left of the page, then the others owed.
InPage ==
    active = "rows" =>
        /\ cursor <= newest
        /\ \A r \in examined : CreatedAt[r] <= newest
        /\ \A p \in page : newest <= CreatedAt[p]
        /\ \A r \in whole \ (sweep \cup page) :
               /\ full /\ newest <= CreatedAt[r]
               /\ \A p \in page : CreatedAt[p] <= CreatedAt[r]

\* A full page P, what has been examined of it all of the cursor's second and seen before.
SeenBefore(P) ==
    /\ Cardinality(P) = PageSize
    /\ \A r \in P \ page : r \in sweep /\ CreatedAt[r] = cursor

NothingNew ==
    active = "rows" /\ ~fresh => newest = cursor /\ (full => \E P \in SUBSET Rows : SeenBefore(P))

IInv == TypeOK /\ Owed /\ Behind /\ Looked /\ InPage /\ NothingNew

-----------------------------------------------------------------------------

\* Times are numbers.
LEMMA Times ==
    /\ \A r \in Rows : CreatedAt[r] \in Nat /\ CreatedAt[r] > 0
    /\ Instants \subseteq Nat /\ 0 \in Instants
    /\ \A r \in Rows : CreatedAt[r] \in Instants /\ CreatedAt[r] + 1 \in Instants
  <1>1. \A r \in Rows : CreatedAt[r] \in Nat /\ CreatedAt[r] > 0
    BY SweepSizes
  <1> QED  BY <1>1 DEF Instants

\* Subsets of Rows are finite, and so their sizes are numbers.
LEMMA Sizes ==
    ASSUME NEW P \in SUBSET Rows
    PROVE  IsFiniteSet(P) /\ Cardinality(P) \in Nat
  <1>1. IsFiniteSet(P)
    BY SweepSizes, FS_Subset
  <1> QED  BY <1>1, FS_CardinalityType

\* The larger of two.
LEMMA MaxOfTwo ==
    ASSUME NEW a \in Nat, NEW b \in Nat, a <= b
    PROVE  Max({a, b}) = b
  <1>1. b \in {a, b} /\ \A y \in {a, b} : b >= y
    OBVIOUS
  <1>2. \A x \in {a, b} : (\A y \in {a, b} : x >= y) => x = b
    OBVIOUS
  <1> QED  BY <1>1, <1>2 DEF Max

\* A page: the rows come before what is left out, and nothing is left out of a short page.
LEMMA PageOf ==
    ASSUME NEW S \in SUBSET Rows, NEW P \in PagesOf(S)
    PROVE  /\ P \in SUBSET S
           /\ \A p \in P, s \in S \ P : CreatedAt[p] <= CreatedAt[s]
           /\ Cardinality(P) >= PageSize => Cardinality(P) = PageSize
           /\ ~(Cardinality(P) >= PageSize) => P = S
  <1> DEFINE k == IF Cardinality(S) < PageSize THEN Cardinality(S) ELSE PageSize
  <1>1. /\ P \in SUBSET S /\ Cardinality(P) = k
        /\ \A p \in P, s \in S \ P : CreatedAt[p] <= CreatedAt[s]
    BY DEF PagesOf, kSubset
  <1>2. IsFiniteSet(S) /\ Cardinality(S) \in Nat /\ PageSize \in Nat
    BY Sizes, SweepSizes
  <1>3. Cardinality(S) = Cardinality(P) => S = P
    BY <1>1, <1>2, FS_Subset
  <1> QED  BY <1>1, <1>2, <1>3

-----------------------------------------------------------------------------

\* Before the first pass.
LEMMA InitIInv == Init => IInv
  <1> SUFFICES ASSUME Init PROVE IInv
    OBVIOUS
  <1>1. 0 \in 0..(MaxPages - 1) /\ 0 \in 0..MaxRestarts
    BY SweepSizes
  <1>2. TypeOK
    BY <1>1, Times DEF Init, TypeOK
  <1> QED  BY <1>2 DEF Init, IInv, Owed, Behind, Looked, InPage, NothingNew

\* A step to the pause between two passes that leaves nothing owed behind its cursor.
LEMMA ToIdle ==
    ASSUME IInv, NEW c \in Instants, EndPass(c), UNCHANGED <<whole, sweep>>,
           waiting' \subseteq Rows, ready' \subseteq waiting', Owed', restarts' \in 0..MaxRestarts,
           \A r \in whole \ sweep : c <= CreatedAt[r]
    PROVE  IInv'
  <1>1. 0 \in 0..(MaxPages - 1)
    BY SweepSizes
  <1>2. TypeOK'
    BY <1>1, Times DEF IInv, TypeOK, EndPass, Idle
  <1>3. Behind'
    BY DEF EndPass, Idle, Behind, Reached
  <1> QED  BY <1>2, <1>3 DEF IInv, EndPass, Idle, Looked, InPage, NothingNew

\* Passes begin where the last one ended, or at the beginning, owing everything.
LEMMA StartPassKeeps == ASSUME IInv, StartPass PROVE IInv'
  <1>1. 0 \in 0..(MaxPages - 1)
    BY SweepSizes
  <1>2. TypeOK'
    BY <1>1 DEF IInv, TypeOK, StartPass
  <1>3. Owed'
    BY DEF IInv, Owed, StartPass
  <1>4. Behind'
    <2>1. CASE kept = 0
      BY <2>1, Times DEF IInv, TypeOK, StartPass, Behind, Reached
    <2>2. CASE kept # 0
      BY <2>2 DEF IInv, StartPass, Behind, Reached
    <2> QED  BY <2>1, <2>2
  <1> QED  BY <1>2, <1>3, <1>4 DEF IInv, StartPass, Looked, InPage, NothingNew

\* The page that is read is the front of what lies ahead.
LEMMA ReadPageKeeps == ASSUME IInv, ReadPage PROVE IInv'
  <1> DEFINE S == {r \in waiting : CreatedAt[r] >= cursor}
  <1>1. PICK P \in PagesOf(S) : page' = P /\ full' = (Cardinality(P) >= PageSize)
    BY DEF ReadPage
  <1>2. S \in SUBSET Rows /\ cursor \in Nat /\ waiting \subseteq Rows
    BY Times DEF IInv, TypeOK
  <1>3. /\ P \in SUBSET S
        /\ \A p \in P, s \in S \ P : CreatedAt[p] <= CreatedAt[s]
        /\ Cardinality(P) >= PageSize => Cardinality(P) = PageSize
        /\ ~(Cardinality(P) >= PageSize) => P = S
    BY <1>1, <1>2, PageOf
  <1>4. /\ active = "query" /\ active' = "rows" /\ newest' = cursor /\ fresh' = FALSE
        /\ UNCHANGED <<waiting, ready, kept, cursor, examined, pageNo, whole, sweep, restarts>>
    BY DEF ReadPage
  <1>5. TypeOK'
    <2>1. page' \subseteq Rows /\ full' \in BOOLEAN
      BY <1>1, <1>2, <1>3
    <2> QED  BY <1>4, <2>1 DEF IInv, TypeOK
  <1>6. Owed' /\ Behind' /\ Looked'
    BY <1>4 DEF IInv, Owed, Behind, Reached, Looked
  <1>7. InPage'
    <2>1. \A r \in examined : CreatedAt[r] <= cursor
      BY <1>4 DEF IInv, Looked
    <2>2. \A p \in P : cursor <= CreatedAt[p]
      BY <1>2, <1>3, Times
    <2>3. \A r \in whole \ sweep : r \in S /\ cursor <= CreatedAt[r]
      BY <1>2, <1>4, Times DEF IInv, Owed, Behind, Reached
    <2>4. \A r \in whole \ (sweep \cup P) :
             /\ full' /\ cursor <= CreatedAt[r] /\ \A p \in P : CreatedAt[p] <= CreatedAt[r]
      BY <1>1, <1>3, <2>3
    <2> QED  BY <1>1, <1>2, <1>4, <2>1, <2>2, <2>4 DEF InPage
  <1>8. NothingNew'
    <2>1. full' => P \in SUBSET Rows /\ Cardinality(P) = PageSize
      BY <1>1, <1>2, <1>3
    <2>2. P \in SUBSET Rows /\ Cardinality(P) = PageSize => SeenBefore(P)'
      BY <1>1 DEF SeenBefore
    <2> QED  BY <1>4, <2>1, <2>2 DEF NothingNew
  <1> QED  BY <1>5, <1>6, <1>7, <1>8 DEF IInv

\* One row: the earliest that is left of the page.
LEMMA ExamineRowKeeps == ASSUME IInv, ExamineRow PROVE IInv'
  <1>1. PICK r \in page :
           /\ \A s \in page : CreatedAt[r] <= CreatedAt[s]
           /\ page' = page \ {r}
           /\ newest' = Max({newest, CreatedAt[r]})
           /\ examined' = examined \cup {r}
           /\ fresh' = (fresh \/ r \notin examined)
           /\ sweep' = sweep \cup {r}
           /\ IF r \in ready /\ r \notin examined
                 THEN waiting' = waiting \ {r} /\ ready' = ready \ {r}
                 ELSE UNCHANGED <<waiting, ready>>
    BY DEF ExamineRow
  <1>2. /\ active = "rows" /\ active' = "rows"
        /\ UNCHANGED <<kept, cursor, pageNo, full, active, whole, restarts>>
    BY DEF ExamineRow
  <1>3. /\ page \subseteq Rows /\ r \in Rows /\ newest \in Nat /\ cursor \in Nat
        /\ CreatedAt[r] \in Nat /\ waiting \subseteq Rows /\ whole \subseteq Rows
    BY Times DEF IInv, TypeOK
  <1>4. newest <= CreatedAt[r] /\ newest' = CreatedAt[r]
    <2>1. newest <= CreatedAt[r]
      BY <1>2 DEF IInv, InPage
    <2> QED  BY <1>1, <1>3, <2>1, MaxOfTwo
  <1>5. TypeOK'
    <2>1. newest' \in Instants /\ (fresh \/ r \notin examined) \in BOOLEAN
      BY <1>3, <1>4, Times
    <2>2. waiting' \subseteq Rows /\ ready' \subseteq waiting'
      BY <1>1 DEF IInv, TypeOK
    <2> QED  BY <1>1, <1>2, <2>1, <2>2 DEF IInv, TypeOK
  <1>6. Owed' /\ Behind' /\ Looked'
    BY <1>1, <1>2 DEF IInv, Owed, Behind, Reached, Looked
  <1>7. InPage'
    <2>1. cursor <= newest'
      BY <1>2, <1>3, <1>4 DEF IInv, InPage
    <2>2. \A e \in examined' : CreatedAt[e] <= newest'
      <3>1. \A e \in examined : CreatedAt[e] <= newest /\ CreatedAt[e] \in Nat
        BY <1>2, Times DEF IInv, InPage, TypeOK
      <3> QED  BY <1>1, <1>3, <1>4, <3>1
    <2>3. \A p \in page' : newest' <= CreatedAt[p]
      BY <1>1, <1>4
    <2>4. \A w \in whole \ (sweep' \cup page') :
             full' /\ newest' <= CreatedAt[w] /\ \A p \in page' : CreatedAt[p] <= CreatedAt[w]
      <3>1. \A w \in whole \ (sweep' \cup page') : w \in whole \ (sweep \cup page)
        BY <1>1
      <3>2. \A w \in whole \ (sweep \cup page) : full /\ \A p \in page : CreatedAt[p] <= CreatedAt[w]
        BY <1>2 DEF IInv, InPage
      <3> QED  BY <1>1, <1>2, <1>4, <3>1, <3>2
    <2> QED  BY <1>2, <2>1, <2>2, <2>3, <2>4 DEF InPage
  <1>8. NothingNew'
    <2> SUFFICES ASSUME ~fresh' PROVE newest' = cursor /\ (full => \E P \in SUBSET Rows : SeenBefore(P)')
      BY <1>2 DEF NothingNew
    <2>1. ~fresh /\ r \in examined
      BY <1>1
    <2>2. newest = cursor /\ (full => \E P \in SUBSET Rows : SeenBefore(P))
      BY <1>2, <2>1 DEF IInv, NothingNew
    <2>3. CreatedAt[r] = cursor
      <3>1. CreatedAt[r] <= newest
        BY <1>2, <2>1 DEF IInv, InPage
      <3> QED  BY <1>3, <1>4, <2>2, <3>1
    <2>4. \A P \in SUBSET Rows : SeenBefore(P) => SeenBefore(P)'
      BY <1>1, <1>2, <2>3 DEF SeenBefore
    <2> QED  BY <1>4, <2>2, <2>3, <2>4
  <1> QED  BY <1>5, <1>6, <1>7, <1>8 DEF IInv

-----------------------------------------------------------------------------

\* A page that is done: where the cursor goes nothing that is owed is left behind, and
\* nothing that was looked at is ahead.
LEMMA CursorMoves ==
    ASSUME TiesFitAPage, IInv, active = "rows", page = {}, full
    PROVE  /\ NextCursor \in Instants
           /\ \A r \in whole \ sweep : NextCursor <= CreatedAt[r]
           /\ \A r \in examined : CreatedAt[r] <= NextCursor
  <1>1. /\ newest \in Nat /\ cursor \in Nat /\ newest \in Instants /\ whole \subseteq Rows
        /\ examined \subseteq Rows /\ fresh \in BOOLEAN
    BY Times DEF IInv, TypeOK
  <1>2. \A r \in whole \ sweep : newest <= CreatedAt[r]
    BY DEF IInv, InPage
  <1>3. \A r \in examined : CreatedAt[r] <= newest /\ CreatedAt[r] \in Nat
    BY <1>1, Times DEF IInv, InPage
  <1>4. CASE fresh
    BY <1>1, <1>2, <1>3, <1>4 DEF NextCursor
  <1>5. CASE ~fresh
    <2> DEFINE Tie == {r \in Rows : CreatedAt[r] = cursor}
    <2>1. newest = cursor /\ NextCursor = cursor + 1
      BY <1>5 DEF IInv, NothingNew, NextCursor
    <2>2. PICK P \in SUBSET Rows : SeenBefore(P)
      BY <1>5 DEF IInv, NothingNew
    <2>3. P \in SUBSET Tie /\ P \subseteq sweep /\ Cardinality(P) = PageSize
      BY <2>2 DEF SeenBefore
    <2>4. Tie = P
      <3>1. Tie \in SUBSET Rows
        OBVIOUS
      <3>2. Cardinality(Tie) <= PageSize
        BY <1>1 DEF TiesFitAPage
      <3> HIDE DEF Tie
      <3>3. IsFiniteSet(Tie) /\ Cardinality(Tie) \in Nat /\ PageSize \in Nat
        BY <3>1, Sizes, SweepSizes
      <3>4. Cardinality(P) <= Cardinality(Tie) /\ (Cardinality(Tie) = Cardinality(P) => Tie = P)
        BY <2>3, <3>3, FS_Subset
      <3> QED  BY <2>3, <3>2, <3>3, <3>4
    <2>5. \A r \in whole \ sweep : cursor + 1 <= CreatedAt[r]
      <3>1. \A r \in whole \ sweep : CreatedAt[r] \in Nat /\ CreatedAt[r] # cursor
        BY <1>1, <2>3, <2>4, Times
      <3> QED  BY <1>1, <1>2, <2>1, <3>1
    <2>6. cursor + 1 \in Instants
      <3>1. PICK r \in P : TRUE
        <4>1. PageSize # 0
          BY SweepSizes
        <4> QED  BY <2>3, <4>1, FS_EmptySet
      <3> QED  BY <2>3, <3>1, Times
    <2> QED  BY <1>1, <1>3, <2>1, <2>5, <2>6
  <1> QED  BY <1>1, <1>4, <1>5

\* The end of a page and of a pass.
LEMMA FullPageKeeps == ASSUME TiesFitAPage, IInv, FullPage PROVE IInv'
  <1>1. /\ active = "rows" /\ page = {} /\ full
        /\ UNCHANGED <<waiting, ready, whole, sweep, restarts>>
    BY DEF FullPage
  <1>2. /\ NextCursor \in Instants
        /\ \A r \in whole \ sweep : NextCursor <= CreatedAt[r]
        /\ \A r \in examined : CreatedAt[r] <= NextCursor
    BY <1>1, CursorMoves
  <1>3. waiting' \subseteq Rows /\ ready' \subseteq waiting' /\ Owed' /\ restarts' \in 0..MaxRestarts
    BY <1>1 DEF IInv, TypeOK, Owed
  <1>4. CASE EndPass(NextCursor)
    BY <1>1, <1>2, <1>3, <1>4, ToIdle
  <1>5. CASE /\ pageNo + 1 < MaxPages
             /\ cursor' = NextCursor /\ pageNo' = pageNo + 1 /\ active' = "query"
             /\ UNCHANGED <<kept, examined, page, full, newest, fresh>>
    <2>1. pageNo' \in 0..(MaxPages - 1)
      BY <1>5, SweepSizes DEF IInv, TypeOK
    <2>2. TypeOK'
      BY <1>1, <1>2, <1>5, <2>1 DEF IInv, TypeOK
    <2>3. Behind' /\ Looked'
      BY <1>1, <1>2, <1>5 DEF Behind, Reached, Looked
    <2> QED  BY <1>3, <1>5, <2>2, <2>3 DEF IInv, InPage, NothingNew
  <1> QED  BY <1>4, <1>5 DEF FullPage

\* The end of a sweep, and of the process.
LEMMA EndsKeep == ASSUME IInv, ShortPage \/ Restart PROVE IInv'
  <1>1. EndPass(0) /\ UNCHANGED <<waiting, ready, whole, sweep>> /\ restarts' \in 0..MaxRestarts
    <2>1. restarts \in 0..MaxRestarts /\ MaxRestarts \in Nat
      BY SweepSizes DEF IInv, TypeOK
    <2> QED  BY <2>1 DEF ShortPage, Restart, EndPass, Idle
  <1>2. waiting' \subseteq Rows /\ ready' \subseteq waiting' /\ Owed'
    BY <1>1 DEF IInv, TypeOK, Owed
  <1>3. 0 \in Instants /\ \A r \in whole \ sweep : 0 <= CreatedAt[r]
    BY Times DEF IInv, TypeOK
  <1> QED  BY <1>1, <1>2, <1>3, ToIdle

\* The world between two scans.
LEMMA WorldKeeps ==
    ASSUME IInv, NEW r \in Rows, BecomesReady(r) \/ Suspends(r) \/ Leaves(r)
    PROVE  IInv'
  <1>1. /\ UNCHANGED <<kept, scan, sweep, restarts>> /\ whole' \subseteq whole
        /\ active # "idle" => whole' = whole
    BY DEF BecomesReady, Suspends, Leaves
  <1>2. TypeOK' /\ Owed'
    BY DEF IInv, TypeOK, Owed, scan, BecomesReady, Suspends, Leaves
  <1>3. Behind' /\ Looked'
    BY <1>1 DEF IInv, Behind, Reached, Looked, scan
  <1>4. InPage' /\ NothingNew'
    BY <1>1 DEF IInv, InPage, NothingNew, SeenBefore, scan
  <1> QED  BY <1>2, <1>3, <1>4 DEF IInv

-----------------------------------------------------------------------------

\* One case per action.
LEMMA NextIInv == TiesFitAPage /\ IInv /\ [Next]_vars => IInv'
  <1> SUFFICES ASSUME TiesFitAPage, IInv, [Next]_vars PROVE IInv'
    OBVIOUS
  <1>1. CASE Scan
    BY <1>1, StartPassKeeps, ReadPageKeeps, ExamineRowKeeps, EndsKeep, FullPageKeeps DEF Scan
  <1>2. CASE Restart
    BY <1>2, EndsKeep
  <1>3. CASE \E r \in Rows : BecomesReady(r) \/ Suspends(r) \/ Leaves(r)
    BY <1>3, WorldKeeps
  <1>4. CASE UNCHANGED vars
    BY <1>4 DEF vars, scan, IInv, TypeOK, Owed, Behind, Reached, Looked, InPage, NothingNew, SeenBefore
  <1> QED  BY <1>1, <1>2, <1>3, <1>4 DEF Next

\* The inductive invariant holds throughout.
LEMMA Invariant == ASSUME TiesFitAPage PROVE Spec => []IInv
  <1>1. IInv /\ [Next]_vars => IInv'
    BY NextIInv
  <1> QED  BY <1>1, InitIInv, PTL DEF Spec

-----------------------------------------------------------------------------
(* The types need no hypothesis: the cursor steps past a second only behind a *)
(* row of it.                                                                 *)

\* Rows come in order, and a full page that is done ended with one.
AtARow ==
    active = "rows" =>
        /\ \A p \in page : newest <= CreatedAt[p]
        /\ full => page # {} \/ \E r \in Rows : newest = CreatedAt[r]

\* The types, with what they rest on.
TypeInv == TypeOK /\ AtARow

\* One case per action.
LEMMA NextTypeInv == TypeInv /\ [Next]_vars => TypeInv'
  <1> SUFFICES ASSUME TypeInv, [Next]_vars PROVE TypeInv'
    OBVIOUS
  <1> USE DEF TypeInv
  <1>0. /\ 0 \in 0..(MaxPages - 1) /\ MaxRestarts \in Nat /\ MaxPages \in Nat /\ PageSize \in Nat \ {0}
        /\ 0 \in Instants /\ waiting \subseteq Rows /\ page \subseteq Rows /\ newest \in Nat /\ cursor \in Nat
    BY SweepSizes, Times DEF TypeOK
  <1>1. CASE StartPass
    BY <1>0, <1>1 DEF TypeOK, AtARow, StartPass
  <1>2. CASE ReadPage
    <2>1. PICK P \in PagesOf({r \in waiting : CreatedAt[r] >= cursor}) :
             page' = P /\ full' = (Cardinality(P) >= PageSize)
      BY <1>2 DEF ReadPage
    <2>2. P \subseteq Rows /\ \A p \in P : cursor <= CreatedAt[p]
      BY <1>0, <2>1, PageOf, Times
    <2>3. Cardinality(P) >= PageSize => P # {}
      BY <1>0, FS_EmptySet
    <2>4. /\ newest' = cursor /\ fresh' = FALSE /\ active' = "rows" /\ full' \in BOOLEAN
          /\ UNCHANGED <<waiting, ready, kept, cursor, examined, pageNo, whole, sweep, restarts>>
      BY <1>2, <2>1 DEF ReadPage
    <2>5. TypeOK'
      BY <2>1, <2>2, <2>4 DEF TypeOK
    <2>6. AtARow'
      BY <2>1, <2>2, <2>3, <2>4 DEF AtARow
    <2> QED  BY <2>5, <2>6
  <1>3. CASE ExamineRow
    <2>1. PICK r \in page :
             /\ \A s \in page : CreatedAt[r] <= CreatedAt[s]
             /\ page' = page \ {r} /\ newest' = Max({newest, CreatedAt[r]})
             /\ examined' = examined \cup {r} /\ fresh' = (fresh \/ r \notin examined)
             /\ sweep' = sweep \cup {r}
             /\ waiting' \subseteq waiting /\ ready' \subseteq waiting'
      BY <1>3 DEF ExamineRow, TypeOK
    <2>2. /\ active = "rows" /\ UNCHANGED <<kept, cursor, pageNo, full, active, whole, restarts>>
      BY <1>3 DEF ExamineRow
    <2>3. r \in Rows /\ CreatedAt[r] \in Nat /\ newest <= CreatedAt[r]
      BY <1>0, <2>1, <2>2, Times DEF AtARow
    <2>4. newest' = CreatedAt[r] /\ newest' \in Instants
      BY <1>0, <2>1, <2>3, MaxOfTwo, Times
    <2>5. (fresh \/ r \notin examined) \in BOOLEAN
      OBVIOUS
    <2>6. TypeOK'
      BY <1>0, <2>1, <2>2, <2>3, <2>4, <2>5 DEF TypeOK
    <2>7. AtARow'
      BY <2>1, <2>2, <2>3, <2>4 DEF AtARow
    <2> QED  BY <2>6, <2>7
  <1>4. CASE ShortPage \/ Restart
    <2>1. /\ EndPass(0) /\ restarts' \in 0..MaxRestarts /\ UNCHANGED <<waiting, ready, whole, sweep>>
      BY <1>0, <1>4 DEF ShortPage, Restart, TypeOK, EndPass, Idle
    <2> QED  BY <1>0, <2>1 DEF EndPass, Idle, TypeOK, AtARow
  <1>5. CASE FullPage
    <2>1. NextCursor \in Instants
      <3>1. PICK r \in Rows : newest = CreatedAt[r]
        BY <1>5 DEF FullPage, AtARow
      <3> QED  BY <3>1, Times DEF NextCursor
    <2>2. CASE pageNo + 1 < MaxPages
      <3>1. /\ cursor' = NextCursor /\ pageNo' = pageNo + 1 /\ active' = "query"
            /\ UNCHANGED <<kept, examined, page, full, newest, fresh, waiting, ready, whole, sweep, restarts>>
        <4>1. pageNo + 1 # MaxPages
          BY <1>0, <2>2 DEF TypeOK
        <4> QED  BY <1>5, <4>1 DEF FullPage
      <3>2. pageNo' \in 0..(MaxPages - 1)
        BY <1>0, <2>2, <3>1 DEF TypeOK
      <3> QED  BY <2>1, <3>1, <3>2 DEF TypeOK, AtARow
    <2>3. CASE ~(pageNo + 1 < MaxPages)
      <3>1. EndPass(NextCursor) /\ UNCHANGED <<waiting, ready, whole, sweep, restarts>>
        BY <1>5, <2>3 DEF FullPage
      <3> QED  BY <1>0, <2>1, <3>1 DEF EndPass, Idle, TypeOK, AtARow
    <2> QED  BY <2>2, <2>3
  <1>6. CASE \E r \in Rows : BecomesReady(r) \/ Suspends(r) \/ Leaves(r)
    BY <1>6 DEF BecomesReady, Suspends, Leaves, TypeOK, AtARow, scan
  <1>7. CASE UNCHANGED vars
    BY <1>7 DEF vars, scan, TypeOK, AtARow
  <1> QED  BY <1>1, <1>2, <1>3, <1>4, <1>5, <1>6, <1>7 DEF Next, Scan

\* The pages, cursors and sets of a scan keep their types, however many Conversations share a
\* second: the cursor is always the beginning, the second of a Conversation, or the one after it.
THEOREM TypeCorrect == Spec => []TypeOK
  <1>1. Init => TypeInv
    BY InitIInv DEF IInv, TypeInv, AtARow, Init
  <1>2. TypeInv => TypeOK
    BY DEF TypeInv
  <1> QED  BY <1>1, <1>2, NextTypeInv, PTL DEF Spec

-----------------------------------------------------------------------------

\* Scans 2 and 5 reach every Conversation that waits all through a sweep, whatever the sizes
\* of pages and passes, if the Conversations of one second fit a page.
THEOREM NothingIsSkipped == ASSUME TiesFitAPage PROVE Spec => []SweepSkipsNothing
  <1>1. IInv => SweepSkipsNothing
    BY DEF IInv, InPage, SweepSkipsNothing
  <1> QED  BY <1>1, Invariant, PTL

-----------------------------------------------------------------------------
(* The letterbox: its inductive invariant.                                 *)

Folders == {"incoming", "processed", "rejected", "failed", "elsewhere"}

Steps == {"idle", "mail", "documents", "upload", "create", "move"}

\* The mails of the poll that are still to be filed.
Batch == {todo[i] : i \in DOMAIN todo}

MailTypeOK ==
    /\ transport \in {"imap", "gmail"} /\ maxPerPoll \in Nat \ {0}
    /\ mail \in Seq(Mail)
    /\ folder \in Seq(Folders) /\ Len(folder) = Len(mail)
    /\ uid \in Seq(Nat) /\ Len(uid) = Len(mail)
    /\ judged \in Seq(BOOLEAN) /\ Len(judged) = Len(mail)
    /\ nextUid \in Nat \ {0} /\ uidValidity \in Nat \ {0}
    /\ bigFits \in BOOLEAN
    /\ pc \in Steps /\ dest \in Folders
    /\ todo \in Seq([mail : Mails, uid : Nat]) /\ pending \in Seq(Int)

\* Where the poll is, and what it has in hand.
Where ==
    /\ pc = "idle" => todo = <<>>
    /\ pc \in {"documents", "upload", "create", "move"} => todo # <<>>
    /\ pc \in {"upload", "create"} => pending # <<>>
    /\ pc = "move" => dest \in {"processed", "rejected", "failed"}

\* A mail has a UID while it is in the incoming folder, and no other mail has it.
Uids ==
    \A m \in Mails :
        /\ uid[m] < nextUid
        /\ folder[m] = "incoming" <=> uid[m] # 0
        /\ \A n \in Mails : uid[m] # 0 /\ uid[m] = uid[n] => m = n

\* The UIDs the poll has in hand were issued in this generation, each to one mail.
Issued ==
    \A f \in Batch :
        /\ f.uid # 0 /\ f.uid < nextUid
        /\ \A m \in Mails : uid[m] = f.uid => m = f.mail
        /\ \A g \in Batch : g.uid = f.uid => g.mail = f.mail

ByMessage(d) == d.ref = [mail |-> d.mail, uid |-> 0, uidValidity |-> 0, part |-> d.part]

ByUid(d) ==
    /\ transport = "imap" /\ ~mail[d.mail].id
    /\ d.ref = [mail |-> 0, uid |-> d.ref.uid, uidValidity |-> d.ref.uidValidity, part |-> d.part]
    /\ d.ref.uid \in Nat /\ d.ref.uidValidity \in 1..uidValidity

\* A ref tells which mail a Document is of, or which UID of which generation.
Refs == \A d \in docs : d.mail \in Mails /\ d.part \in Int /\ (ByMessage(d) \/ ByUid(d))

\* No two Documents have one ref.
RefsDiffer == \A d, e \in docs : d.ref = e.ref => d = e

\* A UID of this generation that stands in a ref is its mail's, now and in the poll.
RefUids ==
    \A d \in docs : d.ref.mail = 0 /\ d.ref.uidValidity = uidValidity =>
        /\ d.ref.uid < nextUid /\ d.ref.uid # 0
        /\ \A m \in Mails : uid[m] = d.ref.uid => m = d.mail
        /\ \A f \in Batch : f.uid = d.ref.uid => f.mail = d.mail

Names(d, n) == {<<"skipped", n>>, <<"truncated", 0>>} \cap Range(d.text) # {}

\* While big attachments do not fit, every Document names those of its mail.
Named ==
    ~bigFits => \A d \in docs : \A n \in DOMAIN mail[d.mail].parts :
                   mail[d.mail].parts[n] = "big" => Names(d, n)

HasDocument(ds, m, part) == \E d \in ds : d.mail = m /\ d.part = part

\* Every part is still to come, or has landed.
Underway(parts, toCome, ds, m) ==
    \A i \in DOMAIN parts :
        (\E j \in DOMAIN toCome : toCome[j] = parts[i]) \/ HasDocument(ds, m, parts[i])

Landing ==
    pc \in {"documents", "upload", "create"} =>
        Underway(parseMessage(Now.mail), pending, docs, Now.mail)

\* What ProcessedHasLanded asks of a mail of these attachments, given the cap.
Complete(ds, parts, m, cap) ==
    /\ \E d \in ds : d.mail = m
    /\ \A n \in DOMAIN parts :
          /\ parts[n] = "small" \/ (parts[n] = "big" /\ cap) => HasDocument(ds, m, n)
          /\ parts[n] = "big" => \E d \in ds : d.mail = m /\ (d.part = n \/ Names(d, n))

AboutToFile ==
    pc = "move" /\ dest = "processed" => Complete(docs, mail[Now.mail].parts, Now.mail, bigFits)

Filed == \A m \in Mails : folder[m] = "processed" => Complete(docs, mail[m].parts, m, judged[m])

\* The letterbox, apart from the poll.
Letterbox == Uids /\ Issued /\ Refs /\ RefsDiffer /\ RefUids /\ Named /\ Filed

MailIInv == MailTypeOK /\ Where /\ Letterbox /\ Landing /\ AboutToFile

-----------------------------------------------------------------------------
(* Counting and sequences.                                                 *)

\* A nonempty set of naturals has a least element.
LEMMA LeastExists ==
    ASSUME NEW S, S \subseteq Nat, S # {}
    PROVE  \E x \in S : \A y \in S : x <= y
  <1>1. PICK x \in S : \A y \in S : ~(<<y, x>> \in OpToRel(<, Nat))
    BY NatLessThanWellFounded, WFMin
  <1>2. ASSUME NEW y \in S  PROVE x <= y
    <2>1. x \in Nat /\ y \in Nat
      OBVIOUS
    <2>2. y < x => <<y, x>> \in OpToRel(<, Nat)
      BY <2>1 DEF OpToRel
    <2>3. ~(y < x)
      BY <1>1, <2>2
    <2> QED  BY <2>1, <2>3
  <1> QED  BY <1>2

\* The rank of a member lies between one and the size of the set.
LEMMA RankRange ==
    ASSUME NEW P, IsFiniteSet(P), NEW i \in P, P \subseteq Int
    PROVE  Rank(P, i) \in 1..Cardinality(P)
  <1> DEFINE U == {j \in P : j <= i}
  <1>1. IsFiniteSet(U) /\ Cardinality(U) <= Cardinality(P)
    BY FS_Subset
  <1>2. i \in U
    OBVIOUS
  <1>3. Cardinality(U) # 0
    BY <1>1, <1>2, FS_EmptySet
  <1>4. Cardinality(U) \in Nat /\ Cardinality(P) \in Nat
    BY <1>1, FS_CardinalityType
  <1> QED  BY <1>1, <1>3, <1>4 DEF Rank

\* Of two members the greater has the greater rank.
LEMMA RankOrder ==
    ASSUME NEW P, IsFiniteSet(P), P \subseteq Int, NEW i \in P, NEW j \in P, i < j
    PROVE  Rank(P, i) < Rank(P, j)
  <1> DEFINE U == {k \in P : k <= i}
             V == {k \in P : k <= j}
  <1>1. U \in SUBSET V
    <2>1. \A k \in P : k \in Int /\ (k <= i => k <= j)
      OBVIOUS
    <2> QED  BY <2>1
  <1>2. j \in V /\ j \notin U
    OBVIOUS
  <1>3. IsFiniteSet(V)
    BY FS_Subset
  <1>4. Cardinality(U) <= Cardinality(V) /\ IsFiniteSet(U) /\ Cardinality(V) # Cardinality(U)
    BY <1>1, <1>2, <1>3, FS_Subset
  <1>5. Cardinality(U) \in Nat /\ Cardinality(V) \in Nat
    BY <1>3, <1>4, FS_CardinalityType
  <1> QED  BY <1>4, <1>5 DEF Rank

\* Every number up to the size of the set is the rank of a member, Nth finds it, and it
\* finds every member.
LEMMA NthRank ==
    ASSUME NEW P, IsFiniteSet(P), P \subseteq Int
    PROVE  /\ Cardinality(P) \in Nat
           /\ \A n \in 1..Cardinality(P) : Nth(P, n) \in P /\ Rank(P, Nth(P, n)) = n
           /\ \A i \in P : Rank(P, i) \in 1..Cardinality(P) /\ Nth(P, Rank(P, i)) = i
  <1> DEFINE C == Cardinality(P)
             f == [i \in P |-> Rank(P, i)]
  <1>1. C \in Nat
    BY FS_CardinalityType
  <1>2. \A i \in P : Rank(P, i) \in 1..C
    BY RankRange
  <1>3. \A i, j \in P : Rank(P, i) = Rank(P, j) => i = j
    <2> SUFFICES ASSUME NEW i \in P, NEW j \in P, Rank(P, i) = Rank(P, j), i # j
                 PROVE  FALSE
      OBVIOUS
    <2>1. i \in Int /\ j \in Int
      OBVIOUS
    <2>2. Rank(P, i) \in Int /\ Rank(P, j) \in Int
      BY <1>1, <1>2
    <2>3. CASE i < j
      <3>1. Rank(P, i) < Rank(P, j)
        BY <2>3, RankOrder
      <3> QED  BY <3>1, <2>2
    <2>4. CASE j < i
      <3>1. Rank(P, j) < Rank(P, i)
        BY <2>4, RankOrder
      <3> QED  BY <3>1, <2>2
    <2> QED  BY <2>1, <2>3, <2>4
  <1>4. f \in Injection(P, 1..C)
    BY <1>2, <1>3 DEF Injection, IsInjective
  <1>5. IsFiniteSet(1..C) /\ Cardinality(1..C) = C
    BY <1>1, FS_Interval
  <1>6. f \in Surjection(P, 1..C)
    BY <1>4, <1>5, FS_Injection
  <1>7. \A n \in 1..C : \E i \in P : Rank(P, i) = n
    BY <1>6 DEF Surjection
  <1>8. \A n \in 1..C : Nth(P, n) \in P /\ Rank(P, Nth(P, n)) = n
    BY <1>7 DEF Nth
  <1>9. \A i \in P : Nth(P, Rank(P, i)) = i
    BY <1>2, <1>3, <1>8
  <1> QED  BY <1>1, <1>2, <1>8, <1>9

\* A function on an interval from one is a sequence.
LEMMA FunSeq ==
    ASSUME NEW S, NEW n \in Nat, NEW f \in [1..n -> S]
    PROVE  f \in Seq(S) /\ Len(f) = n /\ DOMAIN f = 1..n
  OBVIOUS

\* The elements of a sequence may be taken from a larger set.
LEMMA WiderSeq ==
    ASSUME NEW S, NEW T, S \subseteq T, NEW s \in Seq(S)
    PROVE  s \in Seq(T)
  <1>1. Len(s) \in Nat /\ s \in [1..Len(s) -> S]
    OBVIOUS
  <1>2. s \in [1..Len(s) -> T]
    BY <1>1
  <1> QED  BY <1>1, <1>2, FunSeq

\* A finite set of numbers, sorted, is a sequence of its members and of all of them.
LEMMA SortedSeq ==
    ASSUME NEW P, IsFiniteSet(P), P \subseteq Int
    PROVE  /\ Sorted(P) \in Seq(P) /\ Len(Sorted(P)) = Cardinality(P)
           /\ \A i \in P : \E n \in DOMAIN Sorted(P) : Sorted(P)[n] = i
  <1>1. /\ Cardinality(P) \in Nat
        /\ \A n \in 1..Cardinality(P) : Nth(P, n) \in P
        /\ \A i \in P : Rank(P, i) \in 1..Cardinality(P) /\ Nth(P, Rank(P, i)) = i
    BY NthRank
  <1>2. Sorted(P) \in Seq(P) /\ Len(Sorted(P)) = Cardinality(P)
    BY <1>1 DEF Sorted
  <1>3. \A i \in P : Rank(P, i) \in DOMAIN Sorted(P) /\ Sorted(P)[Rank(P, i)] = i
    BY <1>1 DEF Sorted
  <1> QED  BY <1>2, <1>3

\* What is picked from a sequence was in it.
LEMMA PickSeq ==
    ASSUME NEW S, NEW s \in Seq(S), NEW P \in SUBSET (DOMAIN s)
    PROVE  Pick(s, P) \in Seq(S)
  <1>1. IsFiniteSet(1..Len(s)) /\ DOMAIN s = 1..Len(s)
    BY FS_Interval
  <1>2. IsFiniteSet(P) /\ P \subseteq Int
    BY <1>1, FS_Subset
  <1>3. Cardinality(P) \in Nat /\ \A n \in 1..Cardinality(P) : Nth(P, n) \in P
    BY <1>2, NthRank
  <1>4. \A n \in 1..Cardinality(P) : s[Nth(P, n)] \in S
    BY <1>3
  <1> QED  BY <1>3, <1>4 DEF Pick

\* The least of a nonempty set of numbers.
LEMMA MinLeast ==
    ASSUME NEW S, S \subseteq Nat, S # {}
    PROVE  Min(S) \in S /\ \A y \in S : Min(S) <= y
  <1>1. \E x \in S : \A y \in S : x <= y
    BY LeastExists
  <1> QED  BY <1>1 DEF Min

\* The beginning of a sequence.
LEMMA FirstSeq ==
    ASSUME NEW S, NEW s \in Seq(S), NEW n \in Nat, n <= Len(s)
    PROVE  SubSeq(s, 1, n) \in Seq(S) /\ Len(SubSeq(s, 1, n)) = n
           /\ \A i \in 1..n : SubSeq(s, 1, n)[i] = s[i]
  OBVIOUS

\* Reversed, a sequence holds what it held.
LEMMA ReverseSeq ==
    ASSUME NEW S, NEW s \in Seq(S)
    PROVE  Reverse(s) \in Seq(S) /\ Len(Reverse(s)) = Len(s)
  <1>1. Len(s) \in Nat /\ \A i \in 1..Len(s) : (Len(s) - i) + 1 \in 1..Len(s)
    OBVIOUS
  <1>2. \A i \in 1..Len(s) : s[(Len(s) - i) + 1] \in S
    BY <1>1
  <1> QED  BY <1>1, <1>2 DEF Reverse

\* A batch as long as the setting allows.
LEMMA FirstBatch ==
    ASSUME NEW S, NEW s \in Seq(S), NEW n \in Nat \ {0}
    PROVE  SubSeq(s, 1, Min({n, Len(s)})) \in Seq(S)
  <1>1. Len(s) \in Nat
    OBVIOUS
  <1>2. Min({n, Len(s)}) \in {n, Len(s)} /\ Min({n, Len(s)}) <= Len(s)
    <2> DEFINE T == {n, Len(s)}
    <2>1. T \subseteq Nat /\ T # {} /\ Len(s) \in T
      BY <1>1
    <2> HIDE DEF T
    <2>2. Min(T) \in T /\ Min(T) <= Len(s)
      BY <2>1, MinLeast
    <2> QED  BY <2>2 DEF T
  <1>3. Min({n, Len(s)}) \in Nat
    BY <1>1, <1>2
  <1> QED  BY <1>2, <1>3, FirstSeq

\* Where the parts of a concatenation stand in it.
LEMMA Concatenated ==
    ASSUME NEW S, NEW s \in Seq(S), NEW t \in Seq(S)
    PROVE  /\ s \o t \in Seq(S) /\ Len(s \o t) = Len(s) + Len(t)
           /\ \A i \in 1..Len(s) : (s \o t)[i] = s[i]
           /\ \A i \in 1..Len(t) : (s \o t)[Len(s) + i] = t[i]
  OBVIOUS

\* One more element.
LEMMA Appended ==
    ASSUME NEW S, NEW s \in Seq(S), NEW e \in S
    PROVE  /\ Append(s, e) \in Seq(S) /\ Len(Append(s, e)) = Len(s) + 1
           /\ Append(s, e)[Len(s) + 1] = e
           /\ \A i \in 1..Len(s) : Append(s, e)[i] = s[i]
  OBVIOUS

-----------------------------------------------------------------------------
(* What a poll takes lies in the incoming folder.                          *)

LEMMA IncomingFinite ==
    ASSUME MailTypeOK
    PROVE  /\ IsFiniteSet(Incoming) /\ Incoming \subseteq Int
           /\ IsFiniteSet({uid[m] : m \in Incoming}) /\ {uid[m] : m \in Incoming} \subseteq Int
  <1>1. Mails = 1..Len(mail) /\ Len(mail) \in Nat /\ DOMAIN uid = Mails /\ DOMAIN folder = Mails
    BY DEF MailTypeOK, Mails
  <1>2. IsFiniteSet(1..Len(mail))
    BY <1>1, FS_Interval
  <1>3. Incoming \in SUBSET (1..Len(mail))
    BY <1>1 DEF Incoming
  <1>4. IsFiniteSet(Incoming)
    BY <1>2, <1>3, FS_Subset
  <1> DEFINE T == {uid[m] : m \in Incoming}
             f == [m \in Incoming |-> uid[m]]
  <1>5. f \in Surjection(Incoming, T)
    BY DEF Surjection
  <1>6. IsFiniteSet(T)
    BY <1>4, <1>5, FS_Surjection
  <1>7. T \subseteq Int
    BY <1>1, <1>3 DEF MailTypeOK
  <1> QED  BY <1>3, <1>4, <1>6, <1>7

LEMMA CandidatesIncoming ==
    ASSUME MailTypeOK
    PROVE  Candidates \in Seq(Incoming)
  <1> DEFINE uids == {uid[m] : m \in Incoming}
             all == [n \in 1..Cardinality(uids) |-> CHOOSE m \in Incoming : uid[m] = Nth(uids, n)]
             backlog == Reverse(Sorted(Incoming))
  <1>1. maxPerPoll \in Nat \ {0}
    BY DEF MailTypeOK
  <1>2. imapCandidates \in Seq(Incoming)
    <2>1. Cardinality(uids) \in Nat /\ \A n \in 1..Cardinality(uids) : Nth(uids, n) \in uids
      BY IncomingFinite, NthRank
    <2>2. \A n \in 1..Cardinality(uids) : \E m \in Incoming : uid[m] = Nth(uids, n)
      BY <2>1
    <2>3. all \in Seq(Incoming)
      <3> DEFINE At(n) == CHOOSE m \in Incoming : uid[m] = Nth(uids, n)
      <3> HIDE DEF uids
      <3>1. \A n \in 1..Cardinality(uids) : At(n) \in Incoming
        BY <2>2
      <3>2. all = [n \in 1..Cardinality(uids) |-> At(n)]
        OBVIOUS
      <3> HIDE DEF At, all
      <3>3. all \in [1..Cardinality(uids) -> Incoming]
        BY <3>1, <3>2
      <3> QED  BY <2>1, <3>3, FunSeq
    <2> HIDE DEF all
    <2>4. SubSeq(all, 1, Min({maxPerPoll, Len(all)})) \in Seq(Incoming)
      BY <1>1, <2>3, FirstBatch
    <2> QED  BY <2>4 DEF imapCandidates, all
  <1>3. gmailCandidates \in Seq(Incoming)
    <2>1. backlog \in Seq(Incoming)
      BY IncomingFinite, SortedSeq, ReverseSeq
    <2> HIDE DEF backlog
    <2>2. SubSeq(backlog, 1, Min({maxPerPoll, Len(backlog)})) \in Seq(Incoming)
      BY <1>1, <2>1, FirstBatch
    <2>3. listMessageIds \in Seq(Incoming)
      BY <2>2 DEF listMessageIds, backlog
    <2> QED  BY <2>3, ReverseSeq DEF gmailCandidates
  <1> QED  BY <1>2, <1>3 DEF Candidates

LEMMA PlanFetched ==
    ASSUME NEW S, NEW c \in Seq(S)
    PROVE  planFetch(c) \in Seq(S)
  <1> DEFINE cuts == {Len(c) + 1} \cup {i \in 1..Len(c) : OverBudget(c, i)}
             met == SubSeq(c, 1, Min(cuts) - 1)
             undownloadable == {i \in DOMAIN met : TooLarge(met[i])}
  <1>1. cuts \subseteq Nat \ {0} /\ cuts # {} /\ Len(c) + 1 \in cuts
    OBVIOUS
  <1>2. Min(cuts) \in cuts /\ Min(cuts) <= Len(c) + 1
    <2> HIDE DEF cuts
    <2> QED  BY <1>1, MinLeast
  <1>3. Min(cuts) - 1 \in Nat /\ Min(cuts) - 1 <= Len(c)
    <2> HIDE DEF cuts
    <2>1. Min(cuts) \in Nat \ {0} /\ Len(c) \in Nat
      <3>1. Len(c) \in Nat
        OBVIOUS
      <3>2. Min(cuts) \in Nat \ {0}
        BY <1>1, <1>2
      <3> QED  BY <3>1, <3>2
    <2> QED  BY <1>2, <2>1
  <1>4. met \in Seq(S)
    <2> HIDE DEF cuts
    <2> QED  BY <1>3, FirstSeq
  <1>5. Pick(met, undownloadable) \in Seq(S) /\ Pick(met, DOMAIN met \ undownloadable) \in Seq(S)
    <2> HIDE DEF met
    <2> QED  BY <1>4, PickSeq
  <1>6. Pick(met, undownloadable) \o Pick(met, DOMAIN met \ undownloadable) \in Seq(S)
    BY <1>5, ConcatProperties
  <1> QED  BY <1>6 DEF planFetch

-----------------------------------------------------------------------------
(* What a message becomes.                                                 *)

\* A mail's parts are a sequence, its size and the length of its text numbers.
LEMMA MailParts ==
    ASSUME MailTypeOK, NEW m \in Mails
    PROVE  /\ mail[m].parts \in Seq({"small", "big", "inline"}) /\ mail[m].note \in Nat
           /\ \A P \in SUBSET (DOMAIN mail[m].parts) : IsFiniteSet(P) /\ P \subseteq Int
  <1>1. mail[m] \in Mail
    BY DEF MailTypeOK, Mails
  <1>2. mail[m].parts \in Seq({"small", "big", "inline"}) /\ mail[m].note \in Nat
    BY <1>1 DEF Mail
  <1>3. DOMAIN mail[m].parts = 1..Len(mail[m].parts) /\ IsFiniteSet(1..Len(mail[m].parts))
    <2>1. DOMAIN mail[m].parts = 1..Len(mail[m].parts) /\ Len(mail[m].parts) \in Nat
      BY <1>2, LenProperties
    <2> QED  BY <2>1, FS_Interval
  <1>4. \A P \in SUBSET (DOMAIN mail[m].parts) : IsFiniteSet(P) /\ P \subseteq Int
    BY <1>3, FS_Subset
  <1> QED  BY <1>2, <1>4

\* A mail becomes at least one Document, and one for every part that fits.
LEMMA PartsKept ==
    ASSUME MailTypeOK, NEW m \in Mails
    PROVE  /\ parseMessage(m) \in Seq(Int) /\ parseMessage(m) # <<>>
           /\ \A n \in DOMAIN mail[m].parts : Fits(mail[m].parts[n]) =>
                 \E i \in DOMAIN parseMessage(m) : parseMessage(m)[i] = n
  <1> DEFINE fitting == {n \in DOMAIN mail[m].parts : Fits(mail[m].parts[n])}
  <1>1. IsFiniteSet(fitting) /\ fitting \subseteq Int
    BY MailParts
  <1>2. /\ partitionAttachments(m) \in Seq(fitting)
        /\ \A n \in fitting : \E i \in DOMAIN partitionAttachments(m) : partitionAttachments(m)[i] = n
    <2> HIDE DEF fitting
    <2>1. Sorted(fitting) \in Seq(fitting) /\ \A n \in fitting : \E i \in DOMAIN Sorted(fitting) : Sorted(fitting)[i] = n
      BY <1>1, SortedSeq
    <2> QED  BY <2>1 DEF partitionAttachments, fitting
  <1> HIDE DEF fitting
  <1>3. partitionAttachments(m) \in Seq(Int)
    BY <1>1, <1>2, WiderSeq
  <1>4. CASE partitionAttachments(m) # <<>>
    <2>1. parseMessage(m) = partitionAttachments(m)
      BY <1>4 DEF parseMessage
    <2> QED  BY <1>2, <1>3, <1>4, <2>1 DEF fitting
  <1>5. CASE partitionAttachments(m) = <<>>
    <2>1. parseMessage(m) = <<-1>> \/ parseMessage(m) = <<0>>
      BY <1>5 DEF parseMessage
    <2>2. DOMAIN partitionAttachments(m) = {}
      BY <1>5
    <2>3. \A n \in fitting : FALSE
      BY <1>2, <2>2
    <2>4. \A n \in DOMAIN mail[m].parts : ~Fits(mail[m].parts[n])
      BY <2>3 DEF fitting
    <2>5. parseMessage(m) \in Seq(Int) /\ parseMessage(m) # <<>>
      <3>1. -1 \in Int /\ 0 \in Int
        OBVIOUS
      <3>2. \A x \in Int : <<x>> \in Seq(Int) /\ <<x>> # <<>>
        OBVIOUS
      <3> QED  BY <2>1, <3>1, <3>2
    <2> QED  BY <2>4, <2>5
  <1> QED  BY <1>4, <1>5

\* While big attachments do not fit, the text of a Document names each of its mail, or
\* says that it was cut.
LEMMA TextNames ==
    ASSUME MailTypeOK, NEW m \in Mails, NEW part, ~bigFits,
           NEW n \in DOMAIN mail[m].parts, mail[m].parts[n] = "big"
    PROVE  {<<"skipped", n>>, <<"truncated", 0>>} \cap Range(extractedText(m, part)) # {}
  <1> DEFINE skipped == {k \in DOMAIN mail[m].parts : mail[m].parts[k] = "big" /\ ~bigFits}
             Passage == {<<"body", i>> : i \in Int} \cup {<<"skipped", i>> : i \in Int}
                          \cup {<<"heading", part>>, <<"read", part>>}
             body == bodyText(m)
             line == describeSkipped(m)
             pdf == withTextLayer(m, part)
             text == (body \o line) \o pdf
  <1>1. IsFiniteSet(skipped) /\ skipped \subseteq Int /\ n \in skipped
    BY MailParts
  <1>2. /\ Cardinality(skipped) \in Nat /\ Rank(skipped, n) \in 1..Cardinality(skipped)
        /\ Nth(skipped, Rank(skipped, n)) = n
        /\ \A i \in 1..Cardinality(skipped) : Nth(skipped, i) \in Int
    <2> HIDE DEF skipped
    <2> QED  BY <1>1, NthRank
  <1>3. body \in Seq(Passage)
    <2>1. mail[m].note \in Nat
      BY MailParts
    <2>2. body = [i \in 1..mail[m].note |-> <<"body", i>>]
      BY DEF bodyText
    <2>3. \A i \in 1..mail[m].note : <<"body", i>> \in Passage
      BY <2>1
    <2> HIDE DEF body, Passage
    <2>4. body \in [1..mail[m].note -> Passage]
      BY <2>2, <2>3
    <2> QED  BY <2>1, <2>4, FunSeq
  <1>4. /\ line \in Seq(Passage) /\ Len(line) = Cardinality(skipped)
        /\ line[Rank(skipped, n)] = <<"skipped", n>>
    <2>1. line = [i \in 1..Cardinality(skipped) |-> <<"skipped", Nth(skipped, i)>>]
      BY DEF describeSkipped
    <2> HIDE DEF skipped, line
    <2>2. \A i \in 1..Cardinality(skipped) : <<"skipped", Nth(skipped, i)>> \in Passage
      <3> SUFFICES ASSUME NEW i \in 1..Cardinality(skipped)
                   PROVE  <<"skipped", Nth(skipped, i)>> \in Passage
        OBVIOUS
      <3>1. PICK k \in Int : k = Nth(skipped, i)
        BY <1>2
      <3> QED  BY <3>1
    <2> HIDE DEF Passage
    <2>3. line \in [1..Cardinality(skipped) -> Passage] /\ line[Rank(skipped, n)] = <<"skipped", n>>
      BY <1>2, <2>1, <2>2
    <2> QED  BY <1>2, <2>3, FunSeq
  <1>5. pdf \in Seq(Passage)
    <2>1. <<"heading", part>> \in Passage /\ <<"read", part>> \in Passage
      OBVIOUS
    <2>2. pdf = <<>> \/ pdf = <<<<"heading", part>>, <<"read", part>>>>
      BY DEF withTextLayer
    <2> HIDE DEF pdf, Passage
    <2>3. <<>> \in Seq(Passage) /\ <<<<"heading", part>>, <<"read", part>>>> \in Seq(Passage)
      BY <2>1
    <2> QED  BY <2>2, <2>3
  <1> HIDE DEF skipped, Passage, body, line, pdf
  <1> DEFINE at == Len(body) + Rank(skipped, n)
  <1>6. text \in Seq(Passage) /\ at \in 1..Len(text) /\ text[at] = <<"skipped", n>>
    <2> DEFINE front == body \o line
    <2>1. Rank(skipped, n) \in 1..Len(line) /\ Len(body) \in Nat /\ Len(line) \in Nat /\ Len(pdf) \in Nat
      BY <1>2, <1>3, <1>4, <1>5
    <2>2. front \in Seq(Passage) /\ Len(front) = Len(body) + Len(line) /\ front[at] = <<"skipped", n>>
      <3>0. body \in Seq(Passage) /\ line \in Seq(Passage)
        BY <1>3, <1>4
      <3>1. /\ front \in Seq(Passage) /\ Len(front) = Len(body) + Len(line)
            /\ \A i \in 1..Len(line) : front[Len(body) + i] = line[i]
        BY <3>0, Concatenated
      <3>2. front[Len(body) + Rank(skipped, n)] = line[Rank(skipped, n)]
        BY <2>1, <3>1
      <3> QED  BY <1>4, <3>1, <3>2
    <2>3. at \in 1..Len(front)
      BY <2>1, <2>2
    <2> HIDE DEF front, at
    <2>4. /\ front \o pdf \in Seq(Passage) /\ Len(front \o pdf) = Len(front) + Len(pdf)
          /\ (front \o pdf)[at] = front[at]
      BY <1>5, <2>2, <2>3, Concatenated
    <2>5. at \in 1..Len(front \o pdf)
      BY <2>1, <2>2, <2>3, <2>4
    <2> QED  BY <2>2, <2>4, <2>5 DEF front
  <1> HIDE DEF at, text
  <1>7. extractedText(m, part) = cappedText(text)
    BY DEF extractedText, text, body, line, pdf
  <1>8. CASE Len(text) <= MaxText
    <2>1. extractedText(m, part) = text
      BY <1>7, <1>8 DEF cappedText
    <2>2. DOMAIN text = 1..Len(text)
      BY <1>6
    <2>3. <<"skipped", n>> \in Range(text)
      BY <1>6, <2>2 DEF Range
    <2> QED  BY <2>1, <2>3
  <1>9. CASE ~(Len(text) <= MaxText)
    <2> DEFINE cut == SubSeq(text, 1, MaxText)
    <2>1. extractedText(m, part) = cut \o <<<<"truncated", 0>>>>
      BY <1>7, <1>9 DEF cappedText
    <2>2. MaxText \in Nat /\ MaxText <= Len(text)
      BY <1>6, <1>9, MailAssumption
    <2>3. cut \in Seq(Passage) /\ Len(cut) = MaxText
      BY <1>6, <2>2, FirstSeq
    <2> HIDE DEF cut
    <2>4. cut \in Seq(Passage \cup {<<"truncated", 0>>})
      BY <2>3
    <2>5. cut \o <<<<"truncated", 0>>>> = Append(cut, <<"truncated", 0>>)
      BY <2>4
    <2>6. /\ MaxText + 1 \in DOMAIN Append(cut, <<"truncated", 0>>)
          /\ Append(cut, <<"truncated", 0>>)[MaxText + 1] = <<"truncated", 0>>
      BY <2>2, <2>3, <2>4
    <2>7. <<"truncated", 0>> \in Range(extractedText(m, part))
      BY <2>1, <2>5, <2>6 DEF Range
    <2> QED  BY <2>7
  <1> QED  BY <1>8, <1>9

-----------------------------------------------------------------------------
(* The letterbox, whatever the poll does to it.                            *)

\* While there is a mail in hand it is one of the batch.
LEMMA InHand ==
    ASSUME MailTypeOK, todo # <<>>
    PROVE  /\ Now \in Batch /\ Now.mail \in Mails /\ Now.uid \in Nat
           /\ Tail(todo) \in Seq([mail : Mails, uid : Nat])
           /\ {Tail(todo)[i] : i \in DOMAIN Tail(todo)} \subseteq Batch
  <1> DEFINE S == [mail : Mails, uid : Nat]
  <1>1. todo \in Seq(S)
    BY DEF MailTypeOK
  <1> HIDE DEF S
  <1>2. /\ 1 \in DOMAIN todo /\ Head(todo) = todo[1] /\ Head(todo) \in S
        /\ Tail(todo) \in Seq(S)
        /\ \A i \in DOMAIN Tail(todo) : i + 1 \in DOMAIN todo /\ Tail(todo)[i] = todo[i + 1]
    BY <1>1
  <1>3. Now \in Batch
    BY <1>2 DEF Now, Batch
  <1>4. Now.mail \in Mails /\ Now.uid \in Nat
    BY <1>2 DEF Now, S
  <1>5. {Tail(todo)[i] : i \in DOMAIN Tail(todo)} \subseteq Batch
    BY <1>2 DEF Batch
  <1> QED  BY <1>2, <1>3, <1>4, <1>5 DEF S

\* Nothing the poll does short of a Document or a move touches it.
LEMMA LetterboxKept ==
    ASSUME Letterbox, UNCHANGED <<mailbox, docs, bigFits, judged>>, Batch' \subseteq Batch
    PROVE  Letterbox'
  <1> USE DEF mailbox, Mails
  <1>1. Uids'
    BY DEF Letterbox, Uids
  <1>2. Issued'
    BY DEF Letterbox, Issued
  <1>3. Refs'
    BY DEF Letterbox, Refs, ByMessage, ByUid
  <1>4. RefsDiffer'
    BY DEF Letterbox, RefsDiffer
  <1>5. RefUids'
    BY DEF Letterbox, RefUids
  <1>6. Named'
    BY DEF Letterbox, Named
  <1>7. Filed'
    BY DEF Letterbox, Filed
  <1> QED  BY <1>1, <1>2, <1>3, <1>4, <1>5, <1>6, <1>7 DEF Letterbox

\* What has landed stays.
LEMMA HasDocumentStays ==
    ASSUME NEW ds, NEW es, ds \subseteq es, NEW m, NEW part, HasDocument(ds, m, part)
    PROVE  HasDocument(es, m, part)
  BY DEF HasDocument

LEMMA CompleteStays ==
    ASSUME NEW ds, NEW es, ds \subseteq es, NEW parts, NEW m, NEW cap, Complete(ds, parts, m, cap)
    PROVE  Complete(es, parts, m, cap)
  BY HasDocumentStays DEF Complete

\* What a mail becomes depends on the mail and the cap.
LEMMA ParseKept ==
    ASSUME UNCHANGED <<mail, bigFits>>
    PROVE  \A m : parseMessage(m)' = parseMessage(m)
  BY DEF parseMessage, partitionAttachments, Fits

\* A Document with the ref of the part in hand is a Document of that part.
LEMMA RefFound ==
    ASSUME MailTypeOK, Letterbox, todo # <<>>, pending # <<>>, NEW d \in docs, d.ref = Ref
    PROVE  d.mail = Now.mail /\ d.part = Head(pending)
  <1> DEFINE m == Now.mail
  <1>1. Now \in Batch /\ m \in Mails /\ m # 0
    <2>1. Mails \subseteq Nat \ {0}
      BY DEF Mails, MailTypeOK
    <2> QED  BY <2>1, InHand
  <1>2. ByMessage(d) \/ ByUid(d)
    BY DEF Letterbox, Refs
  <1>3. Ref.part = Head(pending)
    BY DEF Ref, externalRef, PartNumber
  <1>4. d.part = Head(pending)
    BY <1>2, <1>3 DEF ByMessage, ByUid
  <1>5. CASE mail[m].id \/ transport = "gmail"
    <2>1. Ref.mail = m
      BY <1>5 DEF Ref, externalRef, messageId, synthesiseMessageId
    <2>2. d.ref.mail # 0
      BY <1>1, <2>1
    <2>3. ByMessage(d)
      BY <1>2, <2>2 DEF ByUid
    <2> QED  BY <1>4, <2>1, <2>3 DEF ByMessage
  <1>6. CASE ~mail[m].id /\ transport # "gmail"
    <2>1. Ref.mail = 0 /\ Ref.uid = Now.uid /\ Ref.uidValidity = uidValidity
      BY <1>6 DEF Ref, externalRef, messageId, synthesiseMessageId
    <2>2. \A f \in Batch : f.uid = d.ref.uid => f.mail = d.mail
      BY <2>1 DEF Letterbox, RefUids
    <2> QED  BY <1>1, <1>4, <2>1, <2>2
  <1> QED  BY <1>5, <1>6

\* The Document that is made of the part in hand.
LEMMA LandedStep ==
    ASSUME MailTypeOK, Letterbox, todo # <<>>, pending # <<>>,
           docs' = Landed, UNCHANGED <<mailbox, bigFits, judged>>, Batch' \subseteq Batch
    PROVE  Letterbox' /\ docs \subseteq docs' /\ HasDocument(docs', Now.mail, Head(pending))
  <1>1. CASE HasLanded(Ref)
    <2>1. docs' = docs
      BY <1>1 DEF Landed
    <2>2. PICK d \in docs : d.ref = Ref
      BY <1>1 DEF HasLanded
    <2>3. d.mail = Now.mail /\ d.part = Head(pending)
      BY <2>2, RefFound
    <2>4. HasDocument(docs', Now.mail, Head(pending))
      BY <2>1, <2>3 DEF HasDocument
    <2> QED  BY <2>1, <2>4, LetterboxKept
  <1>2. CASE ~HasLanded(Ref)
    <2> DEFINE m == Now.mail
               part == Head(pending)
               text == extractedText(m, part)
               new == [ref |-> Ref, mail |-> m, part |-> part, text |-> text]
    <2>1. docs' = docs \cup {new}
      BY <1>2 DEF Landed
    <2>2. new.ref = Ref /\ new.mail = m /\ new.part = part /\ new.text = text
      OBVIOUS
    <2>3. Now \in Batch /\ m \in Mails /\ Now.uid \in Nat
      BY InHand
    <2>4. part \in Int
      BY DEF MailTypeOK
    <2>5. \/ /\ mail[m].id \/ transport = "gmail"
             /\ Ref = [mail |-> m, uid |-> 0, uidValidity |-> 0, part |-> part]
          \/ /\ ~mail[m].id /\ transport = "imap"
             /\ Ref = [mail |-> 0, uid |-> Now.uid, uidValidity |-> uidValidity, part |-> part]
      BY DEF Ref, externalRef, messageId, synthesiseMessageId, PartNumber, MailTypeOK
    <2>6. \A d \in docs : d.ref # Ref
      BY <1>2 DEF HasLanded
    <2>7. \A n \in DOMAIN mail[m].parts : ~bigFits /\ mail[m].parts[n] = "big" => Names(new, n)
      BY <2>2, <2>3, TextNames DEF Names
    <2> HIDE DEF new, text, part
    <2>8. Uids'
      BY DEF Letterbox, Uids, mailbox, Mails
    <2>9. Issued'
      BY DEF Letterbox, Issued, mailbox, Mails
    <2>10. Refs'
      <3>1. \A d \in docs : (d.mail \in Mails /\ d.part \in Int /\ (ByMessage(d) \/ ByUid(d)))'
        BY DEF Letterbox, Refs, ByMessage, ByUid, mailbox, Mails
      <3>2. ASSUME NEW d, d = new
            PROVE  (d.mail \in Mails /\ d.part \in Int /\ (ByMessage(d) \/ ByUid(d)))'
        <4>1. ByMessage(d) \/ ByUid(d)
          <5>1. uidValidity \in 1..uidValidity
            BY DEF MailTypeOK
          <5>2. CASE Ref = [mail |-> m, uid |-> 0, uidValidity |-> 0, part |-> part]
            BY <5>2, <2>2, <3>2 DEF ByMessage
          <5>3. CASE /\ ~mail[m].id /\ transport = "imap"
                     /\ Ref = [mail |-> 0, uid |-> Now.uid, uidValidity |-> uidValidity, part |-> part]
            <6>1. Ref.uid = Now.uid /\ Ref.uidValidity = uidValidity
              BY <5>3
            <6> QED  BY <5>1, <5>3, <6>1, <2>2, <2>3, <3>2 DEF ByUid
          <5> QED  BY <2>5, <5>2, <5>3
        <4>2. d.mail \in Mails /\ d.part \in Int
          BY <2>2, <2>3, <2>4, <3>2
        <4> QED  BY <4>1, <4>2 DEF ByMessage, ByUid, mailbox, Mails
      <3>3. ASSUME NEW d \in docs'
            PROVE  (d.mail \in Mails /\ d.part \in Int /\ (ByMessage(d) \/ ByUid(d)))'
        <4>1. CASE d \in docs
          BY <3>1, <4>1
        <4>2. CASE d = new
          BY <3>2, <4>2
        <4> QED  BY <2>1, <4>1, <4>2
      <3>4. (\A d \in docs : d.mail \in Mails /\ d.part \in Int /\ (ByMessage(d) \/ ByUid(d)))'
        BY <3>3
      <3> QED  BY <3>4 DEF Refs
    <2>11. RefsDiffer'
      <3>1. \A d, e \in docs : d.ref = e.ref => d = e
        BY DEF Letterbox, RefsDiffer
      <3> QED  BY <2>1, <2>2, <2>6, <3>1 DEF RefsDiffer
    <2>12. RefUids'
      <3>1. UNCHANGED <<mail, uid, nextUid, uidValidity>>
        BY DEF mailbox
      <3>2. ASSUME NEW d \in docs, d.ref.mail = 0, d.ref.uidValidity = uidValidity
            PROVE  /\ d.ref.uid < nextUid /\ d.ref.uid # 0
                   /\ \A k \in Mails : uid[k] = d.ref.uid => k = d.mail
                   /\ \A f \in Batch' : f.uid = d.ref.uid => f.mail = d.mail
        BY <3>2 DEF Letterbox, RefUids
      <3>3. ASSUME new.ref.mail = 0
            PROVE  /\ new.ref.uid < nextUid /\ new.ref.uid # 0
                   /\ \A k \in Mails : uid[k] = new.ref.uid => k = new.mail
                   /\ \A f \in Batch' : f.uid = new.ref.uid => f.mail = new.mail
        <4>1. m # 0
          BY <2>3 DEF Mails, MailTypeOK
        <4>2. new.ref.uid = Now.uid
          BY <2>2, <2>5, <3>3, <4>1
        <4> QED  BY <2>2, <2>3, <4>2 DEF Letterbox, Issued
      <3>4. ASSUME NEW d \in docs', d.ref.mail = 0, d.ref.uidValidity = uidValidity
            PROVE  /\ d.ref.uid < nextUid /\ d.ref.uid # 0
                   /\ \A k \in Mails : uid[k] = d.ref.uid => k = d.mail
                   /\ \A f \in Batch' : f.uid = d.ref.uid => f.mail = d.mail
        BY <2>1, <3>2, <3>3, <3>4
      <3> QED  BY <3>1, <3>4 DEF RefUids, Mails
    <2>13. Named'
      <3>1. UNCHANGED <<mail, bigFits>>
        BY DEF mailbox
      <3>2. ASSUME ~bigFits, NEW d \in docs', NEW n \in DOMAIN mail[d.mail].parts,
                   mail[d.mail].parts[n] = "big"
            PROVE  Names(d, n)
        <4>1. CASE d \in docs
          BY <3>2, <4>1 DEF Letterbox, Named
        <4>2. CASE d = new
          BY <2>2, <2>7, <3>2, <4>2
        <4> QED  BY <2>1, <4>1, <4>2
      <3> QED  BY <3>1, <3>2 DEF Named
    <2>14. docs \subseteq docs'
      BY <2>1
    <2>15. Filed'
      BY <2>14, CompleteStays DEF Letterbox, Filed, mailbox, Mails
    <2>16. HasDocument(docs', m, part)
      BY <2>1, <2>2 DEF HasDocument
    <2> QED  BY <2>8, <2>9, <2>10, <2>11, <2>12, <2>13, <2>14, <2>15, <2>16 DEF Letterbox, part
  <1> QED  BY <1>1, <1>2

-----------------------------------------------------------------------------
(* The steps of the poll.                                                  *)

\* A step of the poll that leaves the mailbox alone.
LEMMA PollTypes ==
    ASSUME MailTypeOK, UNCHANGED <<mailbox, bigFits, judged>>, pc' \in Steps, dest' \in Folders,
           todo' \in Seq([mail : Mails, uid : Nat]), pending' \in Seq(Int)
    PROVE  MailTypeOK'
  BY DEF MailTypeOK, mailbox, Mails

\* Head and tail of what is still to come.
LEMMA Pending ==
    ASSUME MailTypeOK, pending # <<>>
    PROVE  Head(pending) \in Int /\ Tail(pending) \in Seq(Int)
  BY DEF MailTypeOK

LEMMA UnderwayTail ==
    ASSUME NEW parts, NEW toCome \in Seq(Int), toCome # <<>>, NEW ds, NEW es, ds \subseteq es, NEW m,
           Underway(parts, toCome, ds, m), HasDocument(es, m, Head(toCome))
    PROVE  Underway(parts, Tail(toCome), es, m)
  <1> SUFFICES ASSUME NEW i \in DOMAIN parts
               PROVE  \/ \E j \in DOMAIN Tail(toCome) : Tail(toCome)[j] = parts[i]
                      \/ HasDocument(es, m, parts[i])
    BY DEF Underway
  <1>1. CASE HasDocument(ds, m, parts[i])
    BY <1>1, HasDocumentStays
  <1>2. CASE \E j \in DOMAIN toCome : toCome[j] = parts[i]
    <2>1. PICK j \in DOMAIN toCome : toCome[j] = parts[i]
      BY <1>2
    <2>2. CASE j = 1
      BY <2>1, <2>2
    <2>3. CASE j # 1
      <3>1. j - 1 \in DOMAIN Tail(toCome) /\ Tail(toCome)[j - 1] = toCome[j]
        BY <2>3
      <3> QED  BY <2>1, <3>1
    <2> QED  BY <2>2, <2>3
  <1> QED  BY <1>1, <1>2 DEF Underway

LEMMA BatchKept ==
    ASSUME UNCHANGED todo
    PROVE  Batch' = Batch
  BY DEF Batch

LEMMA fetchBatchInv ==
    ASSUME MailIInv, fetchBatch
    PROVE  MailIInv'
  <1> USE DEF MailIInv
  <1>1. UNCHANGED <<mailbox, docs, settings, pending, dest, judged>> /\ pc' = "mail"
    BY DEF fetchBatch
  <1>2. bigFits' = bigFits /\ UNCHANGED <<mail, folder, uid, nextUid, uidValidity>>
    BY <1>1 DEF settings, mailbox
  <1> DEFINE c == planFetch(Candidates)
  <1>3. c \in Seq(Incoming)
    BY CandidatesIncoming, PlanFetched
  <1>4. todo' = Fetched(c)
    BY DEF fetchBatch
  <1> HIDE DEF c
  <1>5. Len(c) \in Nat /\ \A i \in 1..Len(c) : c[i] \in Incoming
    BY <1>3
  <1>6. \A i \in 1..Len(c) : c[i] \in Mails /\ uid[c[i]] \in Nat
    <2>1. \A m \in Incoming : m \in Mails
      BY DEF Incoming
    <2>2. \A m \in Mails : uid[m] \in Nat
      BY DEF MailTypeOK, Mails
    <2> QED  BY <1>5, <2>1, <2>2
  <1>7. todo' \in Seq([mail : Mails, uid : Nat])
    <2> DEFINE S == [mail : Mails, uid : Nat]
               t == Fetched(c)
    <2>1. t \in [1..Len(c) -> S]
      BY <1>6 DEF Fetched
    <2> HIDE DEF S, t
    <2>2. t \in Seq(S)
      BY <1>5, <2>1, FunSeq
    <2> QED  BY <2>2, <1>4 DEF S, t
  <1>8. MailTypeOK'
    <2>1. dest \in Folders /\ pending \in Seq(Int) /\ "mail" \in Steps
      BY DEF MailTypeOK, Steps
    <2> QED  BY <1>1, <1>2, <1>7, <2>1, PollTypes
  <1>9. Batch' = {[mail |-> c[i], uid |-> uid[c[i]]] : i \in 1..Len(c)}
    <2>1. Batch' = {todo'[i] : i \in DOMAIN todo'}
      BY DEF Batch
    <2>2. DOMAIN todo' = 1..Len(c) /\ \A i \in 1..Len(c) : todo'[i] = [mail |-> c[i], uid |-> uid[c[i]]]
      BY <1>4 DEF Fetched
    <2> QED  BY <2>1, <2>2
  <1>10. \A f \in Batch' : f.mail \in Incoming /\ f.uid = uid[f.mail]
    BY <1>5, <1>9
  <1>11. Uids /\ Incoming \subseteq Mails /\ \A m \in Incoming : folder[m] = "incoming"
    BY DEF Letterbox, Incoming
  <1>12. Uids' /\ Refs' /\ RefsDiffer' /\ Named' /\ Filed'
    <2>1. Uids'
      BY <1>1, <1>2 DEF Letterbox, Uids, Mails
    <2>2. Refs'
      BY <1>1, <1>2 DEF Letterbox, Refs, ByMessage, ByUid, Mails, mailbox
    <2>3. RefsDiffer'
      BY <1>1 DEF Letterbox, RefsDiffer
    <2>4. Named'
      BY <1>1, <1>2 DEF Letterbox, Named
    <2>5. Filed'
      BY <1>1, <1>2 DEF Letterbox, Filed, Mails
    <2> QED  BY <2>1, <2>2, <2>3, <2>4, <2>5
  <1>13. Issued'
    <2>1. \A f \in Batch' :
             /\ f.uid # 0 /\ f.uid < nextUid
             /\ \A m \in Mails : uid[m] = f.uid => m = f.mail
             /\ \A g \in Batch' : g.uid = f.uid => g.mail = f.mail
      BY <1>10, <1>11 DEF Uids
    <2> QED  BY <1>2, <2>1 DEF Issued, Mails
  <1>14. RefUids'
    <2>1. \A d \in docs : d.ref.mail = 0 /\ d.ref.uidValidity = uidValidity =>
             /\ d.ref.uid < nextUid /\ d.ref.uid # 0
             /\ \A m \in Mails : uid[m] = d.ref.uid => m = d.mail
             /\ \A f \in Batch' : f.uid = d.ref.uid => f.mail = d.mail
      BY <1>10, <1>11 DEF Letterbox, RefUids
    <2> QED  BY <1>1, <1>2, <2>1 DEF RefUids, Mails
  <1>15. Letterbox'
    BY <1>12, <1>13, <1>14 DEF Letterbox
  <1>16. Where' /\ Landing' /\ AboutToFile'
    BY <1>1 DEF Where, Landing, AboutToFile
  <1> QED  BY <1>8, <1>15, <1>16 DEF MailIInv

\* A verdict that is not "processed", or the next mail: nothing is claimed of the mail in hand.
LEMMA VerdictInv ==
    ASSUME MailIInv, UNCHANGED <<mailbox, docs, bigFits, judged, todo>>, todo # <<>>,
           pc' = "move", dest' \in {"rejected", "failed"}, pending' \in Seq(Int)
    PROVE  MailIInv'
  <1>1. MailTypeOK'
    BY PollTypes DEF MailIInv, Steps, Folders, MailTypeOK
  <1>2. Letterbox'
    BY LetterboxKept, BatchKept DEF MailIInv
  <1>3. Where' /\ Landing' /\ AboutToFile'
    BY DEF Where, Landing, AboutToFile
  <1> QED  BY <1>1, <1>2, <1>3 DEF MailIInv

LEMMA NextMailInv ==
    ASSUME MailIInv, UNCHANGED <<mailbox, docs, bigFits, judged, pending>>, todo # <<>>, NextMail
    PROVE  MailIInv'
  <1>1. MailTypeOK /\ todo' = Tail(todo) /\ pc' = "mail" /\ dest' = "incoming"
    BY DEF MailIInv, NextMail
  <1>2. todo' \in Seq([mail : Mails, uid : Nat]) /\ Batch' \subseteq Batch
    BY <1>1, InHand DEF Batch
  <1>3. MailTypeOK'
    <2>1. pending' \in Seq(Int) /\ pc' \in Steps /\ dest' \in Folders
      BY <1>1 DEF MailTypeOK, Steps, Folders
    <2> QED  BY <1>1, <1>2, <2>1, PollTypes
  <1>4. Letterbox'
    BY <1>2, LetterboxKept DEF MailIInv
  <1>5. Where' /\ Landing' /\ AboutToFile'
    BY <1>1 DEF Where, Landing, AboutToFile
  <1> QED  BY <1>3, <1>4, <1>5 DEF MailIInv

LEMMA classifyMessageInv ==
    ASSUME MailIInv, classifyMessage
    PROVE  MailIInv'
  <1> DEFINE m == Now.mail
  <1>1. /\ UNCHANGED <<mailbox, docs, settings, todo, judged>> /\ bigFits' = bigFits
        /\ todo # <<>> /\ MailTypeOK /\ pending \in Seq(Int) /\ Batch' = Batch
    BY BatchKept DEF classifyMessage, settings, MailIInv, MailTypeOK
  <1>2. CASE pc' = "move" /\ dest' \in {"rejected", "failed"} /\ UNCHANGED pending
    BY <1>1, <1>2, VerdictInv
  <1>3. CASE pending' = parseMessage(m) /\ pc' = "documents" /\ UNCHANGED dest
    <2>1. m \in Mails
      BY <1>1, InHand
    <2>2. parseMessage(m) \in Seq(Int)
      BY <1>1, <2>1, PartsKept
    <2>3. MailTypeOK'
      <3>1. pending' \in Seq(Int) /\ pc' \in Steps /\ dest' \in Folders
        BY <1>1, <1>3, <2>2 DEF MailTypeOK, Steps
      <3>2. todo' \in Seq([mail : Mails, uid : Nat])
        BY <1>1 DEF MailTypeOK
      <3> QED  BY <1>1, <3>1, <3>2, PollTypes
    <2>4. Letterbox'
      BY <1>1, LetterboxKept DEF MailIInv
    <2>5. Where' /\ AboutToFile'
      BY <1>1, <1>3 DEF Where, AboutToFile
    <2>6. Landing'
      <3>1. mail' = mail
        BY <1>1 DEF mailbox
      <3>2. Now' = Now
        BY <1>1 DEF Now
      <3>3. parseMessage(Now.mail)' = parseMessage(m)
        BY <1>1, <3>1, <3>2 DEF parseMessage, partitionAttachments, Fits
      <3>4. Underway(parseMessage(m), parseMessage(m), docs', m)
        BY DEF Underway
      <3> QED  BY <1>3, <3>2, <3>3, <3>4 DEF Landing
    <2> QED  BY <2>3, <2>4, <2>5, <2>6 DEF MailIInv
  <1> QED  BY <1>2, <1>3 DEF classifyMessage, Verdict

\* A part is passed over or has landed; or its upload or its Document is next.
LEMMA PartInv ==
    ASSUME MailIInv, UNCHANGED <<mailbox, bigFits, judged, todo, dest>>, Letterbox', docs \subseteq docs',
           pc \in {"documents", "upload", "create"}, pc' \in {"documents", "upload", "create"},
           pending # <<>>,
           \/ UNCHANGED pending
           \/ pending' = Tail(pending) /\ pc' = "documents" /\ HasDocument(docs', Now.mail, Head(pending))
    PROVE  MailIInv'
  <1>1. MailTypeOK /\ todo # <<>> /\ Landing /\ pending \in Seq(Int)
    BY DEF MailIInv, Where, MailTypeOK
  <1>2. MailTypeOK'
    <2>1. pending' \in Seq(Int)
      BY <1>1, Pending
    <2>2. pc' \in Steps /\ dest' \in Folders /\ todo' \in Seq([mail : Mails, uid : Nat])
      BY <1>1 DEF MailTypeOK, Steps
    <2> QED  BY <1>1, <2>1, <2>2, PollTypes
  <1>3. Where' /\ AboutToFile'
    BY <1>1 DEF Where, AboutToFile
  <1>4. Landing'
    <2>1. mail' = mail /\ Now' = Now
      BY DEF mailbox, Now
    <2>2. parseMessage(Now.mail)' = parseMessage(Now.mail)
      BY <2>1 DEF parseMessage, partitionAttachments, Fits
    <2>3. Underway(parseMessage(Now.mail), pending, docs, Now.mail)
      BY <1>1 DEF Landing
    <2>4. CASE UNCHANGED pending
      <3>1. Underway(parseMessage(Now.mail), pending, docs', Now.mail)
        BY <2>3, HasDocumentStays DEF Underway
      <3> QED  BY <2>1, <2>2, <2>4, <3>1 DEF Landing
    <2>5. CASE pending' = Tail(pending) /\ HasDocument(docs', Now.mail, Head(pending))
      <3>1. Underway(parseMessage(Now.mail), Tail(pending), docs', Now.mail)
        BY <1>1, <2>3, <2>5, UnderwayTail
      <3> QED  BY <2>1, <2>2, <2>5, <3>1 DEF Landing
    <2> QED  BY <2>4, <2>5
  <1> QED  BY <1>2, <1>3, <1>4 DEF MailIInv

LEMMA ingestDocumentInv ==
    ASSUME MailIInv, ingestDocument
    PROVE  MailIInv'
  <1>1. /\ UNCHANGED <<mailbox, docs, settings, todo, dest, judged>> /\ bigFits' = bigFits
        /\ pc = "documents" /\ pending # <<>> /\ todo # <<>> /\ MailTypeOK /\ Letterbox
    BY DEF ingestDocument, settings, MailIInv, Where
  <1>2. Letterbox'
    BY <1>1, LetterboxKept, BatchKept
  <1>3. CASE HasLanded(Ref)
    <2>1. PICK d \in docs : d.ref = Ref
      BY <1>3 DEF HasLanded
    <2>2. HasDocument(docs', Now.mail, Head(pending))
      BY <1>1, <2>1, RefFound DEF HasDocument
    <2>3. pending' = Tail(pending) /\ pc' = "documents"
      BY <1>1, <1>3 DEF ingestDocument
    <2> QED  BY <1>1, <1>2, <2>2, <2>3, PartInv
  <1>4. CASE ~HasLanded(Ref)
    <2>1. pending' = pending /\ pc' \in {"upload", "create"}
      BY <1>4 DEF ingestDocument
    <2> QED  BY <1>1, <1>2, <2>1, PartInv
  <1> QED  BY <1>3, <1>4

LEMMA uploadInv ==
    ASSUME MailIInv, upload
    PROVE  MailIInv'
  <1>1. /\ UNCHANGED <<mailbox, docs, settings, todo, pending, dest, judged>> /\ bigFits' = bigFits
        /\ pc = "upload" /\ pc' = "create" /\ pending # <<>> /\ Letterbox
    BY DEF upload, settings, MailIInv, Where
  <1>2. Letterbox'
    BY <1>1, LetterboxKept, BatchKept
  <1> QED  BY <1>1, <1>2, PartInv

LEMMA createDocumentInv ==
    ASSUME MailIInv, createDocument
    PROVE  MailIInv'
  <1>1. /\ UNCHANGED <<mailbox, settings, todo, dest, judged>> /\ bigFits' = bigFits
        /\ pc = "create" /\ pc' = "documents" /\ docs' = Landed /\ pending' = Tail(pending)
        /\ pending # <<>> /\ todo # <<>> /\ MailTypeOK /\ Letterbox
    BY DEF createDocument, settings, MailIInv, Where
  <1>2. Letterbox' /\ docs \subseteq docs' /\ HasDocument(docs', Now.mail, Head(pending))
    BY <1>1, LandedStep, BatchKept
  <1> QED  BY <1>1, <1>2, PartInv

LEMMA ingestFailsInv ==
    ASSUME MailIInv, ingestFails
    PROVE  MailIInv'
  <1>1. /\ UNCHANGED <<mailbox, settings, todo, judged>> /\ bigFits' = bigFits
        /\ pending # <<>> /\ todo # <<>> /\ MailTypeOK /\ Letterbox
        /\ pending' = <<>> /\ dest' = "failed" /\ pc' = "move"
    BY DEF ingestFails, settings, MailIInv, Where, Verdict
  <1>2. Letterbox'
    <2>1. CASE UNCHANGED docs
      BY <1>1, <2>1, LetterboxKept, BatchKept
    <2>2. CASE docs' = Landed
      BY <1>1, <2>2, LandedStep, BatchKept
    <2> QED  BY <2>1, <2>2 DEF ingestFails
  <1>3. MailTypeOK'
    <2>1. pending' \in Seq(Int) /\ pc' \in Steps /\ dest' \in Folders
      BY <1>1 DEF Steps, Folders
    <2>2. todo' \in Seq([mail : Mails, uid : Nat])
      BY <1>1 DEF MailTypeOK
    <2> QED  BY <1>1, <2>1, <2>2, PollTypes
  <1>4. Where' /\ Landing' /\ AboutToFile'
    BY <1>1 DEF Where, Landing, AboutToFile
  <1> QED  BY <1>2, <1>3, <1>4 DEF MailIInv

\* When no part is left to come, the mail has landed whole.
LEMMA AllLandedInv ==
    ASSUME MailIInv, AllLanded
    PROVE  MailIInv'
  <1> DEFINE m == Now.mail
             parts == mail[m].parts
  <1>1. /\ UNCHANGED <<mailbox, docs, settings, todo, pending, judged>> /\ bigFits' = bigFits
        /\ pc = "documents" /\ pending = <<>> /\ todo # <<>> /\ MailTypeOK /\ Letterbox /\ Landing
        /\ dest' = "processed" /\ pc' = "move"
    BY DEF AllLanded, settings, MailIInv, Where, Verdict
  <1>2. Letterbox'
    BY <1>1, LetterboxKept, BatchKept
  <1>3. MailTypeOK'
    <2>1. pending' \in Seq(Int) /\ pc' \in Steps /\ dest' \in Folders
      BY <1>1 DEF Steps, Folders
    <2>2. todo' \in Seq([mail : Mails, uid : Nat])
      BY <1>1 DEF MailTypeOK
    <2> QED  BY <1>1, <2>1, <2>2, PollTypes
  <1>4. Where' /\ Landing'
    BY <1>1 DEF Where, Landing
  <1>5. Complete(docs, parts, m, bigFits)
    <2>1. m \in Mails
      BY <1>1, InHand
    <2>2. \A i \in DOMAIN parseMessage(m) : HasDocument(docs, m, parseMessage(m)[i])
      BY <1>1 DEF Landing, Underway
    <2>3. parseMessage(m) \in Seq(Int) /\ parseMessage(m) # <<>>
      BY <1>1, <2>1, PartsKept
    <2>4. 1 \in DOMAIN parseMessage(m)
      BY <2>3
    <2>5. PICK d \in docs : d.mail = m
      BY <2>2, <2>4 DEF HasDocument
    <2>6. ASSUME NEW n \in DOMAIN parts, parts[n] = "small" \/ (parts[n] = "big" /\ bigFits)
          PROVE  HasDocument(docs, m, n)
      <3>1. Fits(parts[n])
        BY <2>6 DEF Fits
      <3>2. PICK i \in DOMAIN parseMessage(m) : parseMessage(m)[i] = n
        BY <1>1, <2>1, <3>1, PartsKept
      <3> QED  BY <2>2, <3>2
    <2>7. ASSUME NEW n \in DOMAIN parts, parts[n] = "big"
          PROVE  \E e \in docs : e.mail = m /\ (e.part = n \/ Names(e, n))
      <3>1. CASE bigFits
        BY <2>6, <2>7, <3>1 DEF HasDocument
      <3>2. CASE ~bigFits
        <4>1. Names(d, n)
          BY <1>1, <2>5, <2>7, <3>2 DEF Letterbox, Named
        <4> QED  BY <2>5, <4>1
      <3> QED  BY <3>1, <3>2
    <2> HIDE DEF parts, m
    <2> QED  BY <2>5, <2>6, <2>7 DEF Complete
  <1>6. AboutToFile'
    <2>1. mail' = mail /\ Now' = Now
      BY <1>1 DEF mailbox, Now
    <2> QED  BY <1>1, <1>5, <2>1 DEF AboutToFile
  <1> QED  BY <1>2, <1>3, <1>4, <1>6 DEF MailIInv

\* The mail is filed, by a move that finds it or does not.
LEMMA handleMessageInv ==
    ASSUME MailIInv, handleMessage
    PROVE  MailIInv'
  <1> DEFINE m == Now.mail
  <1>1. /\ UNCHANGED <<transport, maxPerPoll, mail, nextUid, uidValidity, docs, settings, pending>>
        /\ bigFits' = bigFits /\ pc = "move" /\ todo # <<>> /\ MailTypeOK /\ Letterbox
        /\ dest \in {"processed", "rejected", "failed"} /\ Mails' = Mails
        /\ todo' = Tail(todo) /\ pc' = "mail" /\ dest' = "incoming"
    BY DEF handleMessage, settings, MailIInv, Where, NextMail, Mails
  <1>2. /\ Now \in Batch /\ m \in Mails /\ Now.uid # 0
        /\ todo' \in Seq([mail : Mails, uid : Nat]) /\ Batch' \subseteq Batch
    <2>1. Batch' = {todo'[i] : i \in DOMAIN todo'}
      BY DEF Batch
    <2> QED  BY <1>1, <2>1, InHand DEF Letterbox, Issued
  <1>3. /\ Mails = 1..Len(mail) /\ Len(mail) \in Nat
        /\ folder \in [Mails -> Folders] /\ uid \in [Mails -> Nat] /\ judged \in [Mails -> BOOLEAN]
    BY <1>1 DEF MailTypeOK, Mails
  <1>4. \/ folder' = folder /\ uid' = uid
        \/ folder' = [folder EXCEPT ![m] = dest] /\ uid' = [uid EXCEPT ![m] = 0]
    BY DEF handleMessage, imapMove, gmailMove
  <1>5. judged' = IF dest = "processed" THEN [judged EXCEPT ![m] = bigFits] ELSE judged
    BY DEF handleMessage
  <1> HIDE DEF m
  <1>6. folder' \in [Mails -> Folders] /\ uid' \in [Mails -> Nat] /\ judged' \in [Mails -> BOOLEAN]
    <2>1. dest \in Folders /\ bigFits \in BOOLEAN
      BY <1>1 DEF MailTypeOK
    <2> QED  BY <1>2, <1>3, <1>4, <1>5, <2>1
  <1>7. MailTypeOK'
    <2>1. /\ folder' \in Seq(Folders) /\ Len(folder') = Len(mail)
          /\ uid' \in Seq(Nat) /\ Len(uid') = Len(mail)
          /\ judged' \in Seq(BOOLEAN) /\ Len(judged') = Len(mail)
      BY <1>3, <1>6, FunSeq
    <2>2. pc' \in Steps /\ dest' \in Folders
      BY <1>1 DEF Steps, Folders
    <2> QED  BY <1>1, <1>2, <2>1, <2>2 DEF MailTypeOK
  <1>8. Uids'
    <2>1. \A k \in Mails : uid[k] < nextUid /\ (folder[k] = "incoming" <=> uid[k] # 0)
                           /\ \A n \in Mails : uid[k] # 0 /\ uid[k] = uid[n] => k = n
      BY <1>1 DEF Letterbox, Uids
    <2>2. 0 < nextUid /\ nextUid \in Nat
      BY <1>1 DEF MailTypeOK
    <2>3. dest # "incoming"
      BY <1>1
    <2>4. \A k \in Mails : uid'[k] < nextUid /\ (folder'[k] = "incoming" <=> uid'[k] # 0)
                           /\ \A n \in Mails : uid'[k] # 0 /\ uid'[k] = uid'[n] => k = n
      BY <1>2, <1>3, <1>4, <2>1, <2>2, <2>3
    <2> QED  BY <1>1, <2>4 DEF Uids
  <1>9. \A k \in Mails : uid'[k] # 0 => uid'[k] = uid[k]
    BY <1>2, <1>3, <1>4
  <1>10. Issued'
    <2>1. \A f \in Batch' :
             /\ f.uid # 0 /\ f.uid < nextUid
             /\ \A k \in Mails : uid'[k] = f.uid => k = f.mail
             /\ \A g \in Batch' : g.uid = f.uid => g.mail = f.mail
      BY <1>1, <1>2, <1>9 DEF Letterbox, Issued
    <2> QED  BY <1>1, <2>1 DEF Issued
  <1>11. Refs' /\ RefsDiffer' /\ Named'
    <2>1. Refs'
      BY <1>1 DEF Letterbox, Refs, ByMessage, ByUid
    <2>2. RefsDiffer'
      BY <1>1 DEF Letterbox, RefsDiffer
    <2>3. Named'
      BY <1>1 DEF Letterbox, Named
    <2> QED  BY <2>1, <2>2, <2>3
  <1>12. RefUids'
    <2>1. \A d \in docs : d.ref.mail = 0 /\ d.ref.uidValidity = uidValidity =>
             /\ d.ref.uid < nextUid /\ d.ref.uid # 0
             /\ \A k \in Mails : uid'[k] = d.ref.uid => k = d.mail
             /\ \A f \in Batch' : f.uid = d.ref.uid => f.mail = d.mail
      BY <1>1, <1>2, <1>9 DEF Letterbox, RefUids
    <2> QED  BY <1>1, <2>1 DEF RefUids
  <1>13. Filed'
    <2> SUFFICES ASSUME NEW k \in Mails, folder'[k] = "processed"
                 PROVE  Complete(docs, mail[k].parts, k, judged'[k])
      BY <1>1 DEF Filed
    <2>1. CASE k = m /\ dest = "processed"
      <3>1. judged'[k] = bigFits
        BY <1>2, <1>3, <1>5, <2>1
      <3>2. Complete(docs, mail[m].parts, m, bigFits)
        BY <1>1, <2>1 DEF MailIInv, AboutToFile, m
      <3> QED  BY <2>1, <3>1, <3>2
    <2>2. CASE ~(k = m /\ dest = "processed")
      <3>1. folder[k] = "processed" /\ judged'[k] = judged[k]
        BY <1>2, <1>3, <1>4, <1>5, <2>2
      <3> QED  BY <1>1, <3>1 DEF Letterbox, Filed
    <2> QED  BY <2>1, <2>2
  <1>14. Where' /\ Landing' /\ AboutToFile'
    BY <1>1 DEF Where, Landing, AboutToFile
  <1> QED  BY <1>7, <1>8, <1>10, <1>11, <1>12, <1>13, <1>14 DEF MailIInv, Letterbox

LEMMA PollEndsInv ==
    ASSUME MailIInv, EndPoll \/ PollDies
    PROVE  MailIInv'
  <1>1. /\ UNCHANGED <<mailbox, docs, settings, judged>> /\ bigFits' = bigFits
        /\ pc' = "idle" /\ todo' = <<>> /\ pending' \in Seq(Int) /\ dest' \in Folders
    <2>1. CASE EndPoll
      BY <2>1 DEF EndPoll, settings, MailIInv, MailTypeOK
    <2>2. CASE PollDies
      BY <2>2 DEF PollDies, settings, Folders
    <2> QED  BY <2>1, <2>2
  <1>2. Batch' = {}
    BY <1>1 DEF Batch
  <1>3. Letterbox'
    BY <1>1, <1>2, LetterboxKept DEF MailIInv
  <1>4. MailTypeOK'
    <2>1. pc' \in Steps /\ todo' \in Seq([mail : Mails, uid : Nat])
      BY <1>1 DEF Steps
    <2> QED  BY <1>1, <2>1, PollTypes DEF MailIInv
  <1>5. Where' /\ Landing' /\ AboutToFile'
    BY <1>1 DEF Where, Landing, AboutToFile
  <1> QED  BY <1>3, <1>4, <1>5 DEF MailIInv

LEMMA runMailIngestInv ==
    ASSUME MailIInv, runMailIngest
    PROVE  MailIInv'
  <1>1. CASE fetchBatch
    BY <1>1, fetchBatchInv
  <1>2. CASE fileOversized
    <2>1. /\ UNCHANGED <<mailbox, docs, settings, todo, judged>> /\ todo # <<>>
          /\ pc' = "move" /\ dest' = "failed" /\ pending' = pending
      BY <1>2 DEF fileOversized, Verdict
    <2>2. pending' \in Seq(Int) /\ bigFits' = bigFits
      BY <2>1 DEF MailIInv, MailTypeOK, settings
    <2> QED  BY <2>1, <2>2, VerdictInv
  <1>3. CASE classifyMessage
    BY <1>3, classifyMessageInv
  <1>4. CASE ingestDocument
    BY <1>4, ingestDocumentInv
  <1>5. CASE upload
    BY <1>5, uploadInv
  <1>6. CASE createDocument
    BY <1>6, createDocumentInv
  <1>7. CASE ingestFails
    BY <1>7, ingestFailsInv
  <1>8. CASE AllLanded
    BY <1>8, AllLandedInv
  <1>9. CASE handleMessage
    BY <1>9, handleMessageInv
  <1>10. CASE moveFails
    <2>1. /\ UNCHANGED <<mailbox, docs, settings, pending, judged>> /\ NextMail /\ todo # <<>>
          /\ bigFits' = bigFits
      BY <1>10 DEF moveFails, MailIInv, Where, settings
    <2> QED  BY <2>1, NextMailInv
  <1>11. CASE EndPoll
    BY <1>11, PollEndsInv
  <1> QED  BY <1>1, <1>2, <1>3, <1>4, <1>5, <1>6, <1>7, <1>8, <1>9, <1>10, <1>11 DEF runMailIngest

-----------------------------------------------------------------------------
(* The world.                                                              *)

\* The poll does not see what happens beside it.
LEMMA PollKept ==
    ASSUME MailIInv, UNCHANGED <<docs, bigFits, poll>>, \A m \in Mails : mail'[m] = mail[m]
    PROVE  Where' /\ Landing' /\ AboutToFile' /\ Batch' = Batch
  <1>1. pc' = pc /\ todo' = todo /\ pending' = pending /\ dest' = dest /\ Now' = Now
    BY DEF poll, Now
  <1>2. Where' /\ Batch' = Batch
    BY <1>1 DEF MailIInv, Where, Batch
  <1>3. CASE todo = <<>>
    BY <1>1, <1>2, <1>3 DEF MailIInv, Where, Landing, AboutToFile
  <1>4. CASE todo # <<>>
    <2>1. mail'[Now.mail] = mail[Now.mail]
      BY <1>4, InHand DEF MailIInv
    <2>2. parseMessage(Now.mail)' = parseMessage(Now.mail)
      BY <1>1, <2>1 DEF parseMessage, partitionAttachments, Fits
    <2> QED  BY <1>1, <1>2, <2>1, <2>2 DEF MailIInv, Landing, AboutToFile
  <1> QED  BY <1>2, <1>3, <1>4

\* A mail arrives, comes back or goes away: the UIDs given out are new ones, and nothing
\* is filed as processed.
LEMMA MailboxMoves ==
    ASSUME MailIInv, MailTypeOK', Uids', UNCHANGED <<transport, uidValidity, docs, bigFits, poll>>,
           Mails \subseteq Mails', nextUid <= nextUid',
           \A m \in Mails : mail'[m] = mail[m],
           \A m \in Mails' : \/ m \in Mails /\ uid'[m] = uid[m]
                             \/ uid'[m] = 0
                             \/ uid'[m] = nextUid,
           \A m \in Mails' : folder'[m] = "processed" =>
               m \in Mails /\ folder[m] = "processed" /\ judged'[m] = judged[m]
    PROVE  MailIInv'
  <1>1. Where' /\ Landing' /\ AboutToFile' /\ Batch' = Batch
    BY PollKept
  <1>2. Letterbox /\ nextUid \in Nat /\ nextUid' \in Nat
    BY DEF MailIInv, MailTypeOK
  <1>3. Issued'
    <2>1. \A f \in Batch : f.uid \in Nat
      <3> DEFINE S == [mail : Mails, uid : Nat]
      <3>1. todo \in Seq(S)
        BY DEF MailIInv, MailTypeOK
      <3>2. \A f \in S : f.uid \in Nat
        OBVIOUS
      <3> HIDE DEF S
      <3> QED  BY <3>1, <3>2 DEF Batch
    <2>2. \A f \in Batch :
             /\ f.uid # 0 /\ f.uid < nextUid'
             /\ \A m \in Mails' : uid'[m] = f.uid => m = f.mail
             /\ \A g \in Batch : g.uid = f.uid => g.mail = f.mail
      <3> SUFFICES ASSUME NEW f \in Batch
                   PROVE  /\ f.uid # 0 /\ f.uid < nextUid'
                          /\ \A m \in Mails' : uid'[m] = f.uid => m = f.mail
                          /\ \A g \in Batch : g.uid = f.uid => g.mail = f.mail
        OBVIOUS
      <3>1. /\ f.uid # 0 /\ f.uid < nextUid
            /\ \A m \in Mails : uid[m] = f.uid => m = f.mail
            /\ \A g \in Batch : g.uid = f.uid => g.mail = f.mail
        BY <1>2 DEF Letterbox, Issued
      <3>2. f.uid < nextUid' /\ f.uid # nextUid
        BY <1>2, <2>1, <3>1
      <3> QED  BY <3>1, <3>2
    <2> QED  BY <1>1, <2>2 DEF Issued
  <1>4. Refs'
    <2>1. ASSUME NEW d \in docs
          PROVE  (d.mail \in Mails /\ d.part \in Int /\ (ByMessage(d) \/ ByUid(d)))'
      <3>1. d.mail \in Mails /\ d.part \in Int /\ (ByMessage(d) \/ ByUid(d))
        BY <1>2 DEF Letterbox, Refs
      <3>2. mail'[d.mail] = mail[d.mail] /\ d.mail \in Mails'
        BY <3>1
      <3> QED  BY <3>1, <3>2 DEF ByMessage, ByUid
    <2>2. (\A d \in docs : d.mail \in Mails /\ d.part \in Int /\ (ByMessage(d) \/ ByUid(d)))'
      BY <2>1
    <2> QED  BY <2>2 DEF Refs
  <1>5. RefsDiffer'
    BY <1>2 DEF Letterbox, RefsDiffer
  <1>6. RefUids'
    <2>1. ASSUME NEW d \in docs, d.ref.mail = 0, d.ref.uidValidity = uidValidity
          PROVE  /\ d.ref.uid < nextUid' /\ d.ref.uid # 0
                 /\ \A m \in Mails' : uid'[m] = d.ref.uid => m = d.mail
                 /\ \A f \in Batch : f.uid = d.ref.uid => f.mail = d.mail
      <3>1. /\ d.ref.uid < nextUid /\ d.ref.uid # 0
            /\ \A m \in Mails : uid[m] = d.ref.uid => m = d.mail
            /\ \A f \in Batch : f.uid = d.ref.uid => f.mail = d.mail
        BY <1>2, <2>1 DEF Letterbox, RefUids
      <3>2. d.ref.uid \in Nat
        <4>1. d.mail \in Mails /\ d.mail # 0 /\ (ByMessage(d) \/ ByUid(d))
          BY <1>2 DEF Letterbox, Refs, Mails, MailIInv, MailTypeOK
        <4> QED  BY <2>1, <4>1 DEF ByMessage, ByUid
      <3>3. d.ref.uid < nextUid' /\ d.ref.uid # nextUid
        BY <1>2, <3>1, <3>2
      <3> QED  BY <3>1, <3>3
    <2> QED  BY <1>1, <2>1 DEF RefUids
  <1>7. Named'
    <2>1. \A d \in docs : mail'[d.mail] = mail[d.mail]
      BY <1>2 DEF Letterbox, Refs
    <2> QED  BY <1>2, <2>1 DEF Letterbox, Named
  <1>8. Filed'
    <2>1. ASSUME NEW m \in Mails', folder'[m] = "processed"
          PROVE  Complete(docs, mail'[m].parts, m, judged'[m])
      <3>1. m \in Mails /\ folder[m] = "processed" /\ judged'[m] = judged[m] /\ mail'[m] = mail[m]
        BY <2>1
      <3> QED  BY <1>2, <3>1 DEF Letterbox, Filed
    <2> QED  BY <2>1 DEF Filed
  <1> QED  BY <1>1, <1>3, <1>4, <1>5, <1>6, <1>7, <1>8 DEF MailIInv, Letterbox

\* The mailbox as functions of the mails.
LEMMA Boxes ==
    ASSUME MailTypeOK
    PROVE  /\ Mails = 1..Len(mail) /\ Len(mail) \in Nat /\ nextUid \in Nat \ {0}
           /\ folder \in [Mails -> Folders] /\ uid \in [Mails -> Nat]
  BY DEF MailTypeOK, Mails

LEMMA MailArrivesInv ==
    ASSUME MailIInv, MailArrives
    PROVE  MailIInv'
  <1> DEFINE new == Len(mail) + 1
  <1>1. /\ MailTypeOK /\ Letterbox /\ UNCHANGED <<transport, maxPerPoll, uidValidity, docs, settings, poll>>
        /\ bigFits' = bigFits /\ nextUid' = nextUid + 1
        /\ folder' = Append(folder, "incoming") /\ uid' = Append(uid, nextUid)
        /\ judged' = Append(judged, FALSE)
    BY DEF MailArrives, settings, MailIInv
  <1>2. PICK kind \in Kinds : mail' = Append(mail, kind)
    BY DEF MailArrives
  <1>3. kind \in Mail
    BY MailAssumption
  <1>4. /\ Mails = 1..Len(mail) /\ Len(mail) \in Nat /\ nextUid \in Nat \ {0}
        /\ mail \in Seq(Mail) /\ folder \in Seq(Folders) /\ Len(folder) = Len(mail)
        /\ uid \in Seq(Nat) /\ Len(uid) = Len(mail) /\ judged \in Seq(BOOLEAN) /\ Len(judged) = Len(mail)
    BY <1>1 DEF MailTypeOK, Mails
  <1>5. "incoming" \in Folders /\ FALSE \in BOOLEAN
    BY DEF Folders
  <1>6. mail' \in Seq(Mail) /\ Len(mail') = new /\ \A m \in Mails : mail'[m] = mail[m]
    BY <1>2, <1>3, <1>4
  <1>7. /\ folder' \in Seq(Folders) /\ Len(folder') = new /\ folder'[new] = "incoming"
        /\ \A m \in Mails : folder'[m] = folder[m]
    BY <1>1, <1>4, <1>5
  <1>8. /\ uid' \in Seq(Nat) /\ Len(uid') = new /\ uid'[new] = nextUid
        /\ \A m \in Mails : uid'[m] = uid[m]
    BY <1>1, <1>4
  <1>9. /\ judged' \in Seq(BOOLEAN) /\ Len(judged') = new
        /\ \A m \in Mails : judged'[m] = judged[m]
    <2> DEFINE no == FALSE
               B == BOOLEAN
    <2>1. no \in B /\ judged' = Append(judged, no) /\ judged \in Seq(B) /\ Len(judged) = Len(mail)
      BY <1>1, <1>4
    <2> HIDE DEF no, B
    <2>2. /\ judged' \in Seq(B) /\ Len(judged') = new
          /\ \A m \in Mails : judged'[m] = judged[m]
      BY <1>4, <2>1, Appended
    <2> QED  BY <2>2 DEF B
  <1>10. Mails' = 1..new /\ Mails \subseteq Mails' /\ \A m \in Mails' : m \in Mails \/ m = new
    <2>1. Mails' = 1..new
      BY <1>6 DEF Mails
    <2> QED  BY <2>1, <1>4
  <1>11. MailTypeOK'
    <2>1. [mail : Mails, uid : Nat] \subseteq [mail : Mails', uid : Nat]
      BY <1>10
    <2>2. todo' \in Seq([mail : Mails', uid : Nat])
      <3>1. todo \in Seq([mail : Mails, uid : Nat]) /\ todo' = todo
        BY <1>1 DEF MailTypeOK, poll
      <3> QED  BY <2>1, <3>1, WiderSeq
    <2>3. nextUid' \in Nat \ {0}
      BY <1>1, <1>4
    <2>4. /\ transport' \in {"imap", "gmail"} /\ maxPerPoll' \in Nat \ {0} /\ uidValidity' \in Nat \ {0}
          /\ bigFits' \in BOOLEAN /\ pc' \in Steps /\ dest' \in Folders /\ pending' \in Seq(Int)
      BY <1>1 DEF MailTypeOK, poll
    <2> QED  BY <1>6, <1>7, <1>8, <1>9, <2>2, <2>3, <2>4 DEF MailTypeOK
  <1> HIDE DEF new
  <1>12. Uids'
    <2>1. \A k \in Mails : uid[k] \in Nat /\ uid[k] < nextUid /\ (folder[k] = "incoming" <=> uid[k] # 0)
                           /\ \A n \in Mails : uid[k] # 0 /\ uid[k] = uid[n] => k = n
      BY <1>1, <1>4 DEF Letterbox, Uids
    <2>2. \A k \in Mails' : uid'[k] < nextUid' /\ (folder'[k] = "incoming" <=> uid'[k] # 0)
      <3>1. \A k \in Mails : uid[k] < nextUid + 1
        BY <1>4, <2>1
      <3>2. nextUid < nextUid + 1 /\ nextUid # 0
        BY <1>4
      <3> QED  BY <1>1, <1>7, <1>8, <1>10, <2>1, <3>1, <3>2
    <2>3. \A k \in Mails : uid[k] # nextUid
      BY <1>4, <2>1
    <2>4. \A k, n \in Mails' : uid'[k] # 0 /\ uid'[k] = uid'[n] => k = n
      BY <1>8, <1>10, <2>1, <2>3
    <2> QED  BY <2>2, <2>4 DEF Uids
  <1>13. nextUid <= nextUid'
    BY <1>1, <1>4
  <1>14. \A m \in Mails' : (m \in Mails /\ uid'[m] = uid[m]) \/ uid'[m] = nextUid
    BY <1>8, <1>10
  <1>15. \A m \in Mails' : folder'[m] = "processed" =>
               m \in Mails /\ folder[m] = "processed" /\ judged'[m] = judged[m]
    BY <1>7, <1>9, <1>10
  <1> QED  BY <1>1, <1>6, <1>10, <1>11, <1>12, <1>13, <1>14, <1>15, MailboxMoves

LEMMA UserMovesMailInv ==
    ASSUME MailIInv, UserMovesBack \/ UserTakesAway
    PROVE  MailIInv'
  <1>1. /\ MailTypeOK /\ Letterbox
        /\ UNCHANGED <<transport, maxPerPoll, mail, uidValidity, docs, bigFits, poll, judged>> /\ Mails' = Mails
    BY DEF UserMovesBack, UserTakesAway, MailIInv, Mails
  <1>2. PICK m \in Mails :
          \/ /\ folder' = [folder EXCEPT ![m] = "incoming"]
             /\ uid' = [uid EXCEPT ![m] = nextUid] /\ nextUid' = nextUid + 1
          \/ /\ folder' = [folder EXCEPT ![m] = "elsewhere"]
             /\ uid' = [uid EXCEPT ![m] = 0] /\ nextUid' = nextUid
    BY DEF UserMovesBack, UserTakesAway, Incoming
  <1>3. /\ Mails = 1..Len(mail) /\ Len(mail) \in Nat /\ nextUid \in Nat \ {0}
        /\ folder \in [Mails -> Folders] /\ uid \in [Mails -> Nat]
    BY <1>1, Boxes
  <1>4. folder' \in [Mails -> Folders] /\ uid' \in [Mails -> Nat]
    BY <1>2, <1>3 DEF Folders
  <1>5. nextUid' \in Nat \ {0} /\ nextUid <= nextUid'
    BY <1>2, <1>3
  <1>6. MailTypeOK'
    <2>1. /\ folder' \in Seq(Folders) /\ Len(folder') = Len(mail)
          /\ uid' \in Seq(Nat) /\ Len(uid') = Len(mail)
      BY <1>3, <1>4, FunSeq
    <2> QED  BY <1>1, <1>5, <2>1 DEF MailTypeOK, poll
  <1>7. Uids'
    <2>1. \A k \in Mails : uid[k] \in Nat /\ uid[k] < nextUid /\ (folder[k] = "incoming" <=> uid[k] # 0)
                           /\ \A n \in Mails : uid[k] # 0 /\ uid[k] = uid[n] => k = n
      BY <1>1, <1>3 DEF Letterbox, Uids
    <2>2. \A k \in Mails : uid[k] # nextUid /\ uid[k] < nextUid + 1
      BY <1>3, <2>1
    <2>3. nextUid < nextUid + 1 /\ 0 < nextUid /\ 0 < nextUid + 1 /\ nextUid # 0
      BY <1>3
    <2>4. \A k \in Mails : uid'[k] < nextUid' /\ (folder'[k] = "incoming" <=> uid'[k] # 0)
      BY <1>2, <1>3, <2>1, <2>2, <2>3
    <2>5. \A k, n \in Mails : uid'[k] # 0 /\ uid'[k] = uid'[n] => k = n
      BY <1>2, <1>3, <2>1, <2>2, <2>3
    <2> QED  BY <1>1, <2>4, <2>5 DEF Uids
  <1>8. \A k \in Mails : uid'[k] = uid[k] \/ uid'[k] = 0 \/ uid'[k] = nextUid
    BY <1>2, <1>3
  <1>9. \A k \in Mails : folder'[k] = "processed" => folder[k] = "processed"
    BY <1>2, <1>3
  <1> QED  BY <1>1, <1>5, <1>6, <1>7, <1>8, <1>9, MailboxMoves

\* A higher cap asks nothing of the mails that are filed.
LEMMA UserRaisesCapInv ==
    ASSUME MailIInv, UserRaisesCap
    PROVE  MailIInv'
  <1>1. /\ UNCHANGED <<mailbox, docs, poll, judged>> /\ bigFits' = TRUE /\ pc = "idle" /\ pc' = "idle"
        /\ UNCHANGED <<transport, mail, folder, uid, nextUid, uidValidity, todo, pending, dest>>
    BY DEF UserRaisesCap, mailbox, poll
  <1>2. MailTypeOK'
    BY <1>1 DEF MailIInv, MailTypeOK, mailbox, poll, Mails
  <1>3. Where' /\ Landing' /\ AboutToFile'
    BY <1>1 DEF MailIInv, Where, Landing, AboutToFile
  <1>4. Uids' /\ RefsDiffer' /\ Named'
    BY <1>1 DEF MailIInv, Letterbox, Uids, RefsDiffer, Named, Mails
  <1>5. Issued' /\ RefUids'
    BY <1>1, BatchKept DEF MailIInv, Letterbox, Issued, RefUids, Mails
  <1>6. Refs'
    BY <1>1 DEF MailIInv, Letterbox, Refs, ByMessage, ByUid, Mails
  <1>7. Filed'
    BY <1>1 DEF MailIInv, Letterbox, Filed, Mails
  <1> QED  BY <1>2, <1>3, <1>4, <1>5, <1>6, <1>7 DEF MailIInv, Letterbox

\* A new generation of UIDs: no mail has one, no poll holds one, and the refs that were
\* made say which generation they mean.
LEMMA UserRecreatesFolderInv ==
    ASSUME MailIInv, UserRecreatesFolder
    PROVE  MailIInv'
  <1>1. /\ UNCHANGED <<transport, maxPerPoll, mail, folder, uid, docs, bigFits, poll, judged>>
        /\ uidValidity' = uidValidity + 1 /\ nextUid' = 1 /\ pc = "idle" /\ Incoming = {}
        /\ MailTypeOK /\ Letterbox /\ Mails' = Mails
    BY DEF UserRecreatesFolder, MailIInv, Mails
  <1>2. uidValidity \in Nat \ {0} /\ uidValidity' \in Nat \ {0} /\ nextUid' \in Nat \ {0}
    BY <1>1 DEF MailTypeOK
  <1>3. MailTypeOK'
    BY <1>1, <1>2 DEF MailTypeOK, poll
  <1>4. Where' /\ Landing' /\ AboutToFile' /\ Batch' = Batch
    BY <1>1, PollKept
  <1>5. Batch = {}
    BY <1>1 DEF MailIInv, Where, Batch
  <1>6. \A m \in Mails : folder[m] # "incoming" /\ uid[m] = 0
    BY <1>1 DEF Incoming, Letterbox, Uids
  <1>7. Uids' /\ Issued'
    BY <1>1, <1>4, <1>5, <1>6 DEF Uids, Issued
  <1>8. \A d \in docs : d.mail \in Mails /\ d.mail # 0 /\ d.part \in Int /\ (ByMessage(d) \/ ByUid(d))
    BY <1>1 DEF Letterbox, Refs, Mails, MailTypeOK
  <1>9. Refs'
    <2>1. \A k \in 1..uidValidity : k \in 1..(uidValidity + 1)
      BY <1>2
    <2>2. \A d \in docs : (d.mail \in Mails /\ d.part \in Int /\ (ByMessage(d) \/ ByUid(d)))'
      BY <1>1, <1>8, <2>1 DEF ByMessage, ByUid
    <2> QED  BY <1>1, <2>2 DEF Refs
  <1>10. RefUids'
    <2>1. \A k \in 1..uidValidity : k # uidValidity + 1
      BY <1>2
    <2>2. \A d \in docs : d.ref.mail = 0 => d.ref.uidValidity # uidValidity + 1
      <3> SUFFICES ASSUME NEW d \in docs, d.ref.mail = 0
                   PROVE  d.ref.uidValidity # uidValidity + 1
        OBVIOUS
      <3>1. ~ByMessage(d)
        BY <1>8 DEF ByMessage
      <3>2. d.ref.uidValidity \in 1..uidValidity
        BY <1>8, <3>1 DEF ByUid
      <3> QED  BY <2>1, <3>2
    <2> QED  BY <1>1, <2>2 DEF RefUids
  <1>11. RefsDiffer' /\ Named' /\ Filed'
    BY <1>1 DEF Letterbox, RefsDiffer, Named, Filed
  <1> QED  BY <1>3, <1>4, <1>7, <1>9, <1>10, <1>11 DEF MailIInv, Letterbox

\* Nothing that concerns a mail happens.
LEMMA MailStutter ==
    ASSUME MailIInv, UNCHANGED <<mailbox, docs, bigFits, poll, judged>>
    PROVE  MailIInv'
  <1>1. UNCHANGED <<transport, maxPerPoll, mail, folder, uid, nextUid, uidValidity, pc, todo, pending, dest>>
    BY DEF mailbox, poll
  <1>2. MailTypeOK'
    BY <1>1 DEF MailIInv, MailTypeOK, Mails
  <1>3. Where' /\ Landing' /\ AboutToFile' /\ Batch' = Batch
    BY <1>1, PollKept
  <1>4. Letterbox'
    BY <1>3, LetterboxKept DEF MailIInv
  <1> QED  BY <1>2, <1>3, <1>4 DEF MailIInv

-----------------------------------------------------------------------------

\* The inductive invariant of the letterbox: what its poll, its crashes, the mail server
\* and the User do to it keeps every conjunct.
THEOREM MailInvariance == MailSpec => []MailIInv
  <1>1. MailInit => MailIInv
    <2> SUFFICES ASSUME MailInit  PROVE MailIInv
      OBVIOUS
    <2>1. Mails = {} /\ Batch = {}
      BY DEF MailInit, Mails, Batch
    <2>2. transport \in {"imap", "gmail"} /\ maxPerPoll \in Nat \ {0}
      BY MailAssumption DEF MailInit
    <2>3. MailTypeOK
      <3>1. \A S : <<>> \in Seq(S) /\ Len(<<>>) = 0
        OBVIOUS
      <3>2. /\ mail \in Seq(Mail) /\ folder \in Seq(Folders) /\ uid \in Seq(Nat) /\ judged \in Seq(BOOLEAN)
            /\ Len(folder) = Len(mail) /\ Len(uid) = Len(mail) /\ Len(judged) = Len(mail)
            /\ todo \in Seq([mail : Mails, uid : Nat]) /\ pending \in Seq(Int)
        BY <3>1 DEF MailInit
      <3>3. nextUid \in Nat \ {0} /\ uidValidity \in Nat \ {0}
        BY DEF MailInit
      <3>4. bigFits \in BOOLEAN
        BY DEF MailInit
      <3>5. pc \in Steps /\ dest \in Folders
        BY DEF MailInit, Steps, Folders
      <3> QED  BY <2>2, <3>2, <3>3, <3>4, <3>5 DEF MailTypeOK
    <2>4. Where /\ Landing /\ AboutToFile
      BY DEF MailInit, Where, Landing, AboutToFile
    <2>5. Letterbox
      BY <2>1 DEF MailInit, Letterbox, Uids, Issued, Refs, RefsDiffer, RefUids, Named, Filed
    <2> QED  BY <2>3, <2>4, <2>5 DEF MailIInv
  <1>2. MailIInv /\ [MailNext]_mailVars => MailIInv'
    <2> SUFFICES ASSUME MailIInv, [MailNext]_mailVars  PROVE MailIInv'
      OBVIOUS
    <2>1. CASE runMailIngest
      BY <2>1, runMailIngestInv
    <2>2. CASE PollDies
      BY <2>2, PollEndsInv
    <2>3. CASE MailArrives
      BY <2>3, MailArrivesInv
    <2>4. CASE UserMovesBack \/ UserTakesAway
      BY <2>4, UserMovesMailInv
    <2>5. CASE UserRaisesCap
      BY <2>5, UserRaisesCapInv
    <2>6. CASE UserRecreatesFolder
      BY <2>6, UserRecreatesFolderInv
    <2>7. CASE UserSwitches
      BY <2>7, MailStutter DEF UserSwitches
    <2>8. CASE UNCHANGED mailVars
      BY <2>8, MailStutter DEF mailVars, settings
    <2> QED  BY <2>1, <2>2, <2>3, <2>4, <2>5, <2>6, <2>7, <2>8 DEF MailNext
  <1> QED  BY <1>1, <1>2, PTL DEF MailSpec

\* A mail filed as processed has landed whole, by the cap it was filed under, and a
\* Document of it names what was left out: for any mails and batches, through either
\* connector, whatever failed, crashed or was moved meanwhile.
THEOREM ProcessedMailHasLanded == MailSpec => []ProcessedHasLanded
  <1>1. MailIInv => ProcessedHasLanded
    <2> SUFFICES ASSUME MailIInv, NEW m \in Mails, folder[m] = "processed"
                 PROVE  LET of == {d \in docs : d.mail = m}
                        IN  /\ of # {}
                            /\ \A n \in DOMAIN mail[m].parts :
                                  /\ mail[m].parts[n] = "small" \/ (mail[m].parts[n] = "big" /\ judged[m])
                                     => \E d \in of : d.part = n
                                  /\ mail[m].parts[n] = "big"
                                     => \E d \in of :
                                          \/ d.part = n
                                          \/ {<<"skipped", n>>, <<"truncated", 0>>} \cap Range(d.text) # {}
      BY DEF ProcessedHasLanded
    <2>1. Complete(docs, mail[m].parts, m, judged[m])
      BY DEF MailIInv, Letterbox, Filed
    <2> QED  BY <2>1 DEF Complete, HasDocument, Names
  <1> QED  BY <1>1, MailInvariance, PTL

\* A part of a mail becomes one Document: two of one part of a mail that is known by its
\* Message-ID, or that came through Gmail, would bear one ref.
THEOREM PartHasOneDocument == MailSpec => []OneDocumentPerPart
  <1>1. MailIInv => OneDocumentPerPart
    <2> SUFFICES ASSUME MailIInv, NEW d \in docs, NEW e \in docs, d.mail = e.mail, d.part = e.part,
                        mail[d.mail].id \/ transport = "gmail"
                 PROVE  d = e
      BY DEF OneDocumentPerPart
    <2>1. ByMessage(d) /\ ByMessage(e)
      BY DEF MailIInv, Letterbox, Refs, ByUid
    <2>2. d.ref = e.ref
      BY <2>1 DEF ByMessage
    <2> QED  BY <2>2 DEF MailIInv, Letterbox, RefsDiffer
  <1> QED  BY <1>1, MailInvariance, PTL
=============================================================================
