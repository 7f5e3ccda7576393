------------------------------- MODULE Sweep -------------------------------
(***************************************************************************)
(* How scans 2 (answered questions) and 5 (results of called Assistants)   *)
(* walk a set of Conversations that is larger than a page.                 *)
(*                                                                         *)
(* The store returns at most a page, ordered by createdAt, at or after a   *)
(* cursor that is itself a createdAt.  A pass reads a bounded number of    *)
(* pages and leaves the cursor for the next pass in memory; a short page   *)
(* ends the sweep and sends the cursor back to the beginning.  Rows leave  *)
(* the set when they are continued, come back when they are suspended      *)
(* again, and some (a child whose parent was deleted) never leave.         *)
(***************************************************************************)
EXTENDS Integers, FiniteSets, FiniteSetsExt

CONSTANTS
    Rows,            \* the Conversations, numbered in the order of creation
    CreatedAt,       \* [Rows -> Nat \ {0}], with the granularity of a second
    PageSize,        \* PAGE_SIZE
    MaxPages,        \* ANSWERED_SCAN_MAX_PAGES
    Stuck,           \* the rows that stay in the set whatever the scan does
    MaxRestarts      \* bound: restarts of the Runtime

ASSUME SweepSizes ==
    /\ PageSize \in Nat \ {0} /\ MaxPages \in Nat \ {0} /\ MaxRestarts \in Nat
    /\ CreatedAt \in [Rows -> Nat \ {0}] /\ Stuck \subseteq Rows /\ IsFiniteSet(Rows)

VARIABLES
    waiting,         \* the rows the query matches
    ready,           \* of these, the ones the scan can do something about
    kept,            \* answeredCursor, resultDeliveryCursor; 0 is the beginning
    cursor, examined, pageNo, page, full, newest, fresh, active,
    whole, sweep, restarts

scan == <<cursor, examined, pageNo, page, full, newest, fresh, active>>
vars == <<waiting, ready, kept, scan, whole, sweep, restarts>>

Instants == {0} \cup {CreatedAt[r] : r \in Rows} \cup {CreatedAt[r] + 1 : r \in Rows}

TypeOK ==
    /\ waiting \subseteq Rows /\ ready \subseteq waiting
    /\ kept \in Instants /\ cursor \in Instants /\ newest \in Instants
    /\ examined \subseteq Rows /\ page \subseteq Rows
    /\ pageNo \in 0..(MaxPages - 1) /\ full \in BOOLEAN /\ fresh \in BOOLEAN
    /\ active \in {"idle", "query", "rows"}
    /\ whole \subseteq Rows /\ sweep \subseteq Rows
    /\ restarts \in 0..MaxRestarts

Init ==
    /\ waiting = Rows /\ ready = {}
    /\ kept = 0 /\ cursor = 0 /\ newest = 0
    /\ examined = {} /\ page = {} /\ pageNo = 0 /\ full = FALSE /\ fresh = FALSE
    /\ active = "idle"
    /\ whole = {} /\ sweep = {}
    /\ restarts = 0

-----------------------------------------------------------------------------
(* The first page of what lies at or after the cursor; ties in any order.    *)
PagesOf(S) ==
    {P \in kSubset(IF Cardinality(S) < PageSize THEN Cardinality(S) ELSE PageSize, S) :
        \A p \in P, s \in S \ P : CreatedAt[p] <= CreatedAt[s]}

Idle ==
    /\ active' = "idle" /\ cursor' = 0 /\ newest' = 0 /\ examined' = {}
    /\ page' = {} /\ pageNo' = 0 /\ full' = FALSE /\ fresh' = FALSE

(* A sweep that starts at the beginning owes a look at everything that waits *)
(* from now until its end.                                                   *)
StartPass ==
    /\ active = "idle"
    /\ active' = "query" /\ cursor' = kept /\ pageNo' = 0 /\ examined' = {}
    /\ whole' = IF kept = 0 THEN waiting ELSE whole
    /\ sweep' = IF kept = 0 THEN {} ELSE sweep
    /\ UNCHANGED <<waiting, ready, kept, page, full, newest, fresh, restarts>>

ReadPage ==
    /\ active = "query" /\ pageNo < MaxPages
    /\ \E P \in PagesOf({r \in waiting : CreatedAt[r] >= cursor}) :
           /\ page' = P
           /\ full' = (Cardinality(P) >= PageSize)
    /\ newest' = cursor /\ fresh' = FALSE /\ active' = "rows"
    /\ UNCHANGED <<waiting, ready, kept, cursor, examined, pageNo, whole, sweep, restarts>>

(* One row.  One that is ready is continued: it leaves the set.              *)
ExamineRow ==
    /\ active = "rows"
    /\ \E r \in page :
         /\ \A s \in page : CreatedAt[r] <= CreatedAt[s]
         /\ page' = page \ {r}
         /\ newest' = Max({newest, CreatedAt[r]})
         /\ examined' = examined \cup {r}
         /\ fresh' = (fresh \/ r \notin examined)
         /\ sweep' = sweep \cup {r}
         /\ IF r \in ready /\ r \notin examined
               THEN /\ waiting' = waiting \ {r} /\ ready' = ready \ {r}
               ELSE UNCHANGED <<waiting, ready>>
    /\ UNCHANGED <<kept, cursor, pageNo, full, active, whole, restarts>>

EndPass(c) ==
    /\ kept' = c
    /\ Idle

(* A short page is the end of the sweep.                                     *)
ShortPage ==
    /\ active = "rows" /\ page = {} /\ ~full
    /\ EndPass(0)
    /\ UNCHANGED <<waiting, ready, whole, sweep, restarts>>

(* Slips: rows of the boundary second are skipped; a tie is never left.      *)
NextCursor_Exclusive == newest + 1
NextCursor_NoStep == newest

(* A full page without a row that is new is a tie the store cannot be asked  *)
(* for the rest of: the sweep steps one second past it.                      *)
NextCursor == IF fresh THEN newest ELSE newest + 1

FullPage ==
    /\ active = "rows" /\ page = {} /\ full
    /\ \/ /\ pageNo + 1 < MaxPages
          /\ cursor' = NextCursor /\ pageNo' = pageNo + 1 /\ active' = "query"
          /\ UNCHANGED <<kept, examined, page, full, newest, fresh>>
       \/ /\ pageNo + 1 = MaxPages
          /\ EndPass(NextCursor)
    /\ UNCHANGED <<waiting, ready, whole, sweep, restarts>>

-----------------------------------------------------------------------------
(* The world.  The rest of a pass, and the User, change the set between two  *)
(* scans; the User answers at any moment.                                    *)

BecomesReady(r) ==
    /\ r \in waiting \ (ready \cup Stuck)
    /\ ready' = ready \cup {r}
    /\ UNCHANGED <<waiting, kept, scan, whole, sweep, restarts>>

Suspends(r) ==
    /\ active = "idle" /\ r \notin waiting
    /\ waiting' = waiting \cup {r}
    /\ UNCHANGED <<ready, kept, scan, whole, sweep, restarts>>

Leaves(r) ==
    /\ active = "idle" /\ r \in waiting \ Stuck
    /\ waiting' = waiting \ {r} /\ ready' = ready \ {r} /\ whole' = whole \ {r}
    /\ UNCHANGED <<kept, scan, sweep, restarts>>

(* The cursor is in memory only: a restart begins at the beginning.          *)
Restart ==
    /\ restarts < MaxRestarts
    /\ restarts' = restarts + 1 /\ kept' = 0
    /\ Idle
    /\ UNCHANGED <<waiting, ready, whole, sweep>>

Scan == StartPass \/ ReadPage \/ ExamineRow \/ ShortPage \/ FullPage

Next ==
    \/ Scan \/ Restart
    \/ \E r \in Rows : BecomesReady(r) \/ Suspends(r) \/ Leaves(r)

Spec == Init /\ [][Next]_vars

(* The scan loop runs for as long as the process lives.                      *)
FairSpec == Spec /\ WF_vars(Scan)

-----------------------------------------------------------------------------
(* When a sweep reaches its end, every row that waited all through it has    *)
(* been looked at: the cursor skips nothing, whatever joins, leaves or stays *)
(* in the set on the way.  Rows of one second that do not fit a page are the *)
(* exception the code names.                                                 *)
SweepSkipsNothing ==
    (active = "rows" /\ page = {} /\ ~full) => whole \cap waiting \subseteq sweep

(* A Conversation whose answer is there is continued in the end, however     *)
(* many others wait before it and however many can never be continued.       *)
ReadyIsContinued == \A r \in Rows : (r \in ready) ~> (r \notin ready)
============================================================================
