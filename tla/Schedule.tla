------------------------------ MODULE Schedule ------------------------------
(***************************************************************************)
(* Scan 7: Conversations born from the clock.                              *)
(*                                                                         *)
(* Time is a line of instants 1..Last; WallClock gives what a clock in the *)
(* household's timezone shows at each.  Two instants may show the same     *)
(* (the autumn hour that happens twice) and a reading may be shown by none *)
(* (the spring hour that does not exist).  A cron is the set of readings   *)
(* it matches, so its slots are instants.  now = i stands for any moment   *)
(* from instant i to just before instant i + 1.                            *)
(*                                                                         *)
(* A pass takes the schedule Triggers one after the other.  Nothing is     *)
(* remembered about a slot but the Conversation that served it; the        *)
(* Runtime may die, or lose the store's answer to a birth, at any point.   *)
(***************************************************************************)
EXTENDS Integers, Sequences, FiniteSets, FiniteSetsExt

CONSTANTS
    Last,            \* bound: the end of the modelled time
    WallClock,       \* what the household's clock shows at an instant
    Triggers,        \* the schedule Triggers, in the order a pass takes them
    Assistants,      \* the Assistants that carry them
    MaxBirths,       \* MAX_BIRTHS_PER_HOUR
    Hour,            \* the length of the birth window, in instants
    MaxCrashes,      \* bound: times the Runtime dies
    MaxEdits         \* bound: times the User switches an Assistant on or off

Instants == 1..Last

ASSUME ScheduleAssumption ==
    /\ Last \in Nat \ {0} /\ {MaxBirths, Hour, MaxCrashes, MaxEdits} \subseteq Nat
    /\ WallClock \in [Instants -> Nat]
    /\ Triggers \in Seq([by : Assistants, cron : SUBSET Nat])

VARIABLES
    now,             \* the clock
    conv,            \* the store: the Conversation an Assistant has for a slot
    enabled,         \* the store: the Assistants that are switched on
    stored,          \* the store: RuntimeState's birth window
    pc,              \* the Trigger a pass is at; 0 between passes, -1 while down
    at, roster, mem, \* the pass's clock, Assistants and copy of the RuntimeState
    startedAt,       \* history: when this process started
    caughtUp,        \* history: the slots of before its start this process gave birth to
    crashes, edits

world == <<now, enabled, crashes, edits>>
vars == <<now, conv, enabled, stored, pc, at, roster, mem,
          startedAt, caughtUp, crashes, edits>>

Window == [births : Nat, since : 0..Last]
NoWindow == [births |-> 0, since |-> 0]
Conversations == {"none", "running", "waiting", "done", "failed"}

TypeOK ==
    /\ now \in Instants
    /\ conv \in [Assistants -> [Instants -> Conversations]]
    /\ enabled \subseteq Assistants /\ roster \subseteq Assistants
    /\ stored \in Window /\ mem \in Window
    /\ pc \in -1..(Len(Triggers) + 1)
    /\ at \in 0..now /\ startedAt \in 1..now
    /\ caughtUp \subseteq (DOMAIN Triggers) \X Instants
    /\ crashes \in 0..MaxCrashes /\ edits \in 0..MaxEdits

Init ==
    /\ now = 1
    /\ conv = [a \in Assistants |-> [i \in Instants |-> "none"]]
    /\ enabled = Assistants /\ roster = {}
    /\ stored = [births |-> 0, since |-> 1] /\ mem = NoWindow
    /\ pc = 0 /\ at = 0 /\ startedAt = 1 /\ caughtUp = {}
    /\ crashes = 0 /\ edits = 0

-----------------------------------------------------------------------------
(* When was a Schedule last due?                                           *)

Slots == [t \in DOMAIN Triggers |-> {i \in Instants : WallClock[i] \in Triggers[t].cron}]

\* cron-parser's prev(): the latest slot before an instant, 0 when it throws.
prev(t, i) == Max({0} \cup {s \in Slots[t] : s < i})

MAX_COLLAPSE_STEPS == 4

\* Walk back over the slots that show the same wall clock, onto the first.
Collapse ==
    [t \in DOMAIN Triggers |->
        LET walk[k \in 0..MAX_COLLAPSE_STEPS] ==
                [s \in Instants |->
                    LET earlier == prev(t, s)
                    IN  IF k = 0 \/ earlier = 0 THEN s
                        ELSE IF WallClock[earlier] # WallClock[s] THEN s
                        ELSE walk[k - 1][earlier]]
        IN  walk[MAX_COLLAPSE_STEPS]]

\* Slips: both occurrences of a repeated reading are slots; the oldest unserved slot is
\* the one that is due.
latestDueInstantBefore_NoCollapse(t, i) == prev(t, i + 1)
latestDueInstantBefore_Backlog(t, i) ==
    LET todo == {s \in Slots[t] : s <= i /\ conv[Triggers[t].by][s] = "none"}
    IN  IF todo = {} THEN 0 ELSE Min(todo)

latestDueInstantBefore(t, i) ==
    LET due == prev(t, i + 1)
    IN  IF due = 0 THEN 0 ELSE Collapse[t][due]

-----------------------------------------------------------------------------
(* The queries of the scan, and the birth budget.                          *)

scheduledConversationExists(a, slot) == conv[a][slot] # "none"
Unfinished(a) == \E i \in Instants : conv[a][i] \in {"running", "waiting"}

\* Slips: a run that waits for the User does not count; one that failed does.
anyUnfinishedScheduledConversation_RunningOnly(a) ==
    \E i \in Instants : conv[a][i] = "running"
anyUnfinishedScheduledConversation_FailedToo(a) ==
    \E i \in Instants : conv[a][i] \in {"running", "waiting", "failed"}

anyUnfinishedScheduledConversation(a) == Unfinished(a)

WindowOver == now - mem.since > Hour
withinBirthBudget == WindowOver \/ mem.births < MaxBirths
\* birthsThisHour after one more birth; a window that is over starts anew.
Charged == IF WindowOver THEN [births |-> 1, since |-> now]
           ELSE [mem EXCEPT !.births = @ + 1]

-----------------------------------------------------------------------------
(* The pass.                                                               *)

\* What a pass has in memory is gone with it.
NoPass == at' = 0 /\ roster' = {} /\ mem' = NoWindow

loadState ==
    /\ pc = 0
    /\ pc' = 1 /\ at' = now /\ roster' = enabled /\ mem' = stored
    /\ UNCHANGED <<world, conv, stored, startedAt, caughtUp>>

AtTrigger == pc \in DOMAIN Triggers
Carrier == Triggers[pc].by
Due == latestDueInstantBefore(pc, at)
GoToNext == /\ pc' = pc + 1
            /\ UNCHANGED <<world, stored, at, roster, startedAt>>

\* A switched-off Assistant is not in the roster; a cron matching nothing yet is not due.
NotDue ==
    /\ AtTrigger
    /\ Carrier \notin roster \/ Due = 0
    /\ GoToNext
    /\ UNCHANGED <<conv, mem, caughtUp>>

\* The Trigger of a switched-on Assistant whose cron has been due.
Wanted == AtTrigger /\ Carrier \in roster /\ Due # 0

AlreadyServed ==
    /\ Wanted /\ scheduledConversationExists(Carrier, Due)
    /\ GoToNext
    /\ UNCHANGED <<conv, mem, caughtUp>>

\* An earlier run that is unfinished holds the slot back; a warning is logged.
Stalled ==
    /\ Wanted /\ ~scheduledConversationExists(Carrier, Due)
    /\ anyUnfinishedScheduledConversation(Carrier)
    /\ GoToNext
    /\ UNCHANGED <<conv, mem, caughtUp>>

Unblocked ==
    /\ Wanted /\ ~scheduledConversationExists(Carrier, Due)
    /\ ~anyUnfinishedScheduledConversation(Carrier)

\* The rest of the pass is given up: `return births`.
OutOfBudget ==
    /\ Unblocked /\ ~withinBirthBudget
    /\ pc' = Len(Triggers) + 1
    /\ UNCHANGED <<world, conv, stored, at, roster, mem, startedAt, caughtUp>>

birth ==
    /\ conv' = [conv EXCEPT ![Carrier][Due] = "running"]
    /\ caughtUp' = IF Due <= startedAt THEN caughtUp \cup {<<pc, Due>>} ELSE caughtUp

Born ==
    /\ Unblocked /\ withinBirthBudget /\ birth
    /\ mem' = Charged
    /\ GoToNext

\* The store has the Conversation, the answer is lost: the pass throws, no heartbeat.
BornUnheard ==
    /\ Unblocked /\ withinBirthBudget /\ birth
    /\ pc' = 0 /\ NoPass
    /\ UNCHANGED <<world, stored, startedAt>>

stampHeartbeat ==
    /\ pc = Len(Triggers) + 1
    /\ stored' = mem /\ pc' = 0 /\ NoPass
    /\ UNCHANGED <<world, conv, startedAt, caughtUp>>

scanScheduled ==
    \/ loadState \/ NotDue \/ AlreadyServed \/ Stalled
    \/ OutOfBudget \/ Born \/ stampHeartbeat

-----------------------------------------------------------------------------
(* Everything else.                                                        *)

\* A Turn, or the User's answer, moves a Conversation on between two passes.
Advance ==
    /\ pc = 0
    /\ \E a \in Assistants, i \in Instants :
          /\ conv[a][i] \in {"running", "waiting"}
          /\ \E s \in {"running", "waiting", "done", "failed"} \ {conv[a][i]} :
                conv' = [conv EXCEPT ![a][i] = s]
    /\ UNCHANGED <<world, stored, pc, at, roster, mem, startedAt, caughtUp>>

Tick ==
    /\ now < Last /\ now' = now + 1
    /\ UNCHANGED <<conv, enabled, stored, pc, at, roster, mem, startedAt, caughtUp, crashes, edits>>

Crash ==
    /\ pc >= 0 /\ crashes < MaxCrashes
    /\ pc' = -1 /\ crashes' = crashes + 1 /\ NoPass
    /\ UNCHANGED <<now, conv, enabled, stored, startedAt, caughtUp, edits>>

\* A new process starts with an empty memory.
Restart ==
    /\ pc = -1 /\ pc' = 0
    /\ startedAt' = now /\ caughtUp' = {}
    /\ UNCHANGED <<world, conv, stored, at, roster, mem>>

\* The User switches an Assistant on or off.
SwitchAssistant ==
    /\ edits < MaxEdits /\ edits' = edits + 1
    /\ \E a \in Assistants :
          enabled' = IF a \in enabled THEN enabled \ {a} ELSE enabled \cup {a}
    /\ UNCHANGED <<now, conv, stored, pc, at, roster, mem, startedAt, caughtUp, crashes>>

Next == \/ scanScheduled \/ BornUnheard
        \/ Advance \/ Tick \/ Crash \/ Restart \/ SwitchAssistant

Spec == Init /\ [][Next]_vars

\* The scan loop comes round for as long as the process lives, and Docker restarts it.
FairSpec == Spec /\ WF_vars(scanScheduled) /\ WF_vars(Restart)

-----------------------------------------------------------------------------
(* What makes it correct.                                                  *)

\* A slot of the wall clock is served by one Conversation: across passes, restarts
\* and lost answers, and when the hour it lies in happens twice.
OncePerSlot ==
    \A a \in Assistants : \A i, j \in Instants :
        /\ i # j
        /\ scheduledConversationExists(a, i) /\ scheduledConversationExists(a, j)
        => WallClock[i] # WallClock[j]

\* A Schedule stalls rather than accumulates: an Assistant never has two scheduled
\* Conversations that are unfinished at once.
OneAtATime ==
    \A a \in Assistants : \A i, j \in Instants :
        conv[a][i] \in {"running", "waiting"} /\ conv[a][j] \in {"running", "waiting"} => i = j

\* However long the Runtime was down, a Trigger's missed slots are caught up with one
\* Conversation: of the slots due at its start a process serves at most one per Trigger.
CatchUpOnce ==
    \A t \in DOMAIN Triggers :
        Cardinality({i \in Instants : <<t, i>> \in caughtUp}) <= 1

\* The latest due slot of every Trigger is again and again found served, unless the
\* Assistant is off, an earlier run is unfinished, or the hour's births are used up.
SlotIsServed ==
    \A t \in DOMAIN Triggers :
        []<>LET a == Triggers[t].by
                due == latestDueInstantBefore(t, now)
            IN  \/ due = 0 \/ a \notin enabled
                \/ scheduledConversationExists(a, due)
                \/ Unfinished(a)
                \/ stored.births >= MaxBirths /\ now - stored.since <= Hour
=============================================================================
