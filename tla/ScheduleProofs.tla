--------------------------- MODULE ScheduleProofs ---------------------------
(***************************************************************************)
(* A Schedule stalls rather than accumulates, serves a slot once and       *)
(* catches up once, for every timeline, wall clock and list of Triggers.   *)
(*                                                                         *)
(* OneAtATime is inductive once the store is known to be a table of        *)
(* Conversations: a birth needs an Assistant without an unfinished one,    *)
(* and a Turn moves on only a Conversation that is unfinished already.     *)
(* When a slot is due plays no part, so nothing is asked of the cron.      *)
(*                                                                         *)
(* The other two are about the walk back over repeated readings.  It ends  *)
(* at the first instant with its reading if the repeats are neighbours     *)
(* among the slots of the cron (RepeatsAreNeighbours): so a Conversation   *)
(* is always of a first instant (ServedFirst), and a slot of before the    *)
(* start that is due later is the one that was due at the start            *)
(* (DueAtStart).                                                           *)
(***************************************************************************)
EXTENDS Schedule, FiniteSetTheorems, WellFoundedInduction, TLAPS

\* The store holds one Conversation, or none, per Assistant and slot.
ConvTyped == conv \in [Assistants -> [Instants -> Conversations]]

IInv == ConvTyped /\ OneAtATime

-----------------------------------------------------------------------------

\* The store starts empty.
LEMMA InitIInv == Init => IInv
  BY DEF Init, IInv, ConvTyped, OneAtATime, Conversations

\* Only a birth and a Turn write to the table of Conversations.
LEMMA WritersOfConv ==
    ASSUME [Next]_vars
    PROVE  \/ UNCHANGED conv
           \/ Unblocked /\ birth
           \/ Advance
  BY DEF Next, vars, world, scanScheduled, BornUnheard, Tick, Crash, Restart,
         SwitchAssistant, loadState, NotDue, AlreadyServed, Stalled, OutOfBudget,
         Born, stampHeartbeat, GoToNext

\* A birth, and every step of a Conversation, leaves a table of Conversations with at
\* most one unfinished per Assistant.
LEMMA NextIInv == IInv /\ [Next]_vars => IInv'
  <1> SUFFICES ASSUME IInv, [Next]_vars PROVE IInv'
    OBVIOUS
  <1>1. CASE UNCHANGED conv
    BY <1>1 DEF IInv, ConvTyped, OneAtATime
  <1>2. CASE Unblocked /\ birth
    <2> DEFINE a == Carrier
               d == Due
    <2>1. conv' = [conv EXCEPT ![a][d] = "running"]
      BY <1>2 DEF birth
    <2>2. \A i \in Instants : conv[a][i] \notin {"running", "waiting"}
      BY <1>2 DEF Unblocked, anyUnfinishedScheduledConversation, Unfinished
    <2>3. ConvTyped /\ OneAtATime
      BY DEF IInv
    <2> HIDE DEF a, d
    <2>4. ConvTyped'
      BY <2>1, <2>3 DEF ConvTyped, Conversations
    <2>5. ASSUME NEW b \in Assistants, NEW i \in Instants, NEW j \in Instants,
                 conv'[b][i] \in {"running", "waiting"},
                 conv'[b][j] \in {"running", "waiting"}
          PROVE  i = j
      <3>1. CASE b = a
        <4>1. \A k \in Instants : conv'[b][k] = IF k = d THEN "running" ELSE conv[b][k]
          BY <2>1, <2>3, <3>1 DEF ConvTyped
        <4> QED
          BY <2>2, <2>5, <3>1, <4>1
      <3>2. CASE b # a
        <4>1. conv'[b] = conv[b]
          BY <2>1, <2>3, <3>2 DEF ConvTyped
        <4> QED
          BY <2>3, <2>5, <4>1 DEF OneAtATime
      <3> QED
        BY <3>1, <3>2
    <2> QED
      BY <2>4, <2>5 DEF IInv, OneAtATime
  <1>3. CASE Advance
    <2>1. PICK a \in Assistants, s \in Instants :
             /\ conv[a][s] \in {"running", "waiting"}
             /\ \E v \in {"running", "waiting", "done", "failed"} \ {conv[a][s]} :
                   conv' = [conv EXCEPT ![a][s] = v]
      BY <1>3 DEF Advance
    <2>2. PICK v \in {"running", "waiting", "done", "failed"} :
             conv' = [conv EXCEPT ![a][s] = v]
      BY <2>1
    <2>3. ConvTyped /\ OneAtATime
      BY DEF IInv
    <2>4. ConvTyped'
      BY <2>2, <2>3 DEF ConvTyped, Conversations
    <2>5. ASSUME NEW b \in Assistants, NEW i \in Instants,
                 conv'[b][i] \in {"running", "waiting"}
          PROVE  conv[b][i] \in {"running", "waiting"}
      BY <2>1, <2>2, <2>3, <2>5 DEF ConvTyped
    <2> QED
      BY <2>3, <2>4, <2>5 DEF IInv, OneAtATime
  <1> QED
    BY <1>1, <1>2, <1>3, WritersOfConv

\* An Assistant never has two scheduled Conversations unfinished at once, whatever its
\* crons, the clock, the restarts and the lost answers: the skip rule of scanScheduled.
THEOREM StallsRatherThanAccumulates == Spec => []OneAtATime
  <1>1. IInv => OneAtATime
    BY DEF IInv
  <1> QED
    BY InitIInv, NextIInv, <1>1, PTL DEF Spec

-----------------------------------------------------------------------------
(* When a Schedule is due.                                                 *)

\* Two slots of a cron that show one reading have no other slot between them.
RepeatsAreNeighbours ==
    \A t \in DOMAIN Triggers : \A i, j, s \in Slots[t] :
        WallClock[i] = WallClock[j] /\ i < s => ~(s < j)

\* The first instant with its reading.
Earliest(i) == \A j \in Instants : WallClock[j] = WallClock[i] => i <= j

\* A set of naturals up to Last has a greatest element.
LEMMA GreatestExists ==
    ASSUME NEW S \in SUBSET (0..Last), S # {}
    PROVE  Max(S) \in S /\ \A y \in S : y <= Max(S)
  <1> DEFINE D == {Last - x : x \in S}
  <1>0. Last \in Nat /\ \A x \in S : x \in Nat /\ x <= Last
    BY ScheduleAssumption
  <1>1. D \subseteq Nat /\ D # {}
    <2>1. \A x \in S : Last - x \in Nat
      BY <1>0
    <2>2. D \subseteq Nat
      BY <2>1
    <2>3. D # {}
      OBVIOUS
    <2> QED  BY <2>2, <2>3
  <1> HIDE DEF D
  <1>2. PICK d \in D : \A e \in D : ~(<<e, d>> \in OpToRel(<, Nat))
    BY <1>1, NatLessThanWellFounded, WFMin
  <1>3. PICK x \in S : d = Last - x
    BY DEF D
  <1>4. ASSUME NEW y \in S  PROVE x >= y
    <2>1. Last - y \in D
      BY DEF D
    <2>2. d \in Nat /\ Last - y \in Nat
      BY <1>1, <2>1
    <2>3. Last - y < d => <<Last - y, d>> \in OpToRel(<, Nat)
      BY <2>2 DEF OpToRel
    <2>4. ~(Last - y < d)
      BY <1>2, <2>1, <2>3
    <2> QED  BY <1>0, <1>3, <2>2, <2>4
  <1>5. \E m \in S : \A y \in S : m >= y
    BY <1>4
  <1>6. Max(S) \in S /\ \A y \in S : Max(S) >= y
    BY <1>5 DEF Max
  <1> QED  BY <1>0, <1>6

\* prev: the latest slot before an instant, or none.
LEMMA PrevIs ==
    ASSUME NEW t \in DOMAIN Triggers, NEW i
    PROVE  /\ prev(t, i) \in 0..Last
           /\ prev(t, i) # 0 => prev(t, i) \in Slots[t] /\ prev(t, i) < i
           /\ \A s \in Slots[t] : s < i => s <= prev(t, i) /\ prev(t, i) # 0
  <1> DEFINE S == {0} \cup {s \in Slots[t] : s < i}
  <1>0. Slots[t] \subseteq Instants /\ Last \in Nat
    BY ScheduleAssumption DEF Slots
  <1>1. S \in SUBSET (0..Last) /\ S # {}
    BY <1>0 DEF Instants
  <1>2. prev(t, i) = Max(S)
    BY DEF prev
  <1> HIDE DEF S
  <1>3. Max(S) \in S /\ \A y \in S : y <= Max(S)
    BY <1>1, GreatestExists
  <1>4. \A s \in Slots[t] : s < i => s \in S /\ s \in Nat /\ s >= 1
    BY <1>0 DEF S, Instants
  <1> QED  BY <1>1, <1>2, <1>3, <1>4 DEF S

\* One step of the walk back: onto the slot before, if it shows the same.
Back(t, s) == LET earlier == prev(t, s)
              IN  IF earlier = 0 THEN s ELSE IF WallClock[earlier] # WallClock[s] THEN s ELSE earlier

\* One level of the walk, k steps from its end, above the level g.
Level(t, k, g) == [x \in Instants |->
                     LET earlier == prev(t, x)
                     IN  IF k = 0 \/ earlier = 0 THEN x
                         ELSE IF WallClock[earlier] # WallClock[x] THEN x
                         ELSE g[earlier]]

\* The walk of the definition exists: it has five levels, each built on the one before.
LEMMA WalkExists ==
    ASSUME NEW t \in DOMAIN Triggers
    PROVE  \E walk : /\ Collapse[t] = walk[4] /\ walk[4] = Level(t, 4, walk[3]) /\ walk[3] = Level(t, 3, walk[2])
                     /\ walk[2] = Level(t, 2, walk[1]) /\ walk[1] = Level(t, 1, walk[0]) /\ walk[0] = Level(t, 0, walk[-1])
  <1> DEFINE w0 == Level(t, 0, <<>>)
             w1 == Level(t, 1, w0)
             w2 == Level(t, 2, w1)
             w3 == Level(t, 3, w2)
             w4 == Level(t, 4, w3)
             Walk(f) == f = [k \in 0..4 |-> Level(t, k, f[k - 1])]
             g == [k \in 0..4 |-> IF k = 0 THEN w0 ELSE IF k = 1 THEN w1 ELSE IF k = 2 THEN w2
                                  ELSE IF k = 3 THEN w3 ELSE w4]
             walk == CHOOSE f : Walk(f)
  <1>1. \A a, b : Level(t, 0, a) = Level(t, 0, b)
    BY DEF Level
  <1>2. Walk(g)
    <2>1. g[0] = w0 /\ g[1] = w1 /\ g[2] = w2 /\ g[3] = w3 /\ g[4] = w4
      OBVIOUS
    <2>2. /\ w0 = Level(t, 0, g[0 - 1]) /\ w1 = Level(t, 1, g[1 - 1]) /\ w2 = Level(t, 2, g[2 - 1])
          /\ w3 = Level(t, 3, g[3 - 1]) /\ w4 = Level(t, 4, g[4 - 1])
      <3> HIDE DEF g
      <3> QED  BY <1>1, <2>1
    <2>3. \A k \in 0..4 : g[k] = Level(t, k, g[k - 1])
      <3>1. \A k \in 0..4 : k = 0 \/ k = 1 \/ k = 2 \/ k = 3 \/ k = 4
        OBVIOUS
      <3> HIDE DEF g
      <3> QED  BY <2>1, <2>2, <3>1
    <2> QED  BY <2>3
  <1>3. Walk(walk)
    <2> HIDE DEF Walk, g
    <2> QED  BY <1>2
  <1>4. Collapse[t] = walk[4]
    BY DEF Collapse, MAX_COLLAPSE_STEPS, Level
  <1> HIDE DEF walk
  <1>5. \A k \in 0..4 : walk[k] = Level(t, k, walk[k - 1])
    BY <1>3
  <1>6. /\ 0 \in 0..4 /\ 1 \in 0..4 /\ 2 \in 0..4 /\ 3 \in 0..4 /\ 4 \in 0..4
        /\ 4 - 1 = 3 /\ 3 - 1 = 2 /\ 2 - 1 = 1 /\ 1 - 1 = 0 /\ 0 - 1 = -1
    OBVIOUS
  <1> QED  BY <1>4, <1>5, <1>6

\* A level of the walk stays among the instants if the one below does.
LEMMA LevelTyped ==
    ASSUME NEW t \in DOMAIN Triggers, NEW k, NEW g, \A x \in Instants : k = 0 \/ g[x] \in Instants
    PROVE  \A x \in Instants : Level(t, k, g)[x] \in Instants
  <1> TAKE x \in Instants
  <1>1. prev(t, x) # 0 => prev(t, x) \in Instants
    BY PrevIs DEF Slots
  <1> QED  BY <1>1 DEF Level

\* Whatever the readings, the walk ends at an instant.
LEMMA CollapseTyped ==
    ASSUME NEW t \in DOMAIN Triggers
    PROVE  \A s \in Instants : Collapse[t][s] \in Instants
  <1>1. PICK walk : /\ Collapse[t] = walk[4] /\ walk[4] = Level(t, 4, walk[3]) /\ walk[3] = Level(t, 3, walk[2])
                    /\ walk[2] = Level(t, 2, walk[1]) /\ walk[1] = Level(t, 1, walk[0]) /\ walk[0] = Level(t, 0, walk[-1])
    BY WalkExists
  <1>2. \A s \in Instants : walk[0][s] \in Instants
    BY <1>1, LevelTyped
  <1>3. \A s \in Instants : walk[1][s] \in Instants
    BY <1>1, <1>2, LevelTyped
  <1>4. \A s \in Instants : walk[2][s] \in Instants
    BY <1>1, <1>3, LevelTyped
  <1>5. \A s \in Instants : walk[3][s] \in Instants
    BY <1>1, <1>4, LevelTyped
  <1>6. \A s \in Instants : walk[4][s] \in Instants
    BY <1>1, <1>5, LevelTyped
  <1> QED  BY <1>1, <1>6

\* Where no reading is shown three times running, the walk is one step back at most.
LEMMA WalkUnfolds ==
    ASSUME NEW t \in DOMAIN Triggers, NEW s \in Instants,
           LET e == prev(t, s) IN e # 0 /\ WallClock[e] = WallClock[s] =>
               prev(t, e) = 0 \/ WallClock[prev(t, e)] # WallClock[e]
    PROVE  Collapse[t][s] = Back(t, s)
  <1>1. PICK walk : Collapse[t] = walk[4] /\ walk[4] = Level(t, 4, walk[3]) /\ walk[3] = Level(t, 3, walk[2])
    BY WalkExists
  <1>2. walk[4][s] = LET e == prev(t, s) IN
                     IF e = 0 THEN s ELSE IF WallClock[e] # WallClock[s] THEN s ELSE walk[3][e]
    BY <1>1 DEF Level
  <1>3. ASSUME NEW e \in Instants  PROVE walk[3][e] = LET d == prev(t, e) IN
                     IF d = 0 THEN e ELSE IF WallClock[d] # WallClock[e] THEN e ELSE walk[2][d]
    BY <1>1 DEF Level
  <1>4. prev(t, s) # 0 => prev(t, s) \in Instants
    BY PrevIs DEF Slots
  <1> QED  BY <1>1, <1>2, <1>3, <1>4 DEF Back

\* A slot that is due is the first instant with its reading.
LEMMA BackIsEarliest ==
    ASSUME RepeatsAreNeighbours, NEW t \in DOMAIN Triggers, NEW s \in Slots[t]
    PROVE  /\ Collapse[t][s] \in Slots[t] /\ WallClock[Collapse[t][s]] = WallClock[s]
           /\ Earliest(Collapse[t][s])
  <1> DEFINE e == prev(t, s)
             d == prev(t, e)
  <1>0. Slots[t] \subseteq Instants /\ Instants \subseteq Int
    BY DEF Slots, Instants
  <1>1. /\ e # 0 => e \in Slots[t] /\ e < s
        /\ \A x \in Slots[t] : x < s => x <= e /\ e # 0
    BY PrevIs
  <1>2. /\ d # 0 => d \in Slots[t] /\ d < e
        /\ \A x \in Slots[t] : x < e => x <= d /\ d # 0
    BY PrevIs
  <1>3. \A j \in Instants : WallClock[j] = WallClock[s] => j \in Slots[t]
    BY DEF Slots
  <1> HIDE DEF e, d
  <1>4. e # 0 /\ WallClock[e] = WallClock[s] => d = 0 \/ WallClock[d] # WallClock[e]
    BY <1>1, <1>2 DEF RepeatsAreNeighbours
  <1>5. Collapse[t][s] = Back(t, s)
    BY <1>0, <1>4, WalkUnfolds DEF e, d
  <1>6. CASE e = 0 \/ WallClock[e] # WallClock[s]
    <2>1. Back(t, s) = s
      BY <1>6 DEF Back, e
    <2>2. ASSUME NEW j \in Instants, WallClock[j] = WallClock[s], ~(s <= j)  PROVE FALSE
      <3>0. j \in Int /\ s \in Int
        BY <1>0
      <3>1. j \in Slots[t] /\ j < s
        BY <1>3, <2>2, <3>0
      <3>2. j <= e /\ e # 0 /\ e \in Slots[t] /\ e < s
        BY <1>1, <3>1
      <3>3. j # e
        BY <1>6, <2>2, <3>2
      <3>4. j < e
        <4>1. e \in Int
          BY <1>0, <3>2
        <4> QED  BY <3>0, <3>2, <3>3, <4>1
      <3> QED  BY <2>2, <3>1, <3>2, <3>4 DEF RepeatsAreNeighbours
    <2> QED  BY <1>5, <2>1, <2>2 DEF Earliest
  <1>7. CASE e # 0 /\ WallClock[e] = WallClock[s]
    <2>1. Back(t, s) = e /\ e \in Slots[t] /\ e < s
      BY <1>1, <1>7 DEF Back, e
    <2>2. ASSUME NEW j \in Instants, WallClock[j] = WallClock[e], ~(e <= j)  PROVE FALSE
      <3>0. j \in Int /\ e \in Int
        BY <1>0, <2>1
      <3>1. j \in Slots[t] /\ j < e
        BY <1>3, <1>7, <2>2, <3>0
      <3> QED  BY <1>7, <2>1, <2>2, <3>1 DEF RepeatsAreNeighbours
    <2> QED  BY <1>5, <1>7, <2>1, <2>2 DEF Earliest
  <1> QED  BY <1>6, <1>7

\* What latestDueInstantBefore returns: nothing, or the first occurrence of the latest slot.
LEMMA DueIs ==
    ASSUME RepeatsAreNeighbours, NEW t \in DOMAIN Triggers, NEW i,
           latestDueInstantBefore(t, i) # 0
    PROVE  LET raw == prev(t, i + 1)
               due == latestDueInstantBefore(t, i)
           IN  /\ raw \in Slots[t] /\ raw < i + 1
               /\ due \in Slots[t] /\ due \in Instants /\ Earliest(due) /\ WallClock[due] = WallClock[raw]
  <1>1. prev(t, i + 1) # 0 /\ latestDueInstantBefore(t, i) = Collapse[t][prev(t, i + 1)]
    BY DEF latestDueInstantBefore
  <1>2. prev(t, i + 1) \in Slots[t] /\ prev(t, i + 1) < i + 1
    BY <1>1, PrevIs
  <1> QED  BY <1>1, <1>2, BackIsEarliest DEF Slots

\* A slot that was due when the process started and is due now is the one that was due then.
LEMMA DueBefore ==
    ASSUME RepeatsAreNeighbours, NEW t \in DOMAIN Triggers, NEW i \in Int, NEW start \in Int, start <= i,
           latestDueInstantBefore(t, i) # 0, latestDueInstantBefore(t, i) <= start
    PROVE  latestDueInstantBefore(t, i) = latestDueInstantBefore(t, start)
  <1> DEFINE raw == prev(t, i + 1)
             then == prev(t, start + 1)
             due == latestDueInstantBefore(t, i)
  <1>0. Slots[t] \subseteq Instants /\ Instants \subseteq Int
    BY DEF Slots, Instants
  <1>1. /\ raw \in Slots[t] /\ raw < i + 1
        /\ due \in Slots[t] /\ Earliest(due) /\ WallClock[due] = WallClock[raw]
    BY DueIs
  <1>2. \A s \in Slots[t] : s < i + 1 => s <= raw
    BY PrevIs
  <1>3. /\ then # 0 => then \in Slots[t] /\ then < start + 1
        /\ \A s \in Slots[t] : s < start + 1 => s <= then /\ then # 0
    BY PrevIs
  <1>4. latestDueInstantBefore(t, start) = IF then = 0 THEN 0 ELSE Collapse[t][then]
    BY DEF latestDueInstantBefore
  <1>4a. due <= start
    OBVIOUS
  <1> HIDE DEF raw, then, due
  <1>5. due \in Int /\ raw \in Int /\ due < start + 1
    <2>1. due \in Int /\ raw \in Int
      BY <1>0, <1>1
    <2> QED  BY <1>4a, <2>1
  <1>6. then \in Slots[t] /\ due <= then /\ then < start + 1 /\ then # 0
    BY <1>1, <1>3, <1>5
  <1>7. then \in Int /\ then < i + 1
    <2>1. then \in Int
      BY <1>0, <1>6
    <2> QED  BY <1>6, <2>1
  <1>8. then <= raw
    BY <1>2, <1>6, <1>7
  <1>9. WallClock[then] = WallClock[due]
    <2> SUFFICES ASSUME then # due, then # raw PROVE FALSE
      BY <1>1
    <2>1. due < then /\ then < raw
      BY <1>5, <1>6, <1>7, <1>8
    <2> QED  BY <1>1, <1>6, <2>1 DEF RepeatsAreNeighbours
  <1>10. /\ Collapse[t][then] \in Slots[t] /\ WallClock[Collapse[t][then]] = WallClock[due]
         /\ Earliest(Collapse[t][then])
    BY <1>6, <1>9, BackIsEarliest
  <1>11. Collapse[t][then] <= due /\ due <= Collapse[t][then] /\ Collapse[t][then] \in Int
    BY <1>0, <1>1, <1>10 DEF Earliest
  <1>12. Collapse[t][then] = due
    BY <1>5, <1>11
  <1> QED  BY <1>4, <1>6, <1>12 DEF due

\* A slot that is due is an instant.
LEMMA DueTyped == ASSUME AtTrigger, Due # 0  PROVE Due \in Instants
  <1>1. pc \in DOMAIN Triggers
    BY DEF AtTrigger
  <1>2. prev(pc, at + 1) # 0 /\ Due = Collapse[pc][prev(pc, at + 1)]
    BY DEF Due, latestDueInstantBefore
  <1>3. prev(pc, at + 1) \in Instants
    BY <1>1, <1>2, PrevIs DEF Slots
  <1> QED  BY <1>1, <1>2, <1>3, CollapseTyped

-----------------------------------------------------------------------------
(* Types.                                                                  *)

\* The Triggers are a list of finite length.
LEMMA TriggersAre ==
    /\ Len(Triggers) \in Nat /\ DOMAIN Triggers = 1..Len(Triggers)
    /\ \A t \in DOMAIN Triggers : Triggers[t].by \in Assistants
    /\ Last \in Nat /\ Last >= 1 /\ MaxCrashes \in Nat /\ MaxEdits \in Nat
  <1> DEFINE Trigger == [by : Assistants, cron : SUBSET Nat]
  <1>1. Triggers \in Seq(Trigger)
    BY ScheduleAssumption
  <1> HIDE DEF Trigger
  <1>2. Len(Triggers) \in Nat /\ DOMAIN Triggers = 1..Len(Triggers)
    BY <1>1
  <1>3. \A t \in DOMAIN Triggers : Triggers[t] \in Trigger
    BY <1>1, <1>2
  <1>4. Last \in Nat /\ Last >= 1 /\ MaxCrashes \in Nat /\ MaxEdits \in Nat
    BY ScheduleAssumption
  <1> QED  BY <1>2, <1>3, <1>4 DEF Trigger

\* The process starts at the first instant.
LEMMA InitTypeOK == Init => TypeOK
  <1> SUFFICES ASSUME Init PROVE TypeOK
    OBVIOUS
  <1>1. /\ 1 \in Instants /\ 1 \in 0..Last /\ 0 \in 0..Last /\ 0 \in -1..(Len(Triggers) + 1)
        /\ 0 \in 0..1 /\ 1 \in 1..1 /\ 0 \in 0..MaxCrashes /\ 0 \in 0..MaxEdits
    BY TriggersAre DEF Instants
  <1>2. stored \in Window /\ mem \in Window
    BY <1>1 DEF Init, Window, NoWindow
  <1>3. conv \in [Assistants -> [Instants -> Conversations]]
    BY InitIInv DEF IInv, ConvTyped
  <1> QED  BY <1>1, <1>2, <1>3 DEF Init, TypeOK

\* A pass takes what it looked at from the store and the clock.
Passing == pc >= 1 => startedAt <= at

TInv == TypeOK /\ Passing

\* The window of births after one more.
LEMMA ChargedTyped == ASSUME TypeOK PROVE Charged \in Window
  <1>1. now \in 0..Last /\ mem \in Window /\ mem.births + 1 \in Nat
    BY TriggersAre DEF TypeOK, Window, Instants
  <1> QED  BY <1>1 DEF Charged, Window

\* A step within a pass: to another Trigger, to the end, or out of it.
LEMMA PassTyped ==
    ASSUME TInv, ConvTyped', UNCHANGED <<world, startedAt>>, stored' \in Window, mem' \in Window,
           pc' \in -1..(Len(Triggers) + 1), roster' \subseteq Assistants,
           at' \in 0..now, pc' >= 1 => startedAt <= at',
           caughtUp' \subseteq (DOMAIN Triggers) \X Instants
    PROVE  TInv'
  BY DEF TInv, TypeOK, Passing, ConvTyped, world

\* Every step keeps the types, and a pass looks at a clock no older than its process.
LEMMA NextTInv == IInv' /\ TInv /\ [Next]_vars => TInv'
  <1> SUFFICES ASSUME IInv', TInv, [Next]_vars PROVE TInv'
    OBVIOUS
  <1>0. /\ ConvTyped' /\ stored \in Window /\ mem \in Window /\ roster \subseteq Assistants /\ enabled \subseteq Assistants
        /\ pc \in -1..(Len(Triggers) + 1) /\ at \in 0..now /\ (pc >= 1 => startedAt <= at)
        /\ caughtUp \subseteq (DOMAIN Triggers) \X Instants
        /\ now \in Instants /\ startedAt \in 1..now
    BY DEF IInv, TInv, TypeOK, Passing
  <1>1. /\ now \in 0..now /\ now \in 1..now /\ startedAt <= now /\ 0 \in 0..now /\ now \in Nat
        /\ 0 \in -1..(Len(Triggers) + 1) /\ 1 \in -1..(Len(Triggers) + 1) /\ -1 \in -1..(Len(Triggers) + 1)
        /\ Len(Triggers) + 1 \in -1..(Len(Triggers) + 1) /\ ~(0 >= 1) /\ ~(-1 >= 1)
    BY <1>0, TriggersAre DEF Instants
  <1>2. NoWindow \in Window
    BY TriggersAre DEF NoWindow, Window
  <1>3. CASE loadState
    BY <1>0, <1>1, <1>3, PassTyped DEF loadState
  <1>4. ASSUME AtTrigger  PROVE pc + 1 \in -1..(Len(Triggers) + 1) /\ startedAt <= at
    BY <1>0, <1>4, TriggersAre DEF AtTrigger
  <1>5. CASE NotDue \/ AlreadyServed \/ Stalled
    BY <1>0, <1>4, <1>5, PassTyped DEF NotDue, AlreadyServed, Stalled, Wanted, GoToNext
  <1>6. CASE OutOfBudget
    BY <1>0, <1>1, <1>4, <1>6, PassTyped DEF OutOfBudget, Unblocked, Wanted
  <1>7. ASSUME Unblocked, birth  PROVE caughtUp' \subseteq (DOMAIN Triggers) \X Instants
    <2>1. Due \in Instants /\ pc \in DOMAIN Triggers
      BY <1>7, DueTyped DEF Unblocked, Wanted, AtTrigger
    <2> QED  BY <1>0, <1>7, <2>1 DEF birth
  <1>8. CASE Born
    <2>1. Charged \in Window
      BY ChargedTyped DEF TInv
    <2> QED  BY <1>0, <1>4, <1>7, <1>8, <2>1, PassTyped DEF Born, Unblocked, Wanted, GoToNext
  <1>9. CASE BornUnheard
    BY <1>0, <1>1, <1>2, <1>7, <1>9, PassTyped DEF BornUnheard, NoPass
  <1>10. CASE stampHeartbeat
    BY <1>0, <1>1, <1>2, <1>10, PassTyped DEF stampHeartbeat, NoPass
  <1>11. CASE Advance
    BY <1>0, <1>11, PassTyped DEF Advance
  <1>12. CASE Tick
    <2>1. now' = now + 1 /\ now < Last
          /\ UNCHANGED <<enabled, stored, pc, at, roster, mem, startedAt, caughtUp, crashes, edits>>
      BY <1>12 DEF Tick
    <2>2. now' \in Instants /\ at' \in 0..now' /\ startedAt' \in 1..now'
      BY <1>0, <2>1, TriggersAre DEF Instants
    <2> QED  BY <1>0, <2>1, <2>2 DEF TInv, TypeOK, Passing, ConvTyped
  <1>13. CASE Crash
    <2>1. crashes' \in 0..MaxCrashes
      BY <1>13, TriggersAre DEF Crash, TInv, TypeOK
    <2> QED  BY <1>0, <1>1, <1>2, <1>13, <2>1 DEF Crash, NoPass, TInv, TypeOK, Passing, ConvTyped
  <1>14. CASE Restart
    BY <1>0, <1>1, <1>14 DEF Restart, world, TInv, TypeOK, Passing, ConvTyped
  <1>15. CASE SwitchAssistant
    <2>1. edits' \in 0..MaxEdits
      BY <1>15, TriggersAre DEF SwitchAssistant, TInv, TypeOK
    <2>2. enabled' \subseteq Assistants
      BY <1>0, <1>15 DEF SwitchAssistant
    <2> QED  BY <1>0, <1>15, <2>1, <2>2 DEF SwitchAssistant, TInv, TypeOK, Passing, ConvTyped
  <1>16. CASE UNCHANGED vars
    BY <1>16 DEF vars, TInv, TypeOK, Passing
  <1> QED  BY <1>3, <1>5, <1>6, <1>8, <1>9, <1>10, <1>11, <1>12, <1>13, <1>14, <1>15, <1>16
           DEF Next, scanScheduled

\* The types, and the clock a pass looks at, in every reachable state.
LEMMA TypeInvariant == Spec => [](IInv /\ TInv)
  <1>1. Init => IInv /\ TInv
    BY InitIInv, InitTypeOK DEF TInv, Passing, Init
  <1>2. IInv /\ TInv /\ [Next]_vars => (IInv /\ TInv)'
    BY NextIInv, NextTInv
  <1> QED  BY <1>1, <1>2, PTL DEF Spec

-----------------------------------------------------------------------------
(* A slot is served once, and what was missed is caught up once.           *)

\* A Conversation is of the first instant that shows its reading.
ServedFirst == \A a \in Assistants, i \in Instants : conv[a][i] # "none" => Earliest(i)

\* What this process caught up with was due when it started.
DueAtStart == \A p \in caughtUp : p[2] = latestDueInstantBefore(p[1], startedAt)

\* A birth serves the first occurrence of the slot, and of what was due before the start
\* the slot that was due at the start.
LEMMA NextServed ==
    ASSUME RepeatsAreNeighbours, IInv, TInv, ServedFirst, DueAtStart, [Next]_vars
    PROVE  ServedFirst' /\ DueAtStart'
  <1>0. ConvTyped
    BY DEF IInv
  <1>1. ASSUME Unblocked, birth, startedAt' = startedAt  PROVE ServedFirst' /\ DueAtStart'
    <2> DEFINE a == Carrier
               d == Due
    <2>1. pc \in DOMAIN Triggers /\ d # 0 /\ d = latestDueInstantBefore(pc, at)
      BY <1>1 DEF Unblocked, Wanted, AtTrigger, Due
    <2>2. d \in Instants /\ Earliest(d)
      BY <2>1, DueIs
    <2>3. conv' = [conv EXCEPT ![a][d] = "running"]
          /\ caughtUp' = IF d <= startedAt THEN caughtUp \cup {<<pc, d>>} ELSE caughtUp
      BY <1>1 DEF birth
    <2>4. d <= startedAt => d = latestDueInstantBefore(pc, startedAt)
      <3>1. at \in Int /\ startedAt \in Int /\ startedAt <= at
        BY <2>1, TriggersAre DEF TInv, TypeOK, Passing, Instants
      <3> QED  BY <2>1, <3>1, DueBefore
    <2> HIDE DEF a, d
    <2>5. \A b \in Assistants, i \in Instants : conv'[b][i] # "none" => conv[b][i] # "none" \/ i = d
      BY <1>0, <2>3 DEF ConvTyped
    <2>6. ServedFirst'
      BY <2>2, <2>5 DEF ServedFirst, Earliest
    <2>7. \A p \in caughtUp' : p \in caughtUp \/ (p = <<pc, d>> /\ d <= startedAt)
      BY <2>3
    <2>8. \A p \in caughtUp' : p[2] = latestDueInstantBefore(p[1], startedAt)
      BY <2>4, <2>7 DEF DueAtStart
    <2>9. DueAtStart'
      BY <1>1, <2>8 DEF DueAtStart, latestDueInstantBefore, prev
    <2> QED  BY <2>6, <2>9
  <1>2. CASE Advance
    <2>1. PICK a \in Assistants, d \in Instants :
             /\ conv[a][d] \in {"running", "waiting"}
             /\ \E v \in {"running", "waiting", "done", "failed"} \ {conv[a][d]} :
                   conv' = [conv EXCEPT ![a][d] = v]
      BY <1>2 DEF Advance
    <2>2. \A b \in Assistants, i \in Instants : conv'[b][i] # "none" => conv[b][i] # "none"
      BY <1>0, <2>1 DEF ConvTyped
    <2>3. ServedFirst'
      BY <2>2 DEF ServedFirst, Earliest
    <2>4. UNCHANGED <<startedAt, caughtUp>>
      BY <1>2 DEF Advance
    <2> QED  BY <2>3, <2>4 DEF DueAtStart, latestDueInstantBefore, prev
  <1>3. CASE UNCHANGED conv /\ caughtUp' = {}
    BY <1>3 DEF ServedFirst, Earliest, DueAtStart
  <1>4. CASE UNCHANGED <<conv, caughtUp, startedAt>>
    BY <1>4 DEF ServedFirst, Earliest, DueAtStart, latestDueInstantBefore, prev
  <1>5. \/ UNCHANGED <<conv, caughtUp, startedAt>>
        \/ UNCHANGED conv /\ caughtUp' = {}
        \/ Unblocked /\ birth /\ startedAt' = startedAt
        \/ Advance
    BY DEF Next, vars, scanScheduled, BornUnheard, Tick, Crash, Restart,
           SwitchAssistant, loadState, NotDue, AlreadyServed, Stalled, OutOfBudget,
           Born, stampHeartbeat, GoToNext
  <1> QED  BY <1>1, <1>2, <1>3, <1>4, <1>5

\* Under the hypothesis on the crons both hold in every reachable state.
LEMMA ServedInvariant == ASSUME RepeatsAreNeighbours PROVE Spec => [](ServedFirst /\ DueAtStart)
  <1>1. Init => ServedFirst /\ DueAtStart
    BY DEF Init, ServedFirst, DueAtStart
  <1>2. IInv /\ TInv /\ (ServedFirst /\ DueAtStart) /\ [Next]_vars => (ServedFirst /\ DueAtStart)'
    BY NextServed
  <1>3. Spec => [](IInv /\ TInv)
    BY TypeInvariant
  <1> QED  BY <1>1, <1>2, <1>3, PTL DEF Spec

(***************************************************************************)
(* Type correctness of scan 7: the table of Conversations, the windows of  *)
(* births and the place of the pass, for every timeline and list of        *)
(* Triggers.                                                               *)
(***************************************************************************)
THEOREM TypeCorrect == Spec => []TypeOK
  <1>1. TInv => TypeOK
    BY DEF TInv
  <1> QED  BY <1>1, TypeInvariant, PTL

(***************************************************************************)
(* latestDueInstantBefore (schedule.ts) and scanScheduled: a reading of    *)
(* the wall clock is served by one Conversation of an Assistant, across    *)
(* passes, restarts, lost answers and several Triggers, where repeated     *)
(* readings of a cron are neighbours among its slots.                      *)
(***************************************************************************)
THEOREM ServedOnce == ASSUME RepeatsAreNeighbours PROVE Spec => []OncePerSlot
  <1>1. ServedFirst => OncePerSlot
    <2> SUFFICES ASSUME ServedFirst, NEW a \in Assistants, NEW i \in Instants, NEW j \in Instants,
                        conv[a][i] # "none", conv[a][j] # "none", WallClock[i] = WallClock[j]
                 PROVE  i = j
      BY DEF OncePerSlot, scheduledConversationExists
    <2>1. i <= j /\ j <= i
      BY DEF ServedFirst, Earliest
    <2> QED  BY <2>1 DEF Instants
  <1>2. Spec => [](ServedFirst /\ DueAtStart)
    BY ServedInvariant
  <1> QED  BY <1>1, <1>2, PTL

(***************************************************************************)
(* "Catch-up-once" (schedule.ts): however long the Runtime was down, of    *)
(* the slots due before it started a process serves at most one of each    *)
(* Trigger, and that is the one that was due at its start.                 *)
(***************************************************************************)
THEOREM CaughtUpOnce == ASSUME RepeatsAreNeighbours PROVE Spec => []CatchUpOnce
  <1>1. DueAtStart => CatchUpOnce
    <2> SUFFICES ASSUME DueAtStart, NEW t \in DOMAIN Triggers
                 PROVE  Cardinality({i \in Instants : <<t, i>> \in caughtUp}) <= 1
      BY DEF CatchUpOnce
    <2> DEFINE e == latestDueInstantBefore(t, startedAt)
               S == {i \in Instants : <<t, i>> \in caughtUp}
    <2>1. ASSUME NEW i \in S  PROVE i = e
      <3>1. <<t, i>> \in caughtUp /\ <<t, i>>[1] = t /\ <<t, i>>[2] = i
        OBVIOUS
      <3> QED  BY <3>1 DEF DueAtStart
    <2> HIDE DEF e, S
    <2>2. S \in SUBSET {e}
      BY <2>1
    <2>3. IsFiniteSet({e}) /\ Cardinality({e}) = 1
      BY FS_Singleton
    <2>4. Cardinality(S) <= 1
      BY <2>2, <2>3, FS_Subset
    <2> QED  BY <2>4 DEF S
  <1>2. Spec => [](ServedFirst /\ DueAtStart)
    BY ServedInvariant
  <1> QED  BY <1>1, <1>2, PTL
=============================================================================
