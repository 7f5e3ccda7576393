--------------------------- MODULE CallTreeProofs ---------------------------
(***************************************************************************)
(* A call starts one Assistant and a delivered result has been told, for   *)
(* any number of calls, crashes and edits and every mix of await modes.    *)
(*                                                                         *)
(* What makes a call unique is its place: the number of the call is raised *)
(* with the intent, before anything is born, so at the one step that gives *)
(* birth no child has that number yet (Numbered).  What makes a delivery   *)
(* safe is the order of its two writes: the child a stamp is about is in   *)
(* the caller's transcript already (Stamping), and a Conversation that has *)
(* ended is never taken up again (Awake).                                  *)
(***************************************************************************)
EXTENDS CallTree, TLAPS

InTurn == {"turn", "call", "born", "settle"}

\* A child bears the number of its call, and the next call's number is free.
Numbered ==
    /\ \A k \in DOMAIN child : child[k].key <= caller.calls
    /\ Len(child) <= caller.calls
    /\ pc = "call" => /\ \A k \in DOMAIN child : child[k].key < caller.calls
                      /\ Len(child) < caller.calls

\* A Turn runs in a Conversation that is running.
Awake == pc \in InTurn => caller.status = "running"

\* What is about to be stamped has been told.
Stamping == pc = "stamp" => target \in DOMAIN child /\ \E i \in DOMAIN told : told[i] = target

IInv == TypeOK /\ Numbered /\ OneChildPerCall /\ Awake /\ Stamping /\ DeliveredIsTold

-----------------------------------------------------------------------------

\* The bounds are numbers.
LEMMA BoundsNat == MaxCalls \in Nat /\ MaxCrashes \in Nat /\ MaxEdits \in Nat
  BY CallTreeBounds

\* The children are numbered by their places.
LEMMA Places ==
    ASSUME IInv
    PROVE  /\ Len(child) \in Nat /\ Len(child) <= MaxCalls /\ DOMAIN child = 1..Len(child)
           /\ \A k \in DOMAIN child : k \in 1..MaxCalls /\ k \in 0..MaxCalls /\ child[k] \in Child
  <1>1. child \in Seq(Child) /\ Len(child) <= MaxCalls
    BY DEF IInv, TypeOK
  <1>2. Len(child) \in Nat /\ DOMAIN child = 1..Len(child)
    BY <1>1
  <1>3. \A k \in DOMAIN child : child[k] \in Child
    BY <1>1, <1>2
  <1> QED  BY <1>1, <1>2, <1>3, BoundsNat

\* No children, no calls.
LEMMA InitIInv == Init => IInv
  <1> SUFFICES ASSUME Init PROVE IInv
    OBVIOUS
  <1>0. 0 \in 0..MaxCalls /\ 0 \in 0..MaxCrashes /\ 0 \in 0..MaxEdits /\ 0 <= MaxCalls
    BY BoundsNat
  <1>1. caller \in Caller
    BY <1>0 DEF Init, Caller
  <1>2. TypeOK
    <2>1. <<>> \in Seq(Child) /\ Len(<<>>) <= MaxCalls /\ <<>> \in Seq(Children)
      BY <1>0
    <2> QED  BY <1>0, <1>1, <2>1 DEF Init, TypeOK
  <1>3. child = <<>> /\ pc = "idle" /\ caller.calls = 0
    BY DEF Init
  <1>4. Numbered /\ OneChildPerCall /\ Awake /\ Stamping /\ DeliveredIsTold
    BY <1>3 DEF Numbered, OneChildPerCall, Awake, InTurn, Stamping, DeliveredIsTold
  <1> QED  BY <1>2, <1>4 DEF IInv

\* The steps that touch neither children nor transcript, and raise no number.
LEMMA CallerMoves ==
    ASSUME IInv, TypeOK', UNCHANGED <<child, told>>,
           caller'.calls = caller.calls,
           pc' \in {"call", "stamp"} => pc' = pc /\ target' = target,
           Awake',
           Terminal(caller) => Terminal(caller)' \/ caller'.status = "deleted",
           caller.status = "deleted" => caller'.status = "deleted"
    PROVE  IInv'
  <1>1. Numbered' /\ OneChildPerCall' /\ Stamping'
    BY DEF IInv, Numbered, OneChildPerCall, Stamping
  <1>2. DeliveredIsTold'
    BY DEF IInv, DeliveredIsTold
  <1> QED  BY <1>1, <1>2 DEF IInv

\* A Turn that begins, ends, asks, is refused, suspends or recovers, and the scans that
\* continue the caller.
LEMMA BeginTurnKeeps == ASSUME IInv, BeginTurn PROVE IInv'
  <1>1. /\ caller' \in Caller /\ caller'.calls = caller.calls /\ caller'.status = "running"
    BY DEF BeginTurn, IInv, TypeOK, Caller
  <1>2. TypeOK'
    BY <1>1 DEF BeginTurn, IInv, TypeOK
  <1> QED  BY <1>1, <1>2, CallerMoves DEF BeginTurn, Awake, Terminal

\* A Turn that ends the caller leaves the children and what was told as they are.
LEMMA FinishTurnKeeps == ASSUME IInv, FinishTurn PROVE IInv'
  <1>1. caller' \in Caller /\ caller'.calls = caller.calls /\ caller.status = "running"
    BY DEF FinishTurn, IInv, TypeOK, Caller, Awake, InTurn
  <1>2. TypeOK'
    BY <1>1 DEF FinishTurn, IInv, TypeOK
  <1> QED  BY <1>1, <1>2, CallerMoves DEF FinishTurn, Awake, InTurn, Terminal

\* A question to the User parks the caller for the User, not for a child.
LEMMA AskUserKeeps == ASSUME IInv, AskUser PROVE IInv'
  <1>1. caller' \in Caller /\ caller'.calls = caller.calls /\ caller.status = "running"
    BY DEF AskUser, IInv, TypeOK, Caller, Awake, InTurn
  <1>2. TypeOK'
    BY <1>1 DEF AskUser, IInv, TypeOK
  <1> QED  BY <1>1, <1>2, CallerMoves DEF AskUser, Awake, InTurn, Terminal

\* A callee that is switched off closes the intent before anything is born of it.
LEMMA CalleeDisabledKeeps == ASSUME IInv, CalleeDisabled PROVE IInv'
  <1>1. caller' \in Caller /\ caller'.calls = caller.calls /\ caller.status = "running"
    BY DEF CalleeDisabled, IInv, TypeOK, Caller, Awake, InTurn
  <1>2. TypeOK'
    BY <1>1 DEF CalleeDisabled, IInv, TypeOK
  <1> QED  BY <1>1, <1>2, CallerMoves DEF CalleeDisabled, Awake, InTurn, Terminal

\* What an assistant.call comes to leaves a well-typed caller that has made as many calls.
LEMMA CallComesTo ==
    ASSUME IInv, NEW k \in 0..MaxCalls, GoOn \/ SuspendFor(k)
    PROVE  caller' \in Caller /\ caller'.calls = caller.calls /\ awaited' \in 0..MaxCalls
  <1>1. CASE GoOn
    BY <1>1 DEF GoOn, IInv, TypeOK, Caller
  <1>2. CASE SuspendFor(k)
    <2>1. (caller.intent = "chase") \in BOOLEAN
      OBVIOUS
    <2> QED  BY <1>2, <2>1 DEF SuspendFor, IInv, TypeOK, Caller
  <1> QED  BY <1>1, <1>2

\* The caller suspends for the child just born, or goes on and was never to wait.
LEMMA SuspendOrGoOnKeeps == ASSUME IInv, SuspendOrGoOn PROVE IInv'
  <1>1. target \in 0..MaxCalls /\ (GoOn \/ SuspendFor(target))
    BY DEF SuspendOrGoOn, IInv, TypeOK
  <1>2. caller' \in Caller /\ caller'.calls = caller.calls /\ awaited' \in 0..MaxCalls
    BY <1>1, CallComesTo
  <1>3. caller.status = "running"
    BY DEF SuspendOrGoOn, IInv, Awake, InTurn
  <1>4. TypeOK'
    BY <1>2, BoundsNat DEF SuspendOrGoOn, IInv, TypeOK
  <1> QED  BY <1>2, <1>3, <1>4, CallerMoves DEF SuspendOrGoOn, Awake, InTurn, Terminal

\* Recovery closes the intent, or suspends for the child born under its key while the result is owed.
LEMMA ReconcileKeeps == ASSUME IInv, reconcile PROVE IInv'
  <1>1. 0 \in 0..MaxCalls
    BY BoundsNat
  <1>2. PICK k \in 0..MaxCalls : GoOn \/ SuspendFor(k)
    BY <1>1, Places DEF reconcile, findByIdempotencyKey
  <1>3. caller' \in Caller /\ caller'.calls = caller.calls /\ awaited' \in 0..MaxCalls
    BY <1>2, CallComesTo
  <1>4. caller.status = "running"
    BY DEF reconcile, IInv, Awake, InTurn
  <1>5. TypeOK'
    BY <1>3 DEF reconcile, IInv, TypeOK
  <1> QED  BY <1>3, <1>4, <1>5, CallerMoves DEF reconcile, Awake, InTurn, Terminal

\* The scans set the caller running again without a new call.
LEMMA ScanKeeps == ASSUME IInv, scanAnswered \/ scanWoken \/ scanExpiredLeases PROVE IInv'
  <1>1. /\ caller' \in Caller /\ caller'.calls = caller.calls
        /\ caller.status \in {"running", "waiting"} /\ awaited' \in 0..MaxCalls
    <2>1. CASE scanAnswered
      BY <2>1 DEF scanAnswered, IInv, TypeOK, Caller
    <2>2. CASE scanWoken
      <3>1. 0 \in 0..MaxCalls
        BY BoundsNat
      <3> QED  BY <2>2, <3>1 DEF scanWoken, IInv, TypeOK, Caller
    <2>3. CASE scanExpiredLeases
      BY <2>3 DEF scanExpiredLeases, IInv, TypeOK, Caller
    <2> QED  BY <2>1, <2>2, <2>3
  <1>2. pc' = "idle" /\ UNCHANGED <<child, pc, target, enabled, told, crashes, edits>>
    BY DEF scanAnswered, scanWoken, scanExpiredLeases
  <1>3. TypeOK'
    BY <1>1, <1>2 DEF IInv, TypeOK
  <1> QED  BY <1>1, <1>2, <1>3, CallerMoves DEF Awake, InTurn, Terminal

\* The User and the end of the process.
LEMMA SwitchKeeps == ASSUME IInv, SwitchCallee PROVE IInv'
  <1>1. TypeOK'
    BY BoundsNat DEF SwitchCallee, IInv, TypeOK
  <1> QED  BY <1>1, CallerMoves DEF SwitchCallee, IInv, Awake, Terminal

\* A caller that is deleted leaves its children and what was told as they are.
LEMMA DeleteKeeps == ASSUME IInv, DeleteCaller PROVE IInv'
  <1>1. caller' \in Caller /\ caller'.calls = caller.calls /\ caller'.status = "deleted"
    BY DEF DeleteCaller, IInv, TypeOK, Caller
  <1>2. TypeOK'
    BY <1>1, BoundsNat DEF DeleteCaller, IInv, TypeOK
  <1> QED  BY <1>1, <1>2, CallerMoves DEF DeleteCaller, Awake, InTurn

\* A crash loses the place in the Turn, and nothing that is stored.
LEMMA CrashKeeps == ASSUME IInv, Crash PROVE IInv'
  <1>1. TypeOK'
    BY BoundsNat DEF Crash, IInv, TypeOK
  <1> QED  BY <1>1, CallerMoves DEF Crash, IInv, Awake, InTurn, Terminal

\* The call's number is raised with the intent: no child has it.
LEMMA WriteIntentKeeps == ASSUME IInv, NEW mode \in Modes, WriteIntent(mode) PROVE IInv'
  <1>1. /\ caller' \in Caller /\ caller'.calls = caller.calls + 1 /\ caller.calls \in Nat
        /\ caller'.status = caller.status
    <2>0. caller \in Caller /\ caller.calls \in 0..MaxCalls /\ caller.calls < MaxCalls
      BY DEF WriteIntent, IInv, TypeOK, Caller
    <2>1. caller.calls \in Nat /\ caller.calls + 1 \in 0..MaxCalls
      BY <2>0, BoundsNat
    <2>2. caller' = [caller EXCEPT !.intent = mode, !.calls = caller.calls + 1]
      BY DEF WriteIntent
    <2>3. caller' \in Caller
      BY <2>0, <2>1, <2>2 DEF Caller
    <2> QED  BY <2>0, <2>1, <2>2, <2>3 DEF Caller
  <1>2. TypeOK'
    BY <1>1 DEF WriteIntent, IInv, TypeOK
  <1>3. \A k \in DOMAIN child : child[k].key \in Int
    BY Places, BoundsNat DEF Child
  <1>4. Numbered'
    BY <1>1, <1>3, Places DEF WriteIntent, IInv, Numbered
  <1>5. OneChildPerCall' /\ Awake' /\ Stamping'
    BY <1>1 DEF WriteIntent, IInv, OneChildPerCall, Awake, InTurn, Stamping
  <1>6. DeliveredIsTold'
    BY <1>1 DEF WriteIntent, IInv, DeliveredIsTold, Terminal
  <1> QED  BY <1>2, <1>4, <1>5, <1>6 DEF IInv

\* The one step that gives birth.
LEMMA CallAssistantKeeps == ASSUME IInv, callAssistant PROVE IInv'
  <1> DEFINE c == [status |-> "running", delivered |-> FALSE, key |-> caller.calls]
             n == Len(child) + 1
  <1>1. /\ \A k \in DOMAIN child : child[k].key < caller.calls
        /\ Len(child) < caller.calls /\ caller.calls \in 0..MaxCalls /\ caller.status = "running"
    BY DEF callAssistant, IInv, Numbered, TypeOK, Caller, Awake, InTurn
  <1>2. caller.calls \in 1..MaxCalls /\ n \in 1..MaxCalls /\ n <= caller.calls
    BY <1>1, Places, BoundsNat
  <1>3. c \in Child /\ c.key = caller.calls /\ c.delivered = FALSE
    BY <1>2 DEF Child
  <1> HIDE DEF c
  <1>4. /\ child' = Append(child, c) /\ pc' = "born" /\ target' = n
        /\ UNCHANGED <<caller, enabled, told, awaited, crashes, edits>>
    BY DEF callAssistant, c
  <1>5. /\ child' \in Seq(Child) /\ Len(child') = n /\ DOMAIN child' = 1..n /\ child'[n] = c
        /\ \A k \in DOMAIN child : k \in DOMAIN child' /\ k # n /\ child'[k] = child[k]
        /\ \A k \in DOMAIN child' : k = n \/ k \in DOMAIN child
    <2>1. child \in Seq(Child)
      BY DEF IInv, TypeOK
    <2> QED  BY <1>3, <1>4, <2>1, Places
  <1> HIDE DEF n
  <1>6. TypeOK'
    <2>1. target' \in 0..MaxCalls /\ Len(child') <= MaxCalls
      BY <1>2, <1>4, <1>5, BoundsNat
    <2> QED  BY <1>4, <1>5, <2>1 DEF IInv, TypeOK
  <1>7. \A k \in DOMAIN child' : child'[k].key \in Int
    BY <1>5, BoundsNat, Places, <1>3 DEF Child
  <1>8. Numbered'
    <2>1. \A k \in DOMAIN child' : child'[k].key <= caller.calls
      BY <1>1, <1>3, <1>5, <1>7, <1>2
    <2> QED  BY <2>1, <1>2, <1>4, <1>5 DEF Numbered
  <1>9. OneChildPerCall'
    <2>1. \A k \in DOMAIN child : child'[k].key # c.key
      BY <1>1, <1>3, <1>5, <1>7, <1>2
    <2>2. \A j, k \in DOMAIN child : child[j].key = child[k].key => j = k
      BY DEF IInv, OneChildPerCall
    <2> QED  BY <1>5, <2>1, <2>2 DEF OneChildPerCall
  <1>10. Awake' /\ Stamping'
    BY <1>1, <1>4 DEF Awake, InTurn, Stamping
  <1>11. DeliveredIsTold'
    <2>1. \A k \in DOMAIN child' : child'[k].delivered => k \in DOMAIN child /\ child[k].delivered
      BY <1>3, <1>5
    <2> QED  BY <1>4, <2>1 DEF IInv, DeliveredIsTold, Terminal
  <1> QED  BY <1>6, <1>8, <1>9, <1>10, <1>11 DEF IInv

\* The steps that change the children in place, keys apart, outside a Turn.
LEMMA ChildMoves ==
    ASSUME IInv, child' \in Seq(Child), Len(child') = Len(child), pc' = "idle",
           UNCHANGED <<caller, enabled, told, awaited, crashes, edits>>,
           target' \in 0..MaxCalls,
           \A k \in DOMAIN child : child'[k].key = child[k].key,
           \A k \in DOMAIN child : child'[k].delivered =>
               \/ child[k].delivered
               \/ Terminal(caller)
               \/ \E i \in DOMAIN told : told[i] = k
    PROVE  IInv'
  <1>1. DOMAIN child' = DOMAIN child
    BY Places
  <1>2. TypeOK'
    BY DEF IInv, TypeOK
  <1>3. Numbered'
    BY <1>1 DEF IInv, Numbered
  <1>4. OneChildPerCall' /\ Awake' /\ Stamping'
    BY <1>1 DEF IInv, OneChildPerCall, Awake, InTurn, Stamping
  <1>5. DeliveredIsTold'
    BY <1>1 DEF IInv, DeliveredIsTold, Terminal
  <1> QED  BY <1>2, <1>3, <1>4, <1>5 DEF IInv

\* One child in another's place.
LEMMA Replaced ==
    ASSUME NEW s \in Seq(Child), NEW k \in DOMAIN s, NEW c \in Child
    PROVE  [s EXCEPT ![k] = c] \in Seq(Child) /\ Len([s EXCEPT ![k] = c]) = Len(s)
  OBVIOUS

\* The stamp alone changes no key and no other child.
LEMMA Stamp ==
    ASSUME IInv, NEW k \in DOMAIN child, child' = [child EXCEPT ![k].delivered = TRUE]
    PROVE  /\ child' \in Seq(Child) /\ Len(child') = Len(child)
           /\ \A j \in DOMAIN child : child'[j].key = child[j].key
           /\ \A j \in DOMAIN child : child'[j].delivered => child[j].delivered \/ j = k
  <1> DEFINE c == [child[k] EXCEPT !.delivered = TRUE]
  <1>1. child \in Seq(Child) /\ child[k] \in Child
    BY Places DEF IInv, TypeOK
  <1>2. c \in Child /\ c.key = child[k].key
    BY <1>1 DEF Child
  <1>3. child' = [child EXCEPT ![k] = c]
    OBVIOUS
  <1> HIDE DEF c
  <1>4. child' \in Seq(Child) /\ Len(child') = Len(child)
    <2>1. [child EXCEPT ![k] = c] \in Seq(Child) /\ Len([child EXCEPT ![k] = c]) = Len(child)
      BY <1>1, <1>2, Replaced, Zenon
    <2> QED  BY <1>3, <2>1, Zenon
  <1>5. \A j \in DOMAIN child : child'[j] = IF j = k THEN c ELSE child[j]
    BY <1>1, <1>3
  <1> QED  BY <1>2, <1>4, <1>5

\* A caller that has ended, and a caller that has been told.
LEMMA StampsKeep == ASSUME IInv, StampDelivered \/ \E k \in Children : TellNobody(k) PROVE IInv'
  <1>1. CASE StampDelivered
    <2>1. target \in DOMAIN child /\ \E i \in DOMAIN told : told[i] = target
      BY <1>1 DEF StampDelivered, IInv, Stamping
    <2>2. target' \in 0..MaxCalls
      BY <1>1, BoundsNat DEF StampDelivered
    <2> QED  BY <1>1, <2>1, <2>2, Stamp, ChildMoves DEF StampDelivered
  <1>2. CASE \E k \in Children : TellNobody(k)
    <2>1. PICK k \in Children : TellNobody(k)
      BY <1>2
    <2>2. target' \in 0..MaxCalls
      BY <2>1 DEF TellNobody, IInv, TypeOK
    <2> QED  BY <2>1, <2>2, Stamp, ChildMoves DEF TellNobody
  <1> QED  BY <1>1, <1>2

\* A child's own last Turn.
LEMMA ChildFinishesKeeps == ASSUME IInv, NEW k \in Children, ChildFinishes(k) PROVE IInv'
  <1>1. PICK s \in {"done", "failed"} : child' = [child EXCEPT ![k].status = s]
    BY DEF ChildFinishes
  <1> DEFINE c == [child[k] EXCEPT !.status = s]
  <1>2. child \in Seq(Child) /\ k \in DOMAIN child /\ child[k] \in Child
    BY Places DEF IInv, TypeOK, ChildFinishes
  <1>3. c \in Child /\ c.key = child[k].key /\ c.delivered = child[k].delivered
    BY <1>2 DEF Child
  <1>4. child' = [child EXCEPT ![k] = c]
    BY <1>1
  <1> HIDE DEF c
  <1>5. /\ child' \in Seq(Child) /\ Len(child') = Len(child)
        /\ \A j \in DOMAIN child : child'[j].key = child[j].key
        /\ \A j \in DOMAIN child : child'[j].delivered => child[j].delivered
    BY <1>2, <1>3, <1>4, Places
  <1>6. target' \in 0..MaxCalls /\ pc' = "idle"
    BY DEF ChildFinishes, IInv, TypeOK
  <1> QED  BY <1>5, <1>6, ChildMoves DEF ChildFinishes

\* The first write of a delivery: the transcript, and with it the child a stamp is owed.
LEMMA TellCallerKeeps == ASSUME IInv, NEW k \in Children, TellCaller(k) PROVE IInv'
  <1>1. /\ caller' \in Caller /\ caller'.calls = caller.calls
        /\ caller.status \in {"running", "waiting"}
    BY DEF TellCaller, IInv, TypeOK, Caller
  <1>2. /\ k \in DOMAIN child /\ told' = Append(told, k) /\ pc' = "stamp" /\ target' = k
        /\ UNCHANGED <<child, enabled, awaited, crashes, edits>>
    BY DEF TellCaller
  <1>3. /\ told' \in Seq(Children) /\ \E i \in DOMAIN told' : told'[i] = k
        /\ \A i \in DOMAIN told : i \in DOMAIN told' /\ told'[i] = told[i]
    <2>1. told \in Seq(Children)
      BY DEF IInv, TypeOK
    <2>2. told' \in Seq(Children) /\ DOMAIN told' = 1..(Len(told) + 1) /\ told'[Len(told) + 1] = k
      BY <1>2, <2>1
    <2>3. \A i \in DOMAIN told : i \in DOMAIN told' /\ told'[i] = told[i]
      BY <1>2, <2>1
    <2>4. Len(told) + 1 \in DOMAIN told'
      BY <2>1, <2>2
    <2> QED  BY <2>2, <2>3, <2>4
  <1>4. TypeOK'
    BY <1>1, <1>2, <1>3, Places DEF IInv, TypeOK
  <1>5. Numbered' /\ OneChildPerCall' /\ Awake' /\ Stamping'
    BY <1>1, <1>2, <1>3 DEF IInv, Numbered, OneChildPerCall, Awake, InTurn, Stamping
  <1>6. DeliveredIsTold'
    <2>1. \A j \in DOMAIN child : child[j].delivered => \E i \in DOMAIN told : told[i] = j
      BY <1>1 DEF IInv, DeliveredIsTold, Terminal
    <2> QED  BY <1>2, <1>3, <2>1 DEF DeliveredIsTold
  <1> QED  BY <1>4, <1>5, <1>6 DEF IInv

-----------------------------------------------------------------------------

\* One case per action.
LEMMA NextIInv == IInv /\ [Next]_vars => IInv'
  <1> SUFFICES ASSUME IInv, [Next]_vars PROVE IInv'
    OBVIOUS
  <1>1. CASE Turn
    BY <1>1, BeginTurnKeeps, FinishTurnKeeps, AskUserKeeps, CalleeDisabledKeeps,
       CallAssistantKeeps, SuspendOrGoOnKeeps, ReconcileKeeps, WriteIntentKeeps DEF Turn
  <1>2. CASE Deliver
    BY <1>2, StampsKeep, TellCallerKeeps DEF Deliver
  <1>3. CASE scanAnswered \/ scanWoken \/ scanExpiredLeases
    BY <1>3, ScanKeeps
  <1>4. CASE \E k \in Children : ChildFinishes(k)
    BY <1>4, ChildFinishesKeeps
  <1>5. CASE SwitchCallee \/ DeleteCaller \/ Crash
    BY <1>5, SwitchKeeps, DeleteKeeps, CrashKeeps
  <1>6. CASE UNCHANGED vars
    BY <1>6 DEF vars, IInv, TypeOK, Numbered, OneChildPerCall, Awake, Stamping, DeliveredIsTold, Terminal
  <1> QED  BY <1>1, <1>2, <1>3, <1>4, <1>5, <1>6 DEF Next

\* The inductive invariant holds throughout.
LEMMA Invariant == Spec => []IInv
  BY InitIInv, NextIInv, PTL DEF Spec

\* The caller, its children and the Runtime's step keep their types.
THEOREM TypeCorrect == Spec => []TypeOK
  <1>1. IInv => TypeOK
    BY DEF IInv
  <1> QED  BY <1>1, Invariant, PTL

\* However often the Runtime dies in the middle of an assistant.call, the call starts one
\* Assistant: recovery finds the child by the call's key and never gives birth again.
THEOREM CallStartsOneAssistant == Spec => []OneChildPerCall
  <1>1. IInv => OneChildPerCall
    BY DEF IInv
  <1> QED  BY <1>1, Invariant, PTL

\* The caller is written before the child is stamped: a result that is marked as delivered
\* is in the caller's transcript, or the caller has ended or is gone.
THEOREM NoResultIsLost == Spec => []DeliveredIsTold
  <1>1. IInv => DeliveredIsTold
    BY DEF IInv
  <1> QED  BY <1>1, Invariant, PTL

=============================================================================
