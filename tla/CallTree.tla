------------------------------ MODULE CallTree ------------------------------
(***************************************************************************)
(* Assistants calling Assistants: one caller, the Conversations it has     *)
(* started, and scan 5, which brings a finished child's result back.       *)
(*                                                                         *)
(* assistant.call gives birth to a child under the caller's idempotency    *)
(* key and suspends the caller (`wait`), suspends it with an alarm         *)
(* (`chase`) or lets it go on (`detach`).  Every child carries its         *)
(* caller's id, so every result comes back.  Delivery is two writes, the   *)
(* caller first and then the stamp on the child, and the Runtime may die   *)
(* between any two writes; scan 4 then recovers the caller and asks the    *)
(* store whether the interrupted call took effect.                         *)
(***************************************************************************)
EXTENDS Integers, Sequences, FiniteSets

CONSTANTS
    MaxCalls,        \* bound: calls the caller makes
    Modes,           \* the await modes the model uses
    MaxCrashes,      \* bound: times the Runtime dies
    MaxEdits,        \* bound: Assistants switched, callers deleted by the User
    None

ASSUME CallTreeBounds ==
    /\ {MaxCalls, MaxCrashes, MaxEdits} \subseteq Nat
    /\ Modes \subseteq {"wait", "chase", "detach"}

VARIABLES
    caller,          \* the calling Conversation as the store has it
    child,           \* the children, in the order of birth
    pc, target,      \* the step of the Runtime, and the child it is about
    enabled,         \* is the callee's Assistant enabled
    told,            \* the children whose result is in the caller's transcript
    awaited,         \* the child the caller suspended for
    crashes, edits

vars == <<caller, child, pc, target, enabled, told, awaited, crashes, edits>>

Children == 1..MaxCalls
Caller == [status : {"running", "waiting", "done", "failed", "deleted"},
           waitingFor : {"", "assistant", "user"}, alarm : BOOLEAN, leased : BOOLEAN,
           calls : 0..MaxCalls, intent : {None} \cup Modes]
Child == [status : {"running", "done", "failed"}, delivered : BOOLEAN, key : 1..MaxCalls]

TypeOK ==
    /\ caller \in Caller
    /\ child \in Seq(Child) /\ Len(child) <= MaxCalls
    /\ pc \in {"idle", "turn", "call", "born", "stamp", "settle"}
    /\ target \in 0..MaxCalls
    /\ enabled \in BOOLEAN
    /\ told \in Seq(Children)
    /\ awaited \in 0..MaxCalls
    /\ crashes \in 0..MaxCrashes /\ edits \in 0..MaxEdits

Init ==
    /\ caller = [status |-> "running", waitingFor |-> "", alarm |-> FALSE, leased |-> FALSE,
                 calls |-> 0, intent |-> None]
    /\ child = <<>> /\ pc = "idle" /\ target = 0 /\ enabled = TRUE
    /\ told = <<>> /\ awaited = 0 /\ crashes = 0 /\ edits = 0

Terminal(c) == c.status \in {"done", "failed"}

-----------------------------------------------------------------------------
(* A Turn of the caller.                                                     *)

(* scanRunnable, and runTurn after a scan has made the caller running.       *)
BeginTurn ==
    /\ pc = "idle" /\ caller.status = "running" /\ ~caller.leased
    /\ caller' = [caller EXCEPT !.leased = TRUE]
    /\ pc' = IF caller.intent = None THEN "turn" ELSE "settle"
    /\ UNCHANGED <<child, target, enabled, told, awaited, crashes, edits>>

FinishTurn ==
    /\ pc = "turn"
    /\ \E s \in {"done", "failed"} : caller' = [caller EXCEPT !.status = s, !.leased = FALSE]
    /\ pc' = "idle"
    /\ UNCHANGED <<child, target, enabled, told, awaited, crashes, edits>>

AskUser ==
    /\ pc = "turn"
    /\ caller' = [caller EXCEPT !.status = "waiting", !.waitingFor = "user", !.leased = FALSE]
    /\ pc' = "idle"
    /\ UNCHANGED <<child, target, enabled, told, awaited, crashes, edits>>

(* The intent is written ahead, under a key of its own.                      *)
WriteIntent(mode) ==
    /\ pc = "turn" /\ caller.calls < MaxCalls
    /\ caller' = [caller EXCEPT !.intent = mode, !.calls = @ + 1]
    /\ pc' = "call"
    /\ UNCHANGED <<child, target, enabled, told, awaited, crashes, edits>>

(* A callee that is disabled is an error the model can act on.               *)
CalleeDisabled ==
    /\ pc = "call" /\ ~enabled
    /\ caller' = [caller EXCEPT !.intent = None, !.leased = FALSE]
    /\ pc' = "idle"
    /\ UNCHANGED <<child, target, enabled, told, awaited, crashes, edits>>

callAssistant ==
    /\ pc = "call" /\ enabled
    /\ child' = Append(child, [status |-> "running", delivered |-> FALSE, key |-> caller.calls])
    /\ pc' = "born" /\ target' = Len(child) + 1
    /\ UNCHANGED <<caller, enabled, told, awaited, crashes, edits>>

(* What assistant.call about child k comes to: go on, or suspend for it.     *)
GoOn ==
    /\ caller' = [caller EXCEPT !.intent = None, !.leased = FALSE]
    /\ UNCHANGED awaited

SuspendFor(k) ==
    /\ caller' = [caller EXCEPT !.intent = None, !.leased = FALSE, !.status = "waiting",
                                !.waitingFor = "assistant", !.alarm = (caller.intent = "chase")]
    /\ awaited' = k

SuspendOrGoOn ==
    /\ pc = "born"
    /\ \/ caller.intent = "detach" /\ GoOn
       \/ caller.intent # "detach" /\ SuspendFor(target)
    /\ pc' = "idle" /\ target' = 0
    /\ UNCHANGED <<child, enabled, told, crashes, edits>>

(* The child that the open intent gave birth to, if it got that far: it was  *)
(* created under the intent's idempotency key.                               *)
findByIdempotencyKey == {k \in DOMAIN child : child[k].key = caller.calls}

(* Slip: recovery suspends the caller although the result is there already.  *)
StillOwed_Always(k) == TRUE

StillOwed(k) == ~child[k].delivered

(* Slip: the call is made again.                                             *)
reconcile_Repeats ==
    /\ pc = "settle"
    /\ pc' = "call"
    /\ UNCHANGED <<caller, child, target, enabled, told, awaited, crashes, edits>>

(* The interrupted call: nothing was born, the caller was never to wait, the *)
(* result has been delivered in the meantime, or it is still owed.           *)
reconcile ==
    /\ pc = "settle"
    /\ \/ /\ \/ caller.intent = "detach"
             \/ \A k \in findByIdempotencyKey : ~StillOwed(k)
          /\ GoOn
       \/ \E k \in findByIdempotencyKey :
             /\ caller.intent # "detach" /\ StillOwed(k)
             /\ SuspendFor(k)
    /\ pc' = "idle"
    /\ UNCHANGED <<child, target, enabled, told, crashes, edits>>

-----------------------------------------------------------------------------
(* The scans that continue the caller.                                       *)

scanAnswered ==
    /\ pc = "idle" /\ caller.status = "waiting" /\ caller.waitingFor = "user"
    /\ caller' = [caller EXCEPT !.status = "running", !.waitingFor = ""]
    /\ UNCHANGED <<child, pc, target, enabled, told, awaited, crashes, edits>>

(* Five minutes have passed.                                                 *)
scanWoken ==
    /\ pc = "idle" /\ caller.status = "waiting" /\ caller.alarm
    /\ caller' = [caller EXCEPT !.status = "running", !.waitingFor = "", !.alarm = FALSE]
    /\ awaited' = 0
    /\ UNCHANGED <<child, pc, target, enabled, told, crashes, edits>>

scanExpiredLeases ==
    /\ pc = "idle" /\ caller.status = "running" /\ caller.leased
    /\ caller' = [caller EXCEPT !.leased = FALSE]
    /\ UNCHANGED <<child, pc, target, enabled, told, awaited, crashes, edits>>

Undelivered(k) == child[k].status \in {"done", "failed"} /\ ~child[k].delivered

(* A finished child and a caller that has finished, too: only the stamp.     *)
TellNobody(k) ==
    /\ pc = "idle" /\ k \in DOMAIN child /\ Undelivered(k) /\ Terminal(caller)
    /\ child' = [child EXCEPT ![k].delivered = TRUE]
    /\ UNCHANGED <<caller, pc, target, enabled, told, awaited, crashes, edits>>

(* Slip: the stamp comes first.                                              *)
TellCaller_StampFirst(k) ==
    /\ pc = "idle" /\ k \in DOMAIN child /\ Undelivered(k)
    /\ caller.status \in {"running", "waiting"}
    /\ child' = [child EXCEPT ![k].delivered = TRUE]
    /\ pc' = "stamp" /\ target' = k
    /\ UNCHANGED <<caller, enabled, told, awaited, crashes, edits>>

(* A finished child: the caller's transcript is written, and a caller that   *)
(* waits for an Assistant, whichever, is made running.  A caller that was    *)
(* deleted cannot be read: the child stays undelivered.                      *)
TellCaller(k) ==
    /\ pc = "idle" /\ k \in DOMAIN child /\ Undelivered(k)
    /\ caller.status \in {"running", "waiting"}
    /\ told' = Append(told, k)
    /\ \/ /\ caller.waitingFor = "assistant"
          /\ caller' = [caller EXCEPT !.status = "running", !.waitingFor = "", !.alarm = FALSE]
       \/ /\ caller.waitingFor # "assistant"
          /\ UNCHANGED caller
    /\ pc' = "stamp" /\ target' = k
    /\ UNCHANGED <<child, enabled, awaited, crashes, edits>>

(* Then the stamp, and the caller's Turn.                                    *)
StampDelivered ==
    /\ pc = "stamp"
    /\ child' = [child EXCEPT ![target].delivered = TRUE]
    /\ pc' = "idle" /\ target' = 0
    /\ UNCHANGED <<caller, enabled, told, awaited, crashes, edits>>

-----------------------------------------------------------------------------
(* The callee's own Turns, the User, and the end of the process.             *)

ChildFinishes(k) ==
    /\ pc = "idle" /\ k \in DOMAIN child /\ child[k].status = "running" /\ enabled
    /\ \E s \in {"done", "failed"} : child' = [child EXCEPT ![k].status = s]
    /\ UNCHANGED <<caller, pc, target, enabled, told, awaited, crashes, edits>>

SwitchCallee ==
    /\ edits < MaxEdits
    /\ enabled' = ~enabled /\ edits' = edits + 1
    /\ UNCHANGED <<caller, child, pc, target, told, awaited, crashes>>

DeleteCaller ==
    /\ edits < MaxEdits /\ pc = "idle" /\ caller.status # "deleted"
    /\ caller' = [caller EXCEPT !.status = "deleted"]
    /\ edits' = edits + 1
    /\ UNCHANGED <<child, pc, target, enabled, told, awaited, crashes>>

Crash ==
    /\ pc # "idle" /\ crashes < MaxCrashes
    /\ pc' = "idle" /\ target' = 0 /\ crashes' = crashes + 1
    /\ UNCHANGED <<caller, child, enabled, told, awaited, edits>>

Turn == BeginTurn \/ FinishTurn \/ AskUser \/ CalleeDisabled \/ callAssistant
            \/ SuspendOrGoOn \/ reconcile \/ (\E mode \in Modes : WriteIntent(mode))

Deliver == StampDelivered \/ (\E k \in Children : TellNobody(k) \/ TellCaller(k))

Next ==
    \/ Turn \/ Deliver
    \/ scanAnswered \/ scanWoken \/ scanExpiredLeases
    \/ \E k \in Children : ChildFinishes(k)
    \/ SwitchCallee \/ DeleteCaller \/ Crash

Spec == Init /\ [][Next]_vars

(* Every pass runs every scan.  A callee owes nothing (it may wait for the   *)
(* User), and neither does the User.                                         *)
FairSpec == Spec /\ WF_vars(Turn) /\ WF_vars(Deliver) /\ WF_vars(scanExpiredLeases)
                 /\ WF_vars(scanWoken)

-----------------------------------------------------------------------------
(* A result that is stamped as delivered is in the caller's transcript, or   *)
(* the caller is past reading it: wherever the Runtime dies, no result is    *)
(* lost between the two writes.                                              *)
DeliveredIsTold ==
    \A k \in DOMAIN child :
        child[k].delivered =>
            Terminal(caller) \/ caller.status = "deleted" \/ \E i \in DOMAIN told : told[i] = k

(* An interrupted call starts one Assistant, never two.                      *)
OneChildPerCall == \A j, k \in DOMAIN child : child[j].key = child[k].key => j = k

(* A caller that waits for an Assistant is continued once the child it       *)
(* suspended for has finished, wherever the Runtime died in between: the     *)
(* result never arrives before the wait and is then waited for.              *)
WaitIsOver ==
    (caller.waitingFor = "assistant" /\ caller.status = "waiting")
        ~> \/ caller.status # "waiting"
           \/ awaited \in DOMAIN child /\ child[awaited].status = "running"

=============================================================================
