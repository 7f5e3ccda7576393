--------------------------- MODULE OperationHost ---------------------------
(***************************************************************************)
(* The Operation Host (runtime/src/operations/dynamic) running the         *)
(* bookkeeping Sources (import/operations/bookkeeping) against Firefly.    *)
(*                                                                         *)
(* Every execution is a worker of its own: it is handed a snapshot of the  *)
(* host's cache, makes its HTTP requests one after the other, and posts    *)
(* one result together with the changes it made to its copy of the cache.  *)
(* The host takes the first of: that message, the worker's death, and the  *)
(* terminate timer.  A worker whose caller has been told it timed out runs *)
(* on until terminate() catches up with it.                                *)
(*                                                                         *)
(* One cache key is modelled, "accounts": the chart of accounts.           *)
(***************************************************************************)
EXTENDS Naturals, Sequences, FiniteSets

CONSTANTS Workers,    \* worker threads that may run at once
          Names,      \* account names a call may use
          Fold,       \* a name without its case and outer blanks
          Internal,   \* Firefly's own account types, nobody's chart of accounts
          InUse,      \* Operations this instance calls
          Timeout,    \* ceiling of one execution and its spawn allowance
          Ttl,        \* staleness ceiling of a cache entry
          MaxTime,    \* bound on the clock
          MaxRuns,    \* bound on executions
          MaxByHand   \* bound on accounts the User adds in Firefly

ASSUME HostAssumption == /\ Timeout \in Nat \ {0} /\ Ttl \in Nat \ {0}
                         /\ DOMAIN Fold = Names

VARIABLES
    chart,    \* Firefly's accounts, each with the instant it was made
    cache,    \* HostCache: the entry of "accounts"
    worker,   \* the executions
    told,     \* names createAccount has told a caller it made
    runs,     \* executions so far
    now

vars == <<chart, cache, worker, told, runs, now>>

----------------------------------------------------------------------------
(* The Sources: which requests an Operation makes, in order. *)

listAccounts == <<"list">>
listOpenItems == <<"list">>
getBalance == <<"resolve", "call">>
listTransactions == <<"resolve", "call">>
getBudgetReport == <<"call", "call">>
postTransaction == <<"call", "resolve", "resolve", "call", "call">>

Program ==
    [createAccount |-> <<"list", "create">>, listAccounts |-> listAccounts, listOpenItems |-> listOpenItems,
     getBalance |-> getBalance, listTransactions |-> listTransactions, getBudgetReport |-> getBudgetReport,
     postTransaction |-> postTransaction]

\* What this instance calls are these, and what createAccount makes is nobody's own type.
ASSUME SourcesAssumption == InUse \subseteq DOMAIN Program /\ "expense" \notin Internal

\* The seeds mark these two for the door.
ClientReadable == {"listAccounts", "listTransactions"}

NoChart == [there |-> FALSE, rows |-> {}]
NoChange == [op |-> "none", rows |-> {}]
NoEntry == [there |-> FALSE, rows |-> {}, expiresAt |-> 0]
Idle == [phase |-> "idle", settled |-> FALSE, caller |-> "none", op |-> "none", name |-> "none", left |-> <<>>,
         view |-> NoChart, change |-> NoChange, refreshed |-> FALSE, startedAt |-> 0, chosen |-> {},
         chosenAt |-> 0, expected |-> FALSE, result |-> "none", outcome |-> "none"]

Init ==
    /\ chart = {}
    /\ cache = NoEntry
    /\ worker = [w \in Workers |-> Idle]
    /\ told = {}
    /\ runs = 0
    /\ now = 0

\* A deny-list: what is not one of Firefly's own types is part of the chart.
isBookable(account) == account.type \notin Internal

Chart == {a \in chart : isBookable(a)}

\* An exact name wins outright; otherwise every account of that name without its case.
\* One candidate is the account, two are an ambiguity, none a reason to refresh.
pick(rows, name) ==
    LET exact == {a \in rows : a.name = name} IN
    IF exact # {} THEN exact ELSE {a \in rows : Fold[a.name] = Fold[name]}

----------------------------------------------------------------------------
(* The host's side: the cache and the one outcome of a worker. *)

\* Slip: an entry is handed out however old it is.
snapshot_NeverExpires == [there |-> cache.there, rows |-> cache.rows]

\* The live entries, cloned into the worker.
snapshot == IF cache.there /\ cache.expiresAt > now
            THEN [there |-> TRUE, rows |-> cache.rows] ELSE NoChart

\* The last change a Source made to a key is the one that counts.
applyMutations(change) ==
    CASE change.op = "none" -> cache
      [] change.op = "set" -> [there |-> TRUE, rows |-> change.rows, expiresAt |-> now + Ttl]
      [] change.op = "delete" -> NoEntry

\* A credential that cannot be read and a worker that cannot be spawned are outcomes
\* that leave nothing behind, so they are no step here.
run(w, caller, op, name) ==
    /\ runs < MaxRuns
    /\ worker[w].phase \in {"idle", "gone"}
    /\ runs' = runs + 1
    /\ worker' = [worker EXCEPT ![w] =
         [Idle EXCEPT !.phase = "running", !.caller = caller, !.op = op, !.name = name,
                      !.left = Program[op], !.view = snapshot, !.startedAt = now,
                      !.expected = name \in told]]
    /\ UNCHANGED <<chart, cache, told, now>>

\* What is left of a worker: its outcome, and what the properties ask of it.
Gone(self) == [Idle EXCEPT !.phase = "gone", !.settled = TRUE, !.name = self.name, !.outcome = self.outcome,
                           !.expected = self.expected, !.chosen = self.chosen, !.chosenAt = self.chosenAt]

\* finish: only its first call counts, and the worker is terminated behind it.
finish(w, outcome, change) ==
    IF worker[w].settled
    THEN worker' = [worker EXCEPT ![w] = Gone(@)] /\ UNCHANGED <<cache, told>>
    ELSE /\ worker' = [worker EXCEPT ![w] = Gone([@ EXCEPT !.outcome = outcome])]
         /\ cache' = applyMutations(change)
         /\ told' = IF worker[w].op = "createAccount" /\ outcome = "value"
                    THEN told \cup {worker[w].name} ELSE told

\* The one message a worker posts: its result and its changes, translated into an outcome.
messageArrives(w) ==
    /\ worker[w].phase = "posted"
    /\ finish(w, worker[w].result, worker[w].change)
    /\ UNCHANGED <<chart, runs, now>>

\* The worker throws, runs out of memory, is terminated: it exits without a message.
workerDies(w) ==
    /\ worker[w].phase = "running"
    /\ finish(w, "failed", NoChange)
    /\ UNCHANGED <<chart, runs, now>>

Expired(w) == worker[w].phase \in {"running", "posted"} /\ ~worker[w].settled
              /\ now >= worker[w].startedAt + Timeout

\* The caller is told; the worker runs on until terminate() has come through.
timerFires(w) ==
    /\ Expired(w)
    /\ worker' = [worker EXCEPT ![w].settled = TRUE, ![w].outcome = "timed out"]
    /\ UNCHANGED <<chart, cache, told, runs, now>>

----------------------------------------------------------------------------
(* The worker's side: one HTTP request of the Source per step. *)

Working(w, request) == worker[w].phase = "running" /\ worker[w].left # <<>>
                       /\ Head(worker[w].left) = request

\* The Source returned or threw: the worker posts it with the changes made so far.
Post(self, result) == [self EXCEPT !.phase = "posted", !.result = result, !.left = <<>>,
                                    !.view = NoChart, !.refreshed = FALSE]

\* The next request of the Source, or its value when there is none.
Onward(self) == IF Len(self.left) = 1 THEN Post(self, "value") ELSE [self EXCEPT !.left = Tail(@)]

Step(w, self) ==
    /\ worker' = [worker EXCEPT ![w] = self]
    /\ UNCHANGED <<cache, told, runs, now>>

\* GET /accounts, put into the worker's copy of the cache and among its changes.
Loaded(self) == [self EXCEPT !.view = [there |-> TRUE, rows |-> Chart],
                             !.change = [op |-> "set", rows |-> Chart]]

\* Always fresh; createAccount goes on only when the name is new to the chart.
loadAccounts(w) ==
    /\ Working(w, "list")
    /\ LET self == Loaded(worker[w])
           known == self.op = "createAccount" /\ \E a \in Chart : Fold[a.name] = Fold[self.name]
       IN  Step(w, IF known THEN Post(self, "value") ELSE Onward(self))
    /\ UNCHANGED chart

\* POST /accounts: the account is made, the chart evicted.
createAccount(w) ==
    /\ Working(w, "create")
    /\ chart' = chart \cup {[id |-> Cardinality(chart), name |-> worker[w].name, type |-> "expense", at |-> now]}
    /\ \/ Step(w, Post([worker[w] EXCEPT !.change = [op |-> "delete", rows |-> {}]], "value"))
       \/ Step(w, Post(worker[w], "failed"))      \* made, and the answer is lost

\* Slip: a name the cached chart does not know is given up at once.
resolveAccountId_NoRetry(w) ==
    /\ Working(w, "resolve")
    /\ LET self == IF worker[w].view.there THEN worker[w] ELSE Loaded(worker[w])
           found == pick(self.view.rows, self.name)
       IN  Step(w, CASE Cardinality(found) = 1 -> Onward([self EXCEPT !.chosen = found, !.chosenAt = now])
                     [] Cardinality(found) > 1 -> Post(self, "ambiguous")
                     [] OTHER -> Post(self, "no account"))
    /\ UNCHANGED chart

\* The cached chart first, then one refresh, then an error that names what there is.
resolveAccountId(w) ==
    /\ Working(w, "resolve")
    /\ LET cached == worker[w].view.there /\ ~worker[w].refreshed
           self == IF cached THEN worker[w] ELSE Loaded(worker[w])
           found == pick(self.view.rows, self.name)
       IN  Step(w, CASE Cardinality(found) = 1 -> Onward([self EXCEPT !.chosen = found, !.chosenAt = now])
                     [] Cardinality(found) > 1 -> Post(self, "ambiguous")
                     [] Cardinality(found) = 0 /\ ~self.refreshed -> [self EXCEPT !.refreshed = TRUE]
                     [] OTHER -> Post(self, "no account"))
    /\ UNCHANGED chart

\* Any other request that answers: the balance, the register, the budgets, a search, a booking.
fireflyCall(w) ==
    /\ Working(w, "call")
    /\ Step(w, Onward(worker[w]))
    /\ UNCHANGED chart

\* A status that is not 2xx, an aborted fetch, a body over the cap, a Source that throws.
requestFails(w) ==
    /\ worker[w].phase = "running" /\ worker[w].left # <<>>
    /\ Step(w, Post(worker[w], "failed"))
    /\ UNCHANGED chart

----------------------------------------------------------------------------
(* Firefly and the clock. *)

ByHand == {a \in chart : a.type # "expense"}

\* The User adds an account in Firefly itself, under any name, beside one that is there.
UserAddsAccount(name, type) ==
    /\ Cardinality(ByHand) < MaxByHand
    /\ chart' = chart \cup {[id |-> Cardinality(chart), name |-> name, type |-> type, at |-> now]}
    /\ UNCHANGED <<cache, worker, told, runs, now>>

\* The Sources that take the name of an account.
NamesFor(op) == IF op \in {"createAccount", "getBalance", "listTransactions", "postTransaction"}
                THEN Names ELSE {"none"}

\* Somebody has an Operation executed: the Turn one at a time, the door what is
\* client-readable, as often as it is asked.
Called(w, op, name) ==
    \/ /\ \A v \in Workers : worker[v].caller = "turn" => worker[v].settled
       /\ run(w, "turn", op, name)
    \/ op \in ClientReadable /\ run(w, "door", op, name)

\* A timer that is due goes off, and terminate() comes through, before time passes.
Tick ==
    /\ now < MaxTime
    /\ \A w \in Workers : ~Expired(w) /\ (worker[w].settled => worker[w].phase = "gone")
    /\ now' = now + 1
    /\ UNCHANGED <<chart, cache, worker, told, runs>>

Next ==
    \/ \E w \in Workers : \E op \in InUse : \E name \in NamesFor(op) : Called(w, op, name)
    \/ \E w \in Workers :
          \/ messageArrives(w) \/ workerDies(w) \/ timerFires(w)
          \/ loadAccounts(w) \/ createAccount(w) \/ resolveAccountId(w)
          \/ fireflyCall(w) \/ requestFails(w)
    \/ \E name \in Names, type \in {"asset", "initial-balance"} : UserAddsAccount(name, type)
    \/ Tick

Spec == Init /\ [][Next]_vars

----------------------------------------------------------------------------
(* What callers may count on. *)

(***************************************************************************)
(* An account createAccount has told its caller it made is found by every  *)
(* call that starts afterwards, although another worker may put a chart it *)
(* read before that back into the cache after the eviction.                *)
(***************************************************************************)
CreatedIsResolvable ==
    \A w \in Workers : worker[w].expected => worker[w].outcome # "no account"

\* The oldest chart a name may be resolved from: read by one worker just before it
\* finished, handed to another just before it expired, used at that one's ceiling.
ChartAge == 2 * Timeout + Ttl - 1

(***************************************************************************)
(* A name is never guessed: of the accounts that are older than a cached   *)
(* chart may be, the one chosen is the only one the name could mean.       *)
(***************************************************************************)
NeverGuesses ==
    \A w \in Workers : \A a \in worker[w].chosen :
        \A b \in {c \in Chart : c.at + ChartAge < worker[w].chosenAt} \ {a} :
            /\ b.name # worker[w].name
            /\ a.name # worker[w].name => Fold[b.name] # Fold[worker[w].name]
=============================================================================
