------------------------ MODULE OperationHostProofs ------------------------
(***************************************************************************)
(* An account that was made is found, and a name is never guessed, for any *)
(* number of workers, names and executions and every timeout and ceiling   *)
(* of the cache.                                                           *)
(*                                                                         *)
(* The chart only grows, so a name that was told stays known (Known), and  *)
(* the one refresh before a name is given up reads the chart itself.  For  *)
(* the second promise every copy of the chart carries a bound on what it   *)
(* can have missed (Missed): measured from the start of the worker that    *)
(* read it, from the expiry of the cache entry it became, and from the     *)
(* start of the worker that entry was handed to.  A worker is gone at its  *)
(* ceiling (InTime), and the three add up to ChartAge.                     *)
(*                                                                         *)
(* A posting is safe to retry, on every ledger: what its three searches    *)
(* find is there, and what they do not find is not (FoundByKey and the     *)
(* lemmas after it).                                                       *)
(***************************************************************************)
EXTENDS OperationHost, Integers, FiniteSetTheorems, WellFoundedInduction, TLAPS

Ops == DOMAIN Program
Requests == {"list", "resolve", "call", "create"}
Results == {"none", "value", "failed", "ambiguous", "no account", "timed out"}
Account == [id : Nat, name : Names, type : {"expense", "asset", "initial-balance"}, at : Nat]
Self == [phase : {"idle", "running", "posted", "gone"}, settled : BOOLEAN,
         caller : {"none", "turn", "door"}, op : Ops \cup {"none"}, name : Names \cup {"none"},
         left : Seq(Requests), view : [there : BOOLEAN, rows : SUBSET Account],
         change : [op : {"none", "set", "delete"}, rows : SUBSET Account], refreshed : BOOLEAN,
         startedAt : Nat, chosen : SUBSET Account, chosenAt : Nat, expected : BOOLEAN,
         result : Results, outcome : Results]

TypeOK ==
    /\ chart \in SUBSET Account /\ IsFiniteSet(chart)
    /\ cache \in [there : BOOLEAN, rows : SUBSET Account, expiresAt : Nat]
    /\ worker \in [Workers -> Self]
    /\ told \subseteq Names \cup {"none"}
    /\ runs \in Nat
    /\ now \in Nat

\* The chart c has an account the name can mean.
Known(c, name) == \E a \in c : isBookable(a) /\ Fold[a.name] = Fold[name]

\* The accounts of the chart c that the copy rows does not have.
Missed(c, rows) == {b \in c : isBookable(b) /\ b \notin rows}

\* An execution is not over its ceiling.
InTime(r, t) ==
    /\ r.phase \in {"running", "posted"} => r.startedAt <= t /\ t <= r.startedAt + Timeout
    /\ r.chosenAt <= t

\* The copies of the chart a worker has are of accounts there are.
OwnCopies(r, c) == r.view.rows \subseteq c /\ r.change.rows \subseteq c

\* The requests that make no account.
Harmless == {"list", "resolve", "call"}

\* createAccount alone makes one: it goes from
\* the list to the account, and has its value once the name is known.
Creating(r, c) ==
    /\ r.op = "createAccount" =>
           /\ r.name \in Names
           /\ r.phase = "running" => r.left \in {<<"list", "create">>, <<"create">>}
           /\ r.phase = "posted" /\ r.result = "value" => Known(c, r.name)
    /\ r.op # "createAccount" => r.left \in Seq(Harmless)

\* A name that was told when the execution began is not given up.
Found(r, c) ==
    r.expected => /\ Known(c, r.name) /\ r.outcome # "no account"
                  /\ r.phase = "posted" => r.result # "no account"

\* What a worker's copies of the chart have missed is young.
Young(r, c) ==
    /\ r.phase = "running" /\ r.view.there =>
           \A b \in Missed(c, r.view.rows) : b.at + Timeout + Ttl > r.startedAt
    /\ r.phase \in {"running", "posted"} /\ r.change.op = "set" =>
           \A b \in Missed(c, r.change.rows) : b.at >= r.startedAt

\* The account chosen is the only one of age that the name could mean.
Sure(r, c) ==
    \A a \in r.chosen, b \in c :
        isBookable(b) /\ b.at + ChartAge < r.chosenAt /\ b # a =>
            /\ b.name # r.name
            /\ a.name # r.name => Fold[b.name] # Fold[r.name]

Sound(r, c, t) == /\ InTime(r, t) /\ OwnCopies(r, c) /\ Creating(r, c)
                  /\ Found(r, c) /\ Young(r, c) /\ Sure(r, c)

\* What the cached chart has missed is young, and the entry was set by now.
CacheYoung(e, c, t) ==
    /\ e.rows \subseteq c
    /\ e.there => /\ e.expiresAt <= t + Ttl
                  /\ \A b \in Missed(c, e.rows) : b.at + Timeout + Ttl >= e.expiresAt

IInv == /\ TypeOK
        /\ CacheYoung(cache, chart, now)
        /\ \A name \in told : Known(chart, name)
        /\ \A w \in Workers : Sound(worker[w], chart, now)

-----------------------------------------------------------------------------
(* What the chart, the copies and the records of the workers are. *)

\* The ceilings are positive, and so is the age of the oldest copy.
LEMMA Ceilings == /\ Timeout \in Nat /\ Ttl \in Nat /\ Timeout >= 1 /\ Ttl >= 1
                  /\ ChartAge \in Nat /\ ChartAge + 1 = Timeout + Timeout + Ttl
  BY HostAssumption DEF ChartAge

\* A chart that grows by accounts made now is still one every copy is sound for.
LEMMA Grow ==
    ASSUME NEW r \in Self, NEW c, NEW d \in SUBSET Account, NEW t \in Nat, Sound(r, c, t),
           c \subseteq d, \A b \in d : b \in c \/ b.at = t
    PROVE  Sound(r, d, t)
  <1>1. r.startedAt \in Nat /\ r.chosenAt \in Nat /\ \A b \in d : b.at \in Nat
    BY DEF Self, Account
  <1>3. InTime(r, t) /\ OwnCopies(r, d)
    BY DEF Sound, OwnCopies
  <1>4. \A name : Known(c, name) => Known(d, name)
    BY DEF Known
  <1>5. Creating(r, d) /\ Found(r, d)
    BY <1>4 DEF Sound, Creating, Found
  <1>6. \A rows : \A b \in Missed(d, rows) : b \in d /\ (b \in Missed(c, rows) \/ b.at = t)
    BY DEF Missed
  <1>7. Young(r, d)
    BY <1>1, <1>3, <1>6, Ceilings DEF Sound, Young, InTime
  <1>8. Sure(r, d)
    <2> SUFFICES ASSUME NEW a \in r.chosen, NEW b \in d,
                        isBookable(b), b.at + ChartAge < r.chosenAt, b # a
                 PROVE  b.name # r.name /\ (a.name # r.name => Fold[b.name] # Fold[r.name])
      BY DEF Sure
    <2>1. b.at # t
      BY <1>1, <1>3, Ceilings DEF InTime
    <2> QED  BY <2>1 DEF Sound, Sure
  <1> QED  BY <1>3, <1>5, <1>7, <1>8 DEF Sound

\* The same of the cache.
LEMMA GrowCache ==
    ASSUME NEW e \in [there : BOOLEAN, rows : SUBSET Account, expiresAt : Nat], NEW c,
           NEW d \in SUBSET Account, NEW t \in Nat, CacheYoung(e, c, t),
           c \subseteq d, \A b \in d : b \in c \/ b.at = t
    PROVE  CacheYoung(e, d, t)
  <1>1. e.expiresAt \in Nat /\ \A b \in d : b.at \in Nat
    BY DEF Account
  <1>2. \A b \in Missed(d, e.rows) : b \in d /\ (b \in Missed(c, e.rows) \/ b.at = t)
    BY DEF Missed
  <1> QED  BY <1>1, <1>2, Ceilings DEF CacheYoung

\* A worker that has posted: what is left of it besides its changes is the result.
LEMMA PostIs ==
    ASSUME NEW r \in Self, NEW res \in Results
    PROVE  LET s == Post(r, res) IN
           /\ s \in Self
           /\ s.phase = "posted" /\ s.result = res /\ s.left = <<>> /\ s.view = NoChart /\ s.settled = r.settled
           /\ s.op = r.op /\ s.name = r.name /\ s.change = r.change /\ s.startedAt = r.startedAt
           /\ s.chosen = r.chosen /\ s.chosenAt = r.chosenAt /\ s.expected = r.expected /\ s.outcome = r.outcome
  <1>1. <<>> \in Seq(Requests) /\ NoChart \in [there : BOOLEAN, rows : SUBSET Account]
    BY DEF NoChart
  <1> QED  BY <1>1 DEF Post, Self

\* A worker at its next request is the same but for the list of requests.
LEMMA NextIs ==
    ASSUME NEW r \in Self, r.left # <<>>
    PROVE  LET s == [r EXCEPT !.left = Tail(@)] IN
           /\ s \in Self
           /\ s.left = Tail(r.left) /\ s.phase = r.phase /\ s.result = r.result /\ s.view = r.view
           /\ s.settled = r.settled /\ s.refreshed = r.refreshed
           /\ s.op = r.op /\ s.name = r.name /\ s.change = r.change /\ s.startedAt = r.startedAt
           /\ s.chosen = r.chosen /\ s.chosenAt = r.chosenAt /\ s.expected = r.expected /\ s.outcome = r.outcome
  <1>1. Tail(r.left) \in Seq(Requests)
    BY DEF Self
  <1> QED  BY <1>1 DEF Self

\* A worker that has read the chart.
LEMMA LoadedIs ==
    ASSUME NEW r \in Self, chart \in SUBSET Account
    PROVE  LET s == Loaded(r) IN
           /\ s \in Self
           /\ s.view = [there |-> TRUE, rows |-> Chart] /\ s.change = [op |-> "set", rows |-> Chart]
           /\ s.left = r.left /\ s.phase = r.phase /\ s.result = r.result
           /\ s.settled = r.settled /\ s.refreshed = r.refreshed
           /\ s.op = r.op /\ s.name = r.name /\ s.startedAt = r.startedAt
           /\ s.chosen = r.chosen /\ s.chosenAt = r.chosenAt /\ s.expected = r.expected /\ s.outcome = r.outcome
  <1>1. Chart \in SUBSET Account
    BY DEF Chart
  <1>2. /\ [there |-> TRUE, rows |-> Chart] \in [there : BOOLEAN, rows : SUBSET Account]
        /\ [op |-> "set", rows |-> Chart] \in [op : {"none", "set", "delete"}, rows : SUBSET Account]
    BY <1>1
  <1> QED  BY <1>2 DEF Loaded, Self

\* A Source is a list of requests, and createAccount's is the list and the account.
LEMMA ProgramIs ==
    /\ \A op \in Ops : Program[op] \in Seq(Requests)
    /\ \A op \in Ops \ {"createAccount"} : Program[op] \in Seq(Harmless)
    /\ Program["createAccount"] = <<"list", "create">>
  <1>1. Ops = {"createAccount", "listAccounts", "listOpenItems", "getBalance", "listTransactions",
               "getBudgetReport", "postTransaction"}
    BY DEF Ops, Program
  <1>2. /\ Program["createAccount"] = <<"list", "create">> /\ Program["listAccounts"] = <<"list">>
        /\ Program["listOpenItems"] = <<"list">> /\ Program["getBalance"] = <<"resolve", "call">>
        /\ Program["listTransactions"] = <<"resolve", "call">>
        /\ Program["getBudgetReport"] = <<"call", "call">>
        /\ Program["postTransaction"] = <<"call", "resolve", "resolve", "call", "call">>
    BY DEF Program, listAccounts, listOpenItems, getBalance, listTransactions, getBudgetReport, postTransaction
  <1>3. /\ <<"list">> \in Seq(Requests) /\ <<"list", "create">> \in Seq(Requests)
        /\ <<"resolve", "call">> \in Seq(Requests) /\ <<"call", "call">> \in Seq(Requests)
        /\ <<"call", "resolve", "resolve", "call", "call">> \in Seq(Requests)
    BY DEF Requests
  <1>4. /\ <<"list">> \in Seq(Harmless)
        /\ <<"resolve", "call">> \in Seq(Harmless) /\ <<"call", "call">> \in Seq(Harmless)
        /\ <<"call", "resolve", "resolve", "call", "call">> \in Seq(Harmless)
    BY DEF Harmless
  <1>5. \A op \in Ops : Program[op] \in Seq(Requests)
    BY <1>1, <1>2, <1>3
  <1>6. \A op \in Ops \ {"createAccount"} : Program[op] \in Seq(Harmless)
    BY <1>1, <1>2, <1>4
  <1> QED  BY <1>2, <1>5, <1>6

\* A worker that has not begun.
LEMMA IdleIs == /\ Idle \in Self
                /\ Idle.op = "none" /\ Idle.view = NoChart /\ Idle.change = NoChange
                /\ Idle.chosen = {} /\ Idle.chosenAt = 0 /\ Idle.expected = FALSE
                /\ Idle.phase = "idle" /\ Idle.left = <<>> /\ Idle.outcome = "none" /\ Idle.result = "none"
  <1>1. /\ NoChart \in [there : BOOLEAN, rows : SUBSET Account]
        /\ NoChange \in [op : {"none", "set", "delete"}, rows : SUBSET Account]
        /\ <<>> \in Seq(Requests)
    BY DEF NoChart, NoChange
  <1> QED  BY <1>1 DEF Idle, Self, Results

\* A worker that is gone.
LEMMA GoneIs ==
    ASSUME NEW r \in Self
    PROVE  LET s == Gone(r) IN
           /\ s \in Self
           /\ s.phase = "gone" /\ s.settled = TRUE /\ s.op = "none" /\ s.left = <<>> /\ s.name = r.name
           /\ s.view = NoChart /\ s.change = NoChange /\ s.outcome = r.outcome
           /\ s.chosen = r.chosen /\ s.chosenAt = r.chosenAt /\ s.expected = r.expected
  BY IdleIs DEF Gone, Self

-----------------------------------------------------------------------------
(* What a worker comes to is sound. *)

\* A Source that has no request left makes no account.
LEMMA NoRequest == <<>> \in Seq(Harmless)
  OBVIOUS

\* It posts a result: a name it was to find is not given up, and an account it says is made is known.
LEMMA SoundPost ==
    ASSUME NEW r \in Self, NEW c, NEW t \in Nat, Sound(r, c, t), r.phase = "running", NEW res \in Results,
           r.expected => res # "no account",
           r.op = "createAccount" /\ res = "value" => Known(c, r.name)
    PROVE  Post(r, res) \in Self /\ Sound(Post(r, res), c, t)
  <1> DEFINE s == Post(r, res)
  <1>1. /\ s \in Self
        /\ s.phase = "posted" /\ s.result = res /\ s.left = <<>> /\ s.view = NoChart
        /\ s.op = r.op /\ s.name = r.name /\ s.change = r.change /\ s.startedAt = r.startedAt
        /\ s.chosen = r.chosen /\ s.chosenAt = r.chosenAt /\ s.expected = r.expected /\ s.outcome = r.outcome
    BY PostIs
  <1> HIDE DEF s
  <1>2. InTime(s, t) /\ OwnCopies(s, c)
    <2>1. InTime(s, t)
      BY <1>1 DEF Sound, InTime
    <2>2. NoChart.rows = {}
      BY DEF NoChart
    <2>3. OwnCopies(s, c)
      BY <1>1, <2>2 DEF Sound, OwnCopies
    <2> QED  BY <2>1, <2>3
  <1>3. Creating(s, c) /\ Found(s, c)
    <2>1. <<>> \in Seq(Harmless)
      BY NoRequest
    <2>2. Creating(s, c)
      BY <1>1, <2>1 DEF Sound, Creating
    <2>3. Found(s, c)
      BY <1>1 DEF Sound, Found
    <2> QED  BY <2>2, <2>3
  <1>4. Young(s, c) /\ Sure(s, c)
    BY <1>1 DEF Sound, Young, Sure
  <1>5. s \in Self /\ Sound(s, c, t)
    BY <1>1, <1>2, <1>3, <1>4 DEF Sound
  <1> QED  BY <1>5 DEF s

\* It goes on to the next request; createAccount does so from the list only.
LEMMA SoundOnward ==
    ASSUME NEW r \in Self, NEW c, NEW t \in Nat, Sound(r, c, t), r.phase = "running", r.left # <<>>,
           r.op = "createAccount" => r.left = <<"list", "create">>
    PROVE  Onward(r) \in Self /\ Sound(Onward(r), c, t)
  <1>0. Len(<<"list", "create">>) = 2 /\ Tail(<<"list", "create">>) = <<"create">>
    OBVIOUS
  <1>1. CASE Len(r.left) = 1
    <2>1. r.op # "createAccount" /\ "value" \in Results
      BY <1>0, <1>1 DEF Results
    <2>2. Post(r, "value") \in Self /\ Sound(Post(r, "value"), c, t)
      BY <2>1, SoundPost
    <2> QED  BY <1>1, <2>2 DEF Onward
  <1>2. CASE Len(r.left) # 1
    <2> DEFINE s == [r EXCEPT !.left = Tail(@)]
    <2>1. /\ s \in Self
          /\ s.left = Tail(r.left) /\ s.phase = r.phase /\ s.result = r.result /\ s.view = r.view
          /\ s.op = r.op /\ s.name = r.name /\ s.change = r.change /\ s.startedAt = r.startedAt
          /\ s.chosen = r.chosen /\ s.chosenAt = r.chosenAt /\ s.expected = r.expected /\ s.outcome = r.outcome
      BY NextIs
    <2>2. Onward(r) = s
      BY <1>2 DEF Onward
    <2> HIDE DEF s
    <2>3. InTime(s, t) /\ OwnCopies(s, c)
      BY <2>1 DEF Sound, InTime, OwnCopies
    <2>4. Creating(s, c)
      <3>1. r.op # "createAccount" => Tail(r.left) \in Seq(Harmless)
        BY DEF Sound, Creating
      <3> QED  BY <2>1, <1>0, <3>1 DEF Sound, Creating
    <2>5. Found(s, c) /\ Young(s, c) /\ Sure(s, c)
      BY <2>1 DEF Sound, Found, Young, Sure
    <2> QED  BY <2>1, <2>2, <2>3, <2>4, <2>5 DEF Sound
  <1> QED  BY <1>1, <1>2

\* It reads the chart: the copy has missed nothing.
LEMMA SoundLoaded ==
    ASSUME NEW r \in Self, chart \in SUBSET Account, now \in Nat, Sound(r, chart, now), r.phase = "running"
    PROVE  Sound(Loaded(r), chart, now)
  <1> DEFINE s == Loaded(r)
  <1>1. /\ s \in Self
        /\ s.view = [there |-> TRUE, rows |-> Chart] /\ s.change = [op |-> "set", rows |-> Chart]
        /\ s.left = r.left /\ s.phase = r.phase /\ s.result = r.result
        /\ s.op = r.op /\ s.name = r.name /\ s.startedAt = r.startedAt
        /\ s.chosen = r.chosen /\ s.chosenAt = r.chosenAt /\ s.expected = r.expected /\ s.outcome = r.outcome
    BY LoadedIs
  <1> HIDE DEF s
  <1>2. Chart \subseteq chart /\ Missed(chart, Chart) = {}
    BY DEF Chart, Missed
  <1>3. InTime(s, now) /\ OwnCopies(s, chart)
    BY <1>1, <1>2 DEF Sound, InTime, OwnCopies
  <1>4. Creating(s, chart) /\ Found(s, chart) /\ Sure(s, chart)
    BY <1>1 DEF Sound, Creating, Found, Sure
  <1>5. Young(s, chart)
    BY <1>1, <1>2 DEF Young
  <1>6. Sound(s, chart, now)
    BY <1>3, <1>4, <1>5 DEF Sound
  <1> QED  BY <1>6 DEF s

\* It is told an outcome.
LEMMA SoundOutcome ==
    ASSUME NEW r \in Self, NEW c, NEW t \in Nat, Sound(r, c, t), NEW o \in Results,
           r.expected => o # "no account"
    PROVE  LET s == [r EXCEPT !.outcome = o] IN s \in Self /\ Sound(s, c, t)
  <1> DEFINE s == [r EXCEPT !.outcome = o]
  <1>1. /\ s \in Self
        /\ s.left = r.left /\ s.phase = r.phase /\ s.result = r.result /\ s.view = r.view
        /\ s.op = r.op /\ s.name = r.name /\ s.change = r.change /\ s.startedAt = r.startedAt
        /\ s.chosen = r.chosen /\ s.chosenAt = r.chosenAt /\ s.expected = r.expected /\ s.outcome = o
    BY DEF Self
  <1> HIDE DEF s
  <1>2. InTime(s, t) /\ OwnCopies(s, c)
    BY <1>1 DEF Sound, InTime, OwnCopies
  <1>3. Creating(s, c) /\ Found(s, c)
    BY <1>1 DEF Sound, Creating, Found
  <1>4. Young(s, c) /\ Sure(s, c)
    BY <1>1 DEF Sound, Young, Sure
  <1>5. s \in Self /\ Sound(s, c, t)
    BY <1>1, <1>2, <1>3, <1>4 DEF Sound
  <1> QED  BY <1>5 DEF s

\* It is gone.
LEMMA SoundGone ==
    ASSUME NEW r \in Self, NEW c, NEW t \in Nat, Sound(r, c, t)
    PROVE  Gone(r) \in Self /\ Sound(Gone(r), c, t)
  <1> DEFINE s == Gone(r)
  <1>1. /\ s \in Self
        /\ s.phase = "gone" /\ s.settled = TRUE /\ s.op = "none" /\ s.left = <<>> /\ s.name = r.name
        /\ s.view = NoChart /\ s.change = NoChange /\ s.outcome = r.outcome
        /\ s.chosen = r.chosen /\ s.chosenAt = r.chosenAt /\ s.expected = r.expected
    BY GoneIs
  <1> HIDE DEF s
  <1>2. InTime(s, t) /\ OwnCopies(s, c)
    BY <1>1 DEF Sound, InTime, OwnCopies, NoChart, NoChange
  <1>3. Creating(s, c) /\ Found(s, c)
    <2>1. <<>> \in Seq(Harmless)
      BY NoRequest
    <2>2. Creating(s, c)
      BY <1>1, <2>1 DEF Sound, Creating
    <2>3. Found(s, c)
      BY <1>1 DEF Sound, Found
    <2> QED  BY <2>2, <2>3
  <1>4. Young(s, c) /\ Sure(s, c)
    BY <1>1 DEF Sound, Young, Sure
  <1>5. s \in Self /\ Sound(s, c, t)
    BY <1>1, <1>2, <1>3, <1>4 DEF Sound
  <1> QED  BY <1>5 DEF s

\* The one candidate in a copy is the only account of age the name could mean.
LEMMA OnlyOne ==
    ASSUME NEW rows, NEW name, NEW a, pick(rows, name) = {a}, NEW b \in rows, b # a
    PROVE  b.name # name /\ (a.name # name => Fold[b.name] # Fold[name])
  <1>1. CASE {x \in rows : x.name = name} # {}
    BY <1>1 DEF pick
  <1>2. CASE {x \in rows : x.name = name} = {}
    BY <1>2 DEF pick
  <1> QED  BY <1>1, <1>2

\* It has chosen the one candidate of its copy.
LEMMA SoundChosen ==
    ASSUME NEW r \in Self, NEW c \in SUBSET Account, IsFiniteSet(c), NEW t \in Nat, Sound(r, c, t), r.phase = "running",
           r.view.there, Cardinality(pick(r.view.rows, r.name)) = 1
    PROVE  LET s == [r EXCEPT !.chosen = pick(r.view.rows, r.name), !.chosenAt = t] IN
           /\ s \in Self /\ Sound(s, c, t) /\ s.left = r.left /\ s.phase = "running" /\ s.op = r.op
  <1> DEFINE found == pick(r.view.rows, r.name)
             s == [r EXCEPT !.chosen = found, !.chosenAt = t]
  <1>0. r.view.rows \subseteq c /\ r.view.rows \subseteq Account
    BY DEF Sound, OwnCopies
  <1>1. found \subseteq r.view.rows
    BY DEF pick
  <1>2. PICK a : found = {a}
    <2>1. IsFiniteSet(found)
      BY <1>0, <1>1, FS_Subset
    <2> QED  BY <2>1, FS_Singleton
  <1>3. /\ s \in Self
        /\ s.left = r.left /\ s.phase = r.phase /\ s.result = r.result /\ s.view = r.view
        /\ s.op = r.op /\ s.name = r.name /\ s.change = r.change /\ s.startedAt = r.startedAt
        /\ s.chosen = found /\ s.chosenAt = t /\ s.expected = r.expected /\ s.outcome = r.outcome
    <2>1. found \in SUBSET Account
      BY <1>0, <1>1
    <2> HIDE DEF found
    <2> QED  BY <2>1 DEF Self
  <1> HIDE DEF s
  <1>4. InTime(s, t) /\ OwnCopies(s, c)
    BY <1>3 DEF Sound, InTime, OwnCopies
  <1>5. Creating(s, c) /\ Found(s, c) /\ Young(s, c)
    BY <1>3 DEF Sound, Creating, Found, Young
  <1>6. Sure(s, c)
    <2> SUFFICES ASSUME NEW b \in c, isBookable(b), b.at + ChartAge < t, b # a
                 PROVE  b.name # r.name /\ (a.name # r.name => Fold[b.name] # Fold[r.name])
      BY <1>2, <1>3 DEF Sure
    <2>1. b.at \in Nat /\ r.startedAt \in Nat
      BY DEF Account, Self
    <2>2. t <= r.startedAt + Timeout
      BY DEF Sound, InTime
    <2>3. ~(b.at + Timeout + Ttl > r.startedAt)
      BY <2>1, <2>2, Ceilings
    <2>4. b \notin Missed(c, r.view.rows)
      BY <2>3 DEF Sound, Young
    <2>5. b \in r.view.rows
      BY <2>4 DEF Missed
    <2> QED  BY <1>2, <2>5, OnlyOne
  <1>7. s \in Self /\ Sound(s, c, t) /\ s.left = r.left /\ s.phase = "running" /\ s.op = r.op
    BY <1>3, <1>4, <1>5, <1>6 DEF Sound
  <1> QED  BY <1>7 DEF s

-----------------------------------------------------------------------------
(* One step per action. *)

\* Nothing is made, cached or told at the start.
LEMMA InitIInv == Init => IInv
  <1> SUFFICES ASSUME Init PROVE IInv
    OBVIOUS
  <1>1. TypeOK
    <2>1. IsFiniteSet({}) /\ NoEntry \in [there : BOOLEAN, rows : SUBSET Account, expiresAt : Nat]
      BY FS_EmptySet DEF NoEntry
    <2> QED  BY <2>1, IdleIs DEF Init, TypeOK
  <1>2. CacheYoung(cache, chart, now)
    BY DEF Init, CacheYoung, NoEntry
  <1>3. Sound(Idle, {}, 0)
    <2>1. InTime(Idle, 0) /\ Creating(Idle, {}) /\ Found(Idle, {}) /\ Young(Idle, {}) /\ Sure(Idle, {})
      BY IdleIs DEF InTime, Creating, Found, Young, Sure
    <2>2. OwnCopies(Idle, {})
      BY IdleIs DEF OwnCopies, NoChart, NoChange
    <2> QED  BY <2>1, <2>2 DEF Sound
  <1> QED  BY <1>1, <1>2, <1>3 DEF Init, IInv

\* A step of one worker that leaves the chart or adds accounts made now, and leaves a sound
\* worker, a young cache and known names behind.
LEMMA Put ==
    ASSUME IInv, NEW w \in Workers, NEW s \in Self, worker' = [worker EXCEPT ![w] = s],
           now' = now, runs' \in Nat, chart' \in SUBSET Account, IsFiniteSet(chart'),
           chart \subseteq chart', \A b \in chart' : b \in chart \/ b.at = now,
           Sound(s, chart', now),
           cache' \in [there : BOOLEAN, rows : SUBSET Account, expiresAt : Nat], CacheYoung(cache', chart', now),
           told' \subseteq Names \cup {"none"}, \A name \in told' : Known(chart', name)
    PROVE  IInv'
  <1>0. worker \in [Workers -> Self] /\ now \in Nat /\ \A v \in Workers : Sound(worker[v], chart, now)
    BY DEF IInv, TypeOK
  <1>1. worker' \in [Workers -> Self]
    BY <1>0
  <1>2. TypeOK'
    BY <1>0, <1>1 DEF TypeOK
  <1>3. \A v \in Workers : Sound(worker'[v], chart', now)
    <2> TAKE v \in Workers
    <2>1. CASE v = w
      BY <1>0, <2>1
    <2>2. CASE v # w
      <3>1. worker'[v] = worker[v] /\ worker[v] \in Self
        BY <1>0, <2>2
      <3>2. Sound(worker[v], chart', now)
        BY <1>0, <3>1, Grow
      <3> QED  BY <3>1, <3>2
    <2> QED  BY <2>1, <2>2
  <1> QED  BY <1>2, <1>3 DEF IInv

\* A step of one worker that leaves everything else as it is.
LEMMA Own ==
    ASSUME IInv, NEW w \in Workers, NEW s \in Self, Step(w, s), chart' = chart, Sound(s, chart, now)
    PROVE  IInv'
  <1>1. /\ worker' = [worker EXCEPT ![w] = s] /\ UNCHANGED <<cache, told, runs, now, chart>>
    BY DEF Step
  <1> QED  BY <1>1, Put DEF IInv, TypeOK

\* An execution begins with a copy of the live entry.
LEMMA RunKeeps ==
    ASSUME IInv, NEW w \in Workers, NEW caller \in {"turn", "door"}, NEW op \in InUse,
           NEW name \in NamesFor(op), run(w, caller, op, name)
    PROVE  IInv'
  <1> DEFINE e == name \in told
             s == [Idle EXCEPT !.phase = "running", !.caller = caller, !.op = op, !.name = name,
                               !.left = Program[op], !.view = snapshot, !.startedAt = now,
                               !.expected = e]
  <1>0. now \in Nat /\ runs \in Nat /\ op \in Ops /\ cache.rows \subseteq Account /\ cache.there \in BOOLEAN
        /\ cache.expiresAt \in Nat /\ name \in Names \cup {"none"} /\ (op = "createAccount" => name \in Names)
    BY SourcesAssumption DEF IInv, TypeOK, Ops, NamesFor
  <1>1. /\ Program[op] \in Seq(Requests)
        /\ op = "createAccount" => Program[op] = <<"list", "create">>
        /\ op # "createAccount" => Program[op] \in Seq(Harmless)
    BY <1>0, ProgramIs
  <1>2. /\ snapshot \in [there : BOOLEAN, rows : SUBSET Account]
        /\ snapshot.rows \subseteq chart
        /\ snapshot.there => cache.there /\ cache.expiresAt > now /\ snapshot.rows = cache.rows
    BY <1>0 DEF snapshot, NoChart, IInv, CacheYoung
  <1>3. /\ s \in Self
        /\ s.phase = "running" /\ s.op = op /\ s.name = name /\ s.left = Program[op] /\ s.view = snapshot
        /\ s.startedAt = now /\ s.expected = e
        /\ s.change = NoChange /\ s.chosen = {} /\ s.chosenAt = 0 /\ s.outcome = "none"
    <2>1. e \in BOOLEAN
      OBVIOUS
    <2> HIDE DEF e
    <2> QED  BY <1>0, <1>1, <1>2, <2>1, IdleIs DEF Self
  <1>4. worker' = [worker EXCEPT ![w] = s]
    BY DEF run
  <1> HIDE DEF s
  <1>5. InTime(s, now)
    BY <1>0, <1>3, Ceilings DEF InTime
  <1>6. OwnCopies(s, chart)
    BY <1>2, <1>3 DEF OwnCopies, NoChange
  <1>7. Creating(s, chart) /\ Found(s, chart) /\ Sure(s, chart)
    BY <1>0, <1>1, <1>3 DEF Creating, Found, Sure, IInv
  <1>8. Young(s, chart)
    <2>1. s.change.op # "set"
      BY <1>3 DEF NoChange
    <2> SUFFICES ASSUME snapshot.there, NEW b \in Missed(chart, snapshot.rows)
                 PROVE  b.at + Timeout + Ttl > now
      BY <1>3, <2>1 DEF Young
    <2>2. b.at + Timeout + Ttl >= cache.expiresAt
      BY <1>2 DEF IInv, CacheYoung
    <2>3. b.at \in Nat
      BY DEF Missed, IInv, TypeOK, Account
    <2> QED  BY <1>0, <1>2, <2>2, <2>3, Ceilings
  <1>9. Sound(s, chart, now)
    BY <1>5, <1>6, <1>7, <1>8 DEF Sound
  <1>10. UNCHANGED <<chart, cache, told, now>> /\ runs' = runs + 1
    BY DEF run
  <1> QED  BY <1>0, <1>3, <1>4, <1>9, <1>10, Put DEF IInv, TypeOK

\* What the invariant says of one worker.
LEMMA OneOf ==
    ASSUME IInv, NEW w \in Workers
    PROVE  /\ worker[w] \in Self /\ Sound(worker[w], chart, now)
           /\ chart \in SUBSET Account /\ IsFiniteSet(chart) /\ now \in Nat /\ runs \in Nat
  BY DEF IInv, TypeOK

\* What a copy missed since its worker began is missed for the ceiling and the entry's life at most.
LEMMA Reach ==
    ASSUME NEW x \in Nat, NEW begun \in Nat, NEW t \in Nat, x >= begun, t <= begun + Timeout
    PROVE  x + Timeout + Ttl >= t + Ttl
  BY Ceilings

\* The expiry of an entry set now.
LEMMA Expiry == \A t \in Nat : t + Ttl \in Nat /\ t + Ttl <= t + Ttl
  BY Ceilings

\* finish: the outcome of a worker that is not over its ceiling.
LEMMA FinishKeeps ==
    ASSUME IInv, NEW w \in Workers, NEW o \in Results, NEW change, finish(w, o, change),
           worker[w].phase \in {"running", "posted"},
           change \in {NoChange, worker[w].change},
           worker[w].expected => o # "no account",
           worker[w].op = "createAccount" /\ o = "value" => Known(chart, worker[w].name),
           UNCHANGED <<chart, runs, now>>
    PROVE  IInv'
  <1> DEFINE r == worker[w]
  <1>0. /\ r \in Self /\ Sound(r, chart, now)
        /\ chart \in SUBSET Account /\ IsFiniteSet(chart) /\ now \in Nat /\ runs \in Nat
    BY OneOf
  <1>1. CASE r.settled
    <2>1. Gone(r) \in Self /\ Sound(Gone(r), chart, now)
      BY <1>0, SoundGone
    <2>2. worker' = [worker EXCEPT ![w] = Gone(r)] /\ UNCHANGED <<cache, told>>
      BY <1>1 DEF finish
    <2> QED  BY <1>0, <2>1, <2>2, Put DEF IInv, TypeOK
  <1>2. CASE ~r.settled
    <2> DEFINE q == [r EXCEPT !.outcome = o]
    <2>1. q \in Self /\ Sound(q, chart, now)
      BY <1>0, SoundOutcome
    <2>2. worker' = [worker EXCEPT ![w] = Gone(q)] /\ cache' = applyMutations(change)
          /\ told' = IF r.op = "createAccount" /\ o = "value" THEN told \cup {r.name} ELSE told
      BY <1>2 DEF finish
    <2> HIDE DEF q
    <2>3. Gone(q) \in Self /\ Sound(Gone(q), chart, now)
      BY <1>0, <2>1, SoundGone
    <2>4. /\ cache' \in [there : BOOLEAN, rows : SUBSET Account, expiresAt : Nat]
          /\ CacheYoung(cache', chart, now)
      <3>1. change \in [op : {"none", "set", "delete"}, rows : SUBSET Account]
        <4>1. r.change \in [op : {"none", "set", "delete"}, rows : SUBSET Account]
          BY <1>0 DEF Self
        <4>2. NoChange \in [op : {"none", "set", "delete"}, rows : SUBSET Account]
          BY DEF NoChange
        <4> QED  BY <4>1, <4>2
      <3>2. CASE change.op = "none"
        BY <2>2, <3>2 DEF applyMutations, IInv, TypeOK
      <3>3. CASE change.op = "delete"
        <4>1. cache' = NoEntry
          BY <2>2, <3>3 DEF applyMutations
        <4> QED  BY <4>1 DEF NoEntry, CacheYoung
      <3>4. CASE change.op = "set"
        <4>1. cache' = [there |-> TRUE, rows |-> change.rows, expiresAt |-> now + Ttl]
          BY <2>2, <3>4 DEF applyMutations
        <4>2. change = r.change
          <5>1. NoChange.op = "none"
            BY DEF NoChange
          <5> QED  BY <3>4, <5>1
        <4>3. change.rows \subseteq chart /\ now <= r.startedAt + Timeout
              /\ \A b \in Missed(chart, change.rows) : b.at >= r.startedAt
          BY <1>0, <3>4, <4>2 DEF Sound, OwnCopies, Young, InTime
        <4>4. \A b \in Missed(chart, change.rows) : b.at \in Nat
          BY <1>0 DEF Missed, Account
        <4>5. r.startedAt \in Nat
          BY <1>0 DEF Self
        <4>6. ASSUME NEW b \in Missed(chart, change.rows) PROVE b.at + Timeout + Ttl >= now + Ttl
          <5>1. b.at \in Nat /\ b.at >= r.startedAt
            BY <4>3, <4>4
          <5>2. now \in Nat /\ now <= r.startedAt + Timeout
            BY <1>0, <4>3
          <5> QED  BY <4>5, <5>1, <5>2, Reach
        <4>7. change.rows \in SUBSET Account /\ now + Ttl \in Nat /\ now + Ttl <= now + Ttl
          <5>1. change.rows \in SUBSET Account
            BY <3>1
          <5>2. now \in Nat
            BY <1>0
          <5> QED  BY <5>1, <5>2, Expiry
        <4>8. cache' \in [there : BOOLEAN, rows : SUBSET Account, expiresAt : Nat]
          BY <4>1, <4>7
        <4> QED  BY <4>1, <4>3, <4>6, <4>7, <4>8 DEF CacheYoung
      <3> QED  BY <3>1, <3>2, <3>3, <3>4
    <2>5. told' \subseteq Names \cup {"none"} /\ \A name \in told' : Known(chart, name)
      BY <1>0, <2>2 DEF IInv, TypeOK, Self
    <2> QED  BY <1>0, <2>2, <2>3, <2>4, <2>5, Put
  <1> QED  BY <1>1, <1>2

\* The message: an account said to be made is known, and no name it was to find is given up.
LEMMA MessageKeeps == ASSUME IInv, NEW w \in Workers, messageArrives(w) PROVE IInv'
  <1>1. worker[w] \in Self /\ Sound(worker[w], chart, now)
    BY OneOf
  <1>2. /\ worker[w].result \in Results /\ worker[w].phase = "posted"
        /\ worker[w].expected => worker[w].result # "no account"
        /\ worker[w].op = "createAccount" /\ worker[w].result = "value" => Known(chart, worker[w].name)
    BY <1>1 DEF messageArrives, Self, Sound, Found, Creating
  <1> QED  BY <1>2, FinishKeeps DEF messageArrives

\* A worker that dies leaves a failure and no change.
LEMMA DiesKeeps == ASSUME IInv, NEW w \in Workers, workerDies(w) PROVE IInv'
  <1>1. "failed" \in Results
    BY DEF Results
  <1> QED  BY <1>1, FinishKeeps DEF workerDies

\* The terminate timer settles an execution that runs on.
LEMMA TimerKeeps == ASSUME IInv, NEW w \in Workers, timerFires(w) PROVE IInv'
  <1> DEFINE r == worker[w]
             q == [r EXCEPT !.outcome = "timed out"]
             s == [q EXCEPT !.settled = TRUE]
  <1>0. r \in Self /\ Sound(r, chart, now) /\ now \in Nat /\ worker \in [Workers -> Self]
    BY OneOf DEF IInv, TypeOK
  <1>1. q \in Self /\ Sound(q, chart, now)
    <2>1. "timed out" \in Results
      BY DEF Results
    <2> QED  BY <1>0, <2>1, SoundOutcome
  <1>2. s = [r EXCEPT !.settled = TRUE, !.outcome = "timed out"]
    BY <1>0 DEF Self
  <1>3. worker' = [worker EXCEPT ![w] = s]
    BY <1>0, <1>2 DEF timerFires
  <1> HIDE DEF q
  <1>4. /\ s \in Self
        /\ s.left = q.left /\ s.phase = q.phase /\ s.result = q.result /\ s.view = q.view
        /\ s.op = q.op /\ s.name = q.name /\ s.change = q.change /\ s.startedAt = q.startedAt
        /\ s.chosen = q.chosen /\ s.chosenAt = q.chosenAt /\ s.expected = q.expected /\ s.outcome = q.outcome
    BY <1>1 DEF Self
  <1> HIDE DEF s
  <1>5. InTime(s, now) /\ OwnCopies(s, chart) /\ Creating(s, chart) /\ Found(s, chart)
    BY <1>1, <1>4 DEF Sound, InTime, OwnCopies, Creating, Found
  <1>6. Young(s, chart) /\ Sure(s, chart)
    BY <1>1, <1>4 DEF Sound, Young, Sure
  <1>7. Sound(s, chart, now)
    BY <1>5, <1>6 DEF Sound
  <1> QED  BY <1>3, <1>4, <1>7, Put DEF timerFires, IInv, TypeOK

\* A worker at a request: createAccount is at the list or at the account.
LEMMA AtRequest ==
    ASSUME IInv, NEW w \in Workers, NEW request \in Requests, Working(w, request),
           worker[w].op = "createAccount"
    PROVE  \/ request = "list" /\ worker[w].left = <<"list", "create">>
           \/ request = "create" /\ worker[w].left = <<"create">>
  <1>1. worker[w].left \in {<<"list", "create">>, <<"create">>} /\ Head(worker[w].left) = request
    BY OneOf DEF Sound, Creating, Working
  <1>2. Head(<<"list", "create">>) = "list" /\ Head(<<"create">>) = "create"
    OBVIOUS
  <1> QED  BY <1>1, <1>2

\* The chart is read, and a name that is on it already needs no account.
LEMMA LoadKeeps == ASSUME IInv, NEW w \in Workers, loadAccounts(w) PROVE IInv'
  <1> DEFINE r == worker[w]
             s == Loaded(r)
             known == s.op = "createAccount" /\ \E a \in Chart : Fold[a.name] = Fold[s.name]
  <1>0. r \in Self /\ Sound(r, chart, now) /\ chart \in SUBSET Account /\ now \in Nat
        /\ r.phase = "running" /\ r.left # <<>> /\ Working(w, "list")
    BY OneOf DEF loadAccounts, Working
  <1>1. /\ s \in Self /\ Sound(s, chart, now)
        /\ s.phase = "running" /\ s.left = r.left /\ s.op = r.op
    BY <1>0, LoadedIs, SoundLoaded
  <1>2. Step(w, IF known THEN Post(s, "value") ELSE Onward(s)) /\ chart' = chart
    BY DEF loadAccounts
  <1>3. "value" \in Results /\ "list" \in Requests
    BY DEF Results, Requests
  <1> HIDE DEF s
  <1>4. CASE known
    <2>1. Known(chart, s.name)
      BY <1>4 DEF Known, Chart
    <2>2. Post(s, "value") \in Self /\ Sound(Post(s, "value"), chart, now)
      BY <1>0, <1>1, <1>3, <2>1, SoundPost
    <2>3. Step(w, Post(s, "value"))
      BY <1>2, <1>4
    <2> QED  BY <1>2, <2>2, <2>3, Own
  <1>5. CASE ~known
    <2>1. s.op = "createAccount" => s.left = <<"list", "create">>
      BY <1>0, <1>1, <1>3, AtRequest
    <2>2. Onward(s) \in Self /\ Sound(Onward(s), chart, now)
      BY <1>0, <1>1, <2>1, SoundOnward
    <2>3. Step(w, Onward(s))
      BY <1>2, <1>5
    <2> QED  BY <1>2, <2>2, <2>3, Own
  <1> QED  BY <1>4, <1>5

\* A request that answers with something other than the chart.
LEMMA CallKeeps == ASSUME IInv, NEW w \in Workers, fireflyCall(w) PROVE IInv'
  <1> DEFINE r == worker[w]
  <1>0. r \in Self /\ Sound(r, chart, now) /\ now \in Nat
        /\ r.phase = "running" /\ r.left # <<>> /\ Working(w, "call")
    BY OneOf DEF fireflyCall, Working
  <1>1. r.op # "createAccount"
    <2>1. "call" \in Requests
      BY DEF Requests
    <2> QED  BY <1>0, <2>1, AtRequest
  <1>2. Onward(r) \in Self /\ Sound(Onward(r), chart, now)
    BY <1>0, <1>1, SoundOnward
  <1> QED  BY <1>2, Own DEF fireflyCall

\* A request that does not answer.
LEMMA FailsKeeps == ASSUME IInv, NEW w \in Workers, requestFails(w) PROVE IInv'
  <1> DEFINE r == worker[w]
  <1>0. r \in Self /\ Sound(r, chart, now) /\ now \in Nat /\ r.phase = "running"
    BY OneOf DEF requestFails
  <1>1. "failed" \in Results
    BY DEF Results
  <1>2. Post(r, "failed") \in Self /\ Sound(Post(r, "failed"), chart, now)
    BY <1>0, <1>1, SoundPost
  <1> QED  BY <1>2, Own DEF requestFails

\* A chart with one account more.
LEMMA AddIs ==
    ASSUME IInv, NEW name \in Names, NEW type \in {"expense", "asset", "initial-balance"},
           chart' = chart \cup {[id |-> Cardinality(chart), name |-> name, type |-> type, at |-> now]}
    PROVE  /\ chart' \in SUBSET Account /\ IsFiniteSet(chart') /\ chart \subseteq chart'
           /\ \A b \in chart' : b \in chart \/ b.at = now
           /\ CacheYoung(cache, chart', now)
           /\ \A n \in told : Known(chart', n)
           /\ type = "expense" => Known(chart', name)
  <1> DEFINE a == [id |-> Cardinality(chart), name |-> name, type |-> type, at |-> now]
  <1>0. /\ chart \in SUBSET Account /\ IsFiniteSet(chart) /\ now \in Nat /\ CacheYoung(cache, chart, now)
        /\ cache \in [there : BOOLEAN, rows : SUBSET Account, expiresAt : Nat]
        /\ \A n \in told : Known(chart, n)
    BY DEF IInv, TypeOK
  <1>1. a \in Account /\ a.at = now /\ a.name = name /\ a.type = type
    <2>1. Cardinality(chart) \in Nat
      BY <1>0, FS_CardinalityType
    <2> QED  BY <1>0, <2>1 DEF Account
  <1> HIDE DEF a
  <1>2. chart' = chart \cup {a}
    BY DEF a
  <1>3. /\ chart' \in SUBSET Account /\ chart \subseteq chart'
        /\ \A b \in chart' : b \in chart \/ b.at = now
    BY <1>0, <1>1, <1>2
  <1>4. IsFiniteSet(chart')
    BY <1>0, <1>2, FS_AddElement
  <1>5. CacheYoung(cache, chart', now)
    BY <1>0, <1>3, GrowCache
  <1>6. \A n \in told : Known(chart', n)
    BY <1>0, <1>3 DEF Known
  <1>7. type = "expense" => Known(chart', name)
    BY <1>1, <1>2, SourcesAssumption DEF Known, isBookable
  <1> QED  BY <1>3, <1>4, <1>5, <1>6, <1>7

\* The account is made, whether or not its answer arrives.
LEMMA CreateKeeps == ASSUME IInv, NEW w \in Workers, createAccount(w) PROVE IInv'
  <1> DEFINE r == worker[w]
             n == [r EXCEPT !.change = [op |-> "delete", rows |-> {}]]
  <1>0. r \in Self /\ Sound(r, chart, now) /\ now \in Nat /\ r.phase = "running" /\ r.left # <<>>
        /\ Working(w, "create")
    BY OneOf DEF createAccount, Working
  <1>1. r.name \in Names /\ r.op = "createAccount" /\ Known(chart', r.name)
        /\ chart' \in SUBSET Account /\ IsFiniteSet(chart') /\ chart \subseteq chart'
        /\ (\A b \in chart' : b \in chart \/ b.at = now)
        /\ CacheYoung(cache, chart', now) /\ \A name \in told : Known(chart', name)
    <2>1. Head(r.left) = "create"
      BY <1>0 DEF Working
    <2>2. r.op # "createAccount" => Head(r.left) \in Harmless
      <3>1. r.op # "createAccount" => r.left \in Seq(Harmless)
        BY <1>0 DEF Sound, Creating
      <3> QED  BY <1>0, <3>1
    <2>3. r.op = "createAccount" /\ r.name \in Names
      BY <1>0, <2>1, <2>2 DEF Harmless, Sound, Creating
    <2>4. chart' = chart \cup {[id |-> Cardinality(chart), name |-> r.name, type |-> "expense", at |-> now]}
      BY DEF createAccount
    <2> QED  BY <2>3, <2>4, AddIs
  <1>2. Sound(r, chart', now)
    BY <1>0, <1>1, Grow
  <1>3. n \in Self /\ Sound(n, chart', now) /\ n.phase = "running" /\ n.op = r.op /\ n.name = r.name
    <2>1. [op |-> "delete", rows |-> {}] \in [op : {"none", "set", "delete"}, rows : SUBSET Account]
      OBVIOUS
    <2>2. /\ n \in Self
          /\ n.left = r.left /\ n.phase = r.phase /\ n.result = r.result /\ n.view = r.view
          /\ n.op = r.op /\ n.name = r.name /\ n.change.op = "delete" /\ n.change.rows = {} /\ n.startedAt = r.startedAt
          /\ n.chosen = r.chosen /\ n.chosenAt = r.chosenAt /\ n.expected = r.expected /\ n.outcome = r.outcome
      BY <1>0, <2>1 DEF Self
    <2> HIDE DEF n
    <2>3. InTime(n, now) /\ OwnCopies(n, chart') /\ Creating(n, chart') /\ Found(n, chart')
      BY <1>2, <2>2 DEF Sound, InTime, OwnCopies, Creating, Found
    <2>4. Young(n, chart') /\ Sure(n, chart')
      BY <1>2, <2>2 DEF Sound, Young, Sure
    <2> QED  BY <1>0, <2>2, <2>3, <2>4 DEF Sound
  <1>4. "value" \in Results /\ "failed" \in Results
    BY DEF Results
  <1>5. PICK s : Step(w, s) /\ s \in {Post(n, "value"), Post(r, "failed")}
    BY DEF createAccount
  <1> HIDE DEF n
  <1>6. s \in Self /\ Sound(s, chart', now)
    <2>1. CASE s = Post(n, "value")
      BY <1>0, <1>1, <1>3, <1>4, <2>1, SoundPost
    <2>2. CASE s = Post(r, "failed")
      BY <1>0, <1>2, <1>4, <2>2, SoundPost
    <2> QED  BY <1>5, <2>1, <2>2
  <1>7. worker' = [worker EXCEPT ![w] = s] /\ UNCHANGED <<cache, told, runs, now>>
    BY <1>5 DEF Step
  <1> QED  BY <1>1, <1>6, <1>7, Put DEF IInv, TypeOK

\* The account a name means: from the copy, then from the chart, and given up only when the
\* chart itself has none.
LEMMA ResolveKeeps == ASSUME IInv, NEW w \in Workers, resolveAccountId(w) PROVE IInv'
  <1> DEFINE r == worker[w]
             cached == r.view.there /\ ~r.refreshed
             s == IF cached THEN r ELSE Loaded(r)
             found == pick(s.view.rows, s.name)
  <1>0. /\ r \in Self /\ Sound(r, chart, now) /\ chart \in SUBSET Account /\ IsFiniteSet(chart) /\ now \in Nat
        /\ r.phase = "running" /\ r.left # <<>> /\ Working(w, "resolve")
    BY OneOf DEF resolveAccountId, Working
  <1>1. r.op # "createAccount"
    <2>1. "resolve" \in Requests
      BY DEF Requests
    <2> QED  BY <1>0, <2>1, AtRequest
  <1>2. /\ s \in Self /\ Sound(s, chart, now) /\ s.view.there /\ s.phase = "running" /\ s.left = r.left
        /\ s.op = r.op /\ s.name = r.name /\ s.refreshed = r.refreshed /\ s.expected = r.expected
        /\ r.refreshed => s.view.rows = Chart
    <2>1. CASE cached
      BY <1>0, <2>1
    <2>2. CASE ~cached
      BY <1>0, <2>2, LoadedIs, SoundLoaded
    <2> QED  BY <2>1, <2>2
  <1>3. /\ Step(w, CASE Cardinality(found) = 1 -> Onward([s EXCEPT !.chosen = found, !.chosenAt = now])
                     [] Cardinality(found) > 1 -> Post(s, "ambiguous")
                     [] Cardinality(found) = 0 /\ ~s.refreshed -> [s EXCEPT !.refreshed = TRUE]
                     [] OTHER -> Post(s, "no account"))
        /\ chart' = chart
    BY DEF resolveAccountId
  <1> HIDE DEF s
  <1>4. s.view.rows \subseteq chart /\ found \subseteq s.view.rows /\ IsFiniteSet(found) /\ Cardinality(found) \in Nat
    <2>1. s.view.rows \subseteq chart /\ found \subseteq s.view.rows
      BY <1>2 DEF Sound, OwnCopies, pick
    <2> QED  BY <1>0, <2>1, FS_Subset, FS_CardinalityType
  <1>5. "ambiguous" \in Results /\ "no account" \in Results
    BY DEF Results
  <1>6. CASE Cardinality(found) = 1
    <2> DEFINE q == [s EXCEPT !.chosen = found, !.chosenAt = now]
    <2>1. q \in Self /\ Sound(q, chart, now) /\ q.left = s.left /\ q.phase = "running" /\ q.op = s.op
      BY <1>0, <1>2, <1>6, SoundChosen
    <2>2. Step(w, Onward(q))
      BY <1>3, <1>6
    <2> HIDE DEF q
    <2>3. Onward(q) \in Self /\ Sound(Onward(q), chart, now)
      BY <1>0, <1>1, <1>2, <2>1, SoundOnward
    <2> QED  BY <1>3, <2>2, <2>3, Own
  <1>7. CASE Cardinality(found) > 1
    <2>1. Step(w, Post(s, "ambiguous"))
      <3>1. Cardinality(found) # 1 /\ Cardinality(found) # 0
        BY <1>4, <1>7
      <3> QED  BY <1>3, <1>7, <3>1
    <2>2. Post(s, "ambiguous") \in Self /\ Sound(Post(s, "ambiguous"), chart, now)
      BY <1>0, <1>1, <1>2, <1>5, SoundPost
    <2> QED  BY <1>3, <2>1, <2>2, Own
  <1>8. CASE Cardinality(found) = 0 /\ ~s.refreshed
    <2> DEFINE q == [s EXCEPT !.refreshed = TRUE]
    <2>1. /\ q \in Self
          /\ q.left = s.left /\ q.phase = s.phase /\ q.result = s.result /\ q.view = s.view
          /\ q.op = s.op /\ q.name = s.name /\ q.change = s.change /\ q.startedAt = s.startedAt
          /\ q.chosen = s.chosen /\ q.chosenAt = s.chosenAt /\ q.expected = s.expected /\ q.outcome = s.outcome
      BY <1>2 DEF Self
    <2>2. Step(w, q)
      <3>1. Cardinality(found) # 1 /\ ~(Cardinality(found) > 1)
        BY <1>8
      <3> QED  BY <1>3, <1>8, <3>1
    <2> HIDE DEF q
    <2>3. InTime(q, now) /\ OwnCopies(q, chart) /\ Creating(q, chart) /\ Found(q, chart)
      BY <1>2, <2>1 DEF Sound, InTime, OwnCopies, Creating, Found
    <2>4. Young(q, chart) /\ Sure(q, chart)
      BY <1>2, <2>1 DEF Sound, Young, Sure
    <2>5. Sound(q, chart, now)
      BY <2>3, <2>4 DEF Sound
    <2> QED  BY <1>3, <2>1, <2>2, <2>5, Own
  <1>9. CASE Cardinality(found) = 0 /\ s.refreshed
    <2>1. s.expected = FALSE
      <3> SUFFICES ASSUME s.expected PROVE FALSE
        BY <1>2 DEF Self
      <3>1. Known(chart, s.name) /\ s.view.rows = Chart
        BY <1>2, <1>9 DEF Sound, Found
      <3>2. PICK a \in Chart : Fold[a.name] = Fold[s.name]
        BY <3>1 DEF Known, Chart
      <3>3. found # {}
        BY <3>1, <3>2 DEF pick
      <3> QED  BY <1>4, <1>9, <3>3, FS_EmptySet
    <2>2. Step(w, Post(s, "no account"))
      <3>1. Cardinality(found) # 1 /\ ~(Cardinality(found) > 1)
        BY <1>9
      <3> QED  BY <1>3, <1>9, <3>1
    <2>3. Post(s, "no account") \in Self /\ Sound(Post(s, "no account"), chart, now)
      BY <1>0, <1>1, <1>2, <1>5, <2>1, SoundPost
    <2> QED  BY <1>3, <2>2, <2>3, Own
  <1>10. Cardinality(found) = 0 \/ Cardinality(found) = 1 \/ Cardinality(found) > 1
    BY <1>4
  <1> QED  BY <1>6, <1>7, <1>8, <1>9, <1>10

\* The User's own account is one more to find and one more a copy has missed.
LEMMA UserKeeps ==
    ASSUME IInv, NEW name \in Names, NEW type \in {"asset", "initial-balance"}, UserAddsAccount(name, type)
    PROVE  IInv'
  <1>1. /\ chart' = chart \cup {[id |-> Cardinality(chart), name |-> name, type |-> type, at |-> now]}
        /\ UNCHANGED <<cache, worker, told, runs, now>>
    BY DEF UserAddsAccount
  <1>2. /\ chart' \in SUBSET Account /\ IsFiniteSet(chart') /\ chart \subseteq chart'
        /\ \A b \in chart' : b \in chart \/ b.at = now
        /\ CacheYoung(cache, chart', now) /\ \A n \in told : Known(chart', n)
    BY <1>1, AddIs
  <1>3. \A w \in Workers : Sound(worker[w], chart', now)
    BY <1>2, OneOf, Grow
  <1> QED  BY <1>1, <1>2, <1>3 DEF IInv, TypeOK

\* Time passes only while no execution is at its ceiling.
LEMMA TickKeeps == ASSUME IInv, Tick PROVE IInv'
  <1>1. now' = now + 1 /\ UNCHANGED <<chart, cache, worker, told, runs>> /\ now \in Nat
    BY DEF Tick, IInv, TypeOK
  <1>2. TypeOK'
    BY <1>1 DEF IInv, TypeOK
  <1>3. CacheYoung(cache, chart, now')
    <2>1. cache.expiresAt \in Nat
      BY DEF IInv, TypeOK
    <2>2. cache.there => cache.expiresAt <= now + Ttl
      BY DEF IInv, CacheYoung
    <2>3. cache.there => cache.expiresAt <= now' + Ttl
      BY <1>1, <2>1, <2>2, Ceilings
    <2> QED  BY <2>3 DEF IInv, CacheYoung
  <1>4. ASSUME NEW w \in Workers PROVE Sound(worker[w], chart, now')
    <2> DEFINE r == worker[w]
    <2>1. r \in Self /\ Sound(r, chart, now)
      BY OneOf
    <2>2. r.startedAt \in Nat /\ r.chosenAt \in Nat
      BY <2>1 DEF Self
    <2>3. r.phase \in {"running", "posted"} => ~(now >= r.startedAt + Timeout)
      BY DEF Tick, Expired
    <2>4. (r.phase \in {"running", "posted"} => r.startedAt <= now) /\ r.chosenAt <= now
      BY <2>1 DEF Sound, InTime
    <2> HIDE DEF r
    <2>5. InTime(r, now')
      BY <1>1, <2>2, <2>3, <2>4, Ceilings DEF InTime
    <2>6. Sound(r, chart, now')
      BY <2>1, <2>5 DEF Sound
    <2> QED  BY <2>6 DEF r
  <1> QED  BY <1>1, <1>2, <1>3, <1>4 DEF IInv

\* Every step of the host, of a worker, of the User and of the clock.
LEMMA NextIInv == IInv /\ [Next]_vars => IInv'
  <1> SUFFICES ASSUME IInv, [Next]_vars PROVE IInv'
    OBVIOUS
  <1>1. ASSUME NEW w \in Workers, NEW op \in InUse, NEW name \in NamesFor(op), Called(w, op, name) PROVE IInv'
    BY <1>1, RunKeeps DEF Called
  <1>2. ASSUME NEW w \in Workers, messageArrives(w) \/ workerDies(w) \/ timerFires(w) PROVE IInv'
    BY <1>2, MessageKeeps, DiesKeeps, TimerKeeps
  <1>3. ASSUME NEW w \in Workers, loadAccounts(w) \/ createAccount(w) \/ resolveAccountId(w) PROVE IInv'
    BY <1>3, LoadKeeps, CreateKeeps, ResolveKeeps
  <1>4. ASSUME NEW w \in Workers, fireflyCall(w) \/ requestFails(w) PROVE IInv'
    BY <1>4, CallKeeps, FailsKeeps
  <1>5. ASSUME NEW name \in Names, NEW type \in {"asset", "initial-balance"}, UserAddsAccount(name, type)
        PROVE IInv'
    BY <1>5, UserKeeps
  <1>6. CASE Tick
    BY <1>6, TickKeeps
  <1>7. CASE UNCHANGED vars
    BY <1>7 DEF vars, IInv, TypeOK
  <1> QED  BY <1>1, <1>2, <1>3, <1>4, <1>5, <1>6, <1>7 DEF Next

\* The inductive invariant, in every reachable state.
LEMMA Invariant == Spec => []IInv
  BY InitIInv, NextIInv, PTL DEF Spec

-----------------------------------------------------------------------------

(***************************************************************************)
(* Type correctness of the host: the records of the workers, the cache     *)
(* entry and Firefly's finite chart, through every order of messages,      *)
(* deaths and timers.                                                      *)
(***************************************************************************)
THEOREM TypeCorrect == Spec => []TypeOK
  <1>1. IInv => TypeOK
    BY DEF IInv
  <1> QED  BY <1>1, Invariant, PTL

(***************************************************************************)
(* createAccount then resolveAccountId (prelude.ts, host.ts): an account   *)
(* that was told to be made is found by every call that starts later, for  *)
(* any number of workers and whatever chart a late message puts back into  *)
(* the host's cache.                                                       *)
(***************************************************************************)
THEOREM CreatedIsFound == Spec => []CreatedIsResolvable
  <1>1. IInv => CreatedIsResolvable
    BY DEF IInv, Sound, Found, CreatedIsResolvable
  <1> QED  BY <1>1, Invariant, PTL

(***************************************************************************)
(* resolveAccountId (prelude.ts) on a cached chart (HostCache, host.ts):   *)
(* the account chosen is the only one the name could mean among those      *)
(* older than two ceilings of an execution and one life of a cache entry,  *)
(* for every timeout and every life.                                       *)
(***************************************************************************)
THEOREM NoNameIsGuessed == Spec => []NeverGuesses
  <1>1. IInv => NeverGuesses
    <2> SUFFICES ASSUME IInv, NEW w \in Workers, NEW a \in worker[w].chosen,
                        NEW b \in {c \in Chart : c.at + ChartAge < worker[w].chosenAt} \ {a}
                 PROVE  /\ b.name # worker[w].name
                        /\ a.name # worker[w].name => Fold[b.name] # Fold[worker[w].name]
      BY DEF NeverGuesses
    <2>1. b \in chart /\ isBookable(b) /\ b.at + ChartAge < worker[w].chosenAt /\ b # a
      BY DEF Chart
    <2>2. Sure(worker[w], chart)
      BY DEF IInv, Sound
    <2> QED  BY <2>1, <2>2 DEF Sure
  <1> QED  BY <1>1, Invariant, PTL

-----------------------------------------------------------------------------
(* What the bookkeeping Sources work out from Firefly's answers. *)

Books == INSTANCE Books

\* A set of numbers that is not empty has a least one.
LEMMA LeastExists ==
    ASSUME NEW S, S \subseteq Nat, S # {}
    PROVE  \E x \in S : \A y \in S : x <= y
  <1>1. PICK x \in S : \A y \in S : ~(<<y, x>> \in OpToRel(<, Nat))
    BY NatLessThanWellFounded, WFMin
  <1>2. ASSUME NEW y \in S  PROVE x <= y
    <2>1. x \in Nat /\ y \in Nat
      OBVIOUS
    <2>2. y < x => <<y, x>> \in OpToRel(<, Nat)
      BY <2>1 DEF OpToRel
    <2>3. ~(y < x)
      BY <1>1, <2>2
    <2> QED  BY <2>1, <2>3
  <1> QED  BY <1>2

\* The first of a set of positions, if there is one.
LEMMA FirstFound ==
    ASSUME NEW n \in Nat, NEW S, S \subseteq 1..n, S # {}
    PROVE  Books!Min(S) \in S
  <1>1. S \subseteq Nat
    OBVIOUS
  <1>2. \E x \in S : \A y \in S : x =< y
    BY <1>1, LeastExists
  <1> QED  BY <1>2, Zenon DEF Books!Min

\* What findByExternalId finds is live and bears the key, and it overlooks nothing that does.
LEMMA FoundByKey ==
    ASSUME NEW n \in Nat, NEW ledger, DOMAIN ledger = 1..n, NEW key
    PROVE  LET i == Books!findByExternalId(ledger, key)
           IN  /\ i # 0 => i \in 1..n /\ ledger[i].alive /\ ledger[i].key = key
               /\ i = 0 => \A j \in 1..n : ~(ledger[j].alive /\ ledger[j].key = key)
  <1> DEFINE S == {i \in 1..n : ledger[i].alive /\ ledger[i].key = key}
  <1>1. Books!findByExternalId(ledger, key) = IF S = {} THEN 0 ELSE Books!Min(S)
    BY DEF Books!findByExternalId, Books!FirstOf
  <1>2. S # {} => Books!Min(S) \in S
    BY FirstFound
  <1> QED  BY <1>1, <1>2

\* Likewise findSamePostingForThing: live, for the Thing and of the same content.
LEMMA FoundForThing ==
    ASSUME NEW n \in Nat, NEW ledger, DOMAIN ledger = 1..n, NEW thing, NEW wanted
    PROVE  LET i == Books!findSamePostingForThing(ledger, thing, wanted)
               Same(j) == ledger[j].alive /\ ledger[j].thing = thing /\ Books!samePosting(wanted, ledger[j].splits)
           IN  /\ i # 0 => i \in 1..n /\ Same(i)
               /\ i = 0 => \A j \in 1..n : ~Same(j)
  <1> DEFINE Same(j) == ledger[j].alive /\ ledger[j].thing = thing /\ Books!samePosting(wanted, ledger[j].splits)
             S == {i \in 1..n : Same(i)}
  <1>1. Books!findSamePostingForThing(ledger, thing, wanted) = IF S = {} THEN 0 ELSE Books!Min(S)
    BY DEF Books!findSamePostingForThing, Books!FirstOf
  <1>2. S # {} => Books!Min(S) \in S
    BY FirstFound
  <1> QED  BY <1>1, <1>2

\* Firefly's index of hashes holds what was deleted, too.
LEMMA FoundByHash ==
    ASSUME NEW n \in Nat, NEW ledger, DOMAIN ledger = 1..n, NEW p
    PROVE  LET i == Books!hashed(ledger, p)
               Same(j) == ledger[j].key = p.key /\ ledger[j].splits = p.splits
           IN  /\ i # 0 => i \in 1..n /\ Same(i)
               /\ i = 0 => \A j \in 1..n : ~Same(j)
  <1> DEFINE Same(j) == ledger[j].key = p.key /\ ledger[j].splits = p.splits
             S == {i \in 1..n : Same(i)}
  <1>1. Books!hashed(ledger, p) = IF S = {} THEN 0 ELSE Books!Min(S)
    BY DEF Books!hashed, Books!FirstOf
  <1>2. S # {} => Books!Min(S) \in S
    BY FirstFound
  <1> QED  BY <1>1, <1>2

\* The journal Firefly names in its refusal is the one the hash found.
LEMMA VictimIsNamed ==
    ASSUME NEW h \in Nat
    PROVE  Books!duplicateHashVictim(IF h = 0 THEN 200 ELSE 422, <<0, h>>) = h
  <1>1. ASSUME NEW m, m = <<0, h>>
        PROVE  Books!duplicateHashVictim(IF h = 0 THEN 200 ELSE 422, m) = h
    <2> DEFINE S == {i \in DOMAIN m : m[i] # 0}
               status == IF h = 0 THEN 200 ELSE 422
               i == IF S = {} THEN 0 ELSE Books!Min(S)
    <2>1. DOMAIN m = 1..2 /\ m[1] = 0 /\ m[2] = h
      BY <1>1
    <2>2. Books!duplicateHashVictim(status, m) = IF status = 422 /\ i # 0 THEN m[i] ELSE 0
      BY DEF Books!duplicateHashVictim, Books!FirstOf
    <2>3. CASE h = 0
      <3>1. status = 200
        BY <2>3
      <3> QED  BY <2>2, <2>3, <3>1
    <2>4. CASE h # 0
      <3>1. status = 422
        BY <2>4
      <3>2. \A j : j \in S <=> j = 2
        BY <2>1, <2>4
      <3>3. S \subseteq 1..2 /\ S # {}
        BY <3>2
      <3>4. Books!Min(S) \in S
        <4> HIDE DEF S
        <4> QED  BY <3>3, FirstFound
      <3>5. i = 2
        BY <3>2, <3>3, <3>4
      <3>6. (IF status = 422 /\ i # 0 THEN m[i] ELSE 0) = h
        <4> HIDE DEF i, status
        <4> QED  BY <2>1, <3>1, <3>5
      <3> QED  BY <2>2, <3>6
    <2> QED  BY <2>3, <2>4
  <1> QED  BY <1>1

\* Something was booked.
Made(r) == r.id # 0 /\ ~r.alreadyExisted

\* A live journal that is the posting's own: under its key, or the same content for its Thing.
Existing(l, i, p) ==
    /\ l[i].alive
    /\ \/ l[i].key = p.key
       \/ p.thing # "none" /\ l[i].thing = p.thing /\ Books!samePosting(p.splits, l[i].splits)

(***************************************************************************)
(* "Safe to retry, three ways" (postTransaction.ts), for every ledger,     *)
(* posting, chart and answer of Firefly's: a journal is made only where no *)
(* live one is the posting's own and every split fits its account's books, *)
(* and over a hash that Firefly knows only if Firefly says 401 or 404 of   *)
(* it; what is said to have existed is live and the posting's own; and a   *)
(* retry under a live journal's key is told of a journal of that key.      *)
(***************************************************************************)
THEOREM PostingIsSafeToRetry ==
    ASSUME NEW J, NEW ledger \in Seq(J), NEW p, NEW accounts, NEW probe
    PROVE  LET r == Books!postTransaction(ledger, p, accounts, probe) IN
           /\ Made(r) => /\ r.id = Len(ledger) + 1
                         /\ \A i \in DOMAIN ledger : ~Existing(ledger, i, p)
                         /\ \A i \in DOMAIN p.asked : Books!currencyFits(accounts, p.asked[i])
                         /\ \A i \in DOMAIN ledger :
                              ledger[i].key = p.key /\ ledger[i].splits = p.splits => probe \in {401, 404}
           /\ r.alreadyExisted => r.id \in DOMAIN ledger /\ Existing(ledger, r.id, p)
           /\ p.splits # <<>> /\ (\E i \in DOMAIN ledger : ledger[i].alive /\ ledger[i].key = p.key)
                => r.alreadyExisted /\ ledger[r.id].key = p.key
  <1> DEFINE n == Len(ledger)
             byKey == Books!findByExternalId(ledger, p.key)
             byThing == IF p.thing = "none" THEN 0
                        ELSE Books!findSamePostingForThing(ledger, p.thing, p.splits)
             hash == Books!hashed(ledger, p)
             victim == Books!duplicateHashVictim(IF hash = 0 THEN 200 ELSE 422, <<0, hash>>)
             gone == victim # 0 /\ ~Books!transactionExists(IF ledger[victim].alive THEN 200 ELSE probe)
             unfit == \E i \in DOMAIN p.asked : ~Books!currencyFits(accounts, p.asked[i])
             Existed(i) == [id |-> i, alreadyExisted |-> TRUE]
             Refused == [id |-> 0, alreadyExisted |-> FALSE]
             r == Books!postTransaction(ledger, p, accounts, probe)
  <1>1. n \in Nat /\ DOMAIN ledger = 1..n
    OBVIOUS
  <1>2. r = IF p.splits = <<>> THEN Refused
            ELSE IF byKey # 0 THEN Existed(byKey)
            ELSE IF unfit THEN Refused
            ELSE IF byThing # 0 THEN Existed(byThing)
            ELSE IF victim = 0 \/ gone THEN [id |-> n + 1, alreadyExisted |-> FALSE]
            ELSE Refused
    BY DEF Books!postTransaction
  <1>3. /\ byKey # 0 => byKey \in 1..n /\ ledger[byKey].alive /\ ledger[byKey].key = p.key
        /\ byKey = 0 => \A j \in 1..n : ~(ledger[j].alive /\ ledger[j].key = p.key)
    BY <1>1, FoundByKey
  <1>4. p.thing # "none" =>
          /\ byThing # 0 => /\ byThing \in 1..n /\ ledger[byThing].alive /\ ledger[byThing].thing = p.thing
                            /\ Books!samePosting(p.splits, ledger[byThing].splits)
          /\ byThing = 0 => \A j \in 1..n : ~(/\ ledger[j].alive /\ ledger[j].thing = p.thing
                                               /\ Books!samePosting(p.splits, ledger[j].splits))
    BY <1>1, FoundForThing
  <1>5. p.thing = "none" => byThing = 0
    OBVIOUS
  <1>6. /\ hash # 0 => hash \in 1..n /\ ledger[hash].key = p.key /\ ledger[hash].splits = p.splits
        /\ hash = 0 => \A j \in 1..n : ~(ledger[j].key = p.key /\ ledger[j].splits = p.splits)
    BY <1>1, FoundByHash
  <1>7. victim = hash
    <2>1. hash \in Nat
      BY <1>1, <1>6
    <2> HIDE DEF hash
    <2> QED  BY <2>1, VictimIsNamed
  <1>8. gone => victim # 0 /\ (~ledger[victim].alive => probe \in {401, 404})
    BY DEF Books!transactionExists
  <1>9. gone => ~ledger[victim].alive
    BY DEF Books!transactionExists
  <1> HIDE DEF n, byKey, byThing, hash, victim, gone, unfit, r
  <1>10. CASE p.splits = <<>> \/ (byKey = 0 /\ unfit)
    <2>1. r = Refused
      BY <1>2, <1>10
    <2>2. \A i \in DOMAIN ledger : p.splits # <<>> => ~(ledger[i].alive /\ ledger[i].key = p.key)
      BY <1>1, <1>3, <1>10
    <2> QED  BY <2>1, <2>2 DEF Made, r
  <1>11. CASE p.splits # <<>> /\ byKey # 0
    <2>1. r = Existed(byKey)
      BY <1>2, <1>11
    <2> QED  BY <1>1, <1>3, <1>11, <2>1 DEF Made, Existing, r
  <1>12. CASE p.splits # <<>> /\ byKey = 0 /\ ~unfit
    <2>1. \A j \in DOMAIN ledger : ~(ledger[j].alive /\ ledger[j].key = p.key)
      BY <1>1, <1>3, <1>12
    <2>2. CASE byThing # 0
      <3>1. r = Existed(byThing)
        BY <1>2, <1>12, <2>2
      <3>2. byThing \in DOMAIN ledger /\ Existing(ledger, byThing, p)
        BY <1>1, <1>4, <1>5, <2>2 DEF Existing
      <3> QED  BY <2>1, <3>1, <3>2 DEF Made, r
    <2>3. CASE byThing = 0 /\ ~(victim = 0 \/ gone)
      <3>1. r = Refused
        BY <1>2, <1>12, <2>3
      <3> QED  BY <2>1, <3>1 DEF Made, r
    <2>4. CASE byThing = 0 /\ (victim = 0 \/ gone)
      <3>1. r = [id |-> n + 1, alreadyExisted |-> FALSE]
        BY <1>2, <1>12, <2>4
      <3>2. \A i \in DOMAIN ledger : ~Existing(ledger, i, p)
        BY <1>1, <1>4, <2>1, <2>4 DEF Existing
      <3>3. \A i \in DOMAIN ledger : ledger[i].key = p.key /\ ledger[i].splits = p.splits => probe \in {401, 404}
        BY <1>1, <1>6, <1>7, <1>8, <1>9, <2>4
      <3>4. \A i \in DOMAIN p.asked : Books!currencyFits(accounts, p.asked[i])
        BY <1>12 DEF unfit
      <3> QED  BY <2>1, <3>1, <3>2, <3>3, <3>4 DEF Made, r, n
    <2> QED  BY <2>2, <2>3, <2>4
  <1> QED  BY <1>10, <1>11, <1>12

\* No two live journals bear one key.
KeysAreUnique(l) ==
    \A i, j \in DOMAIN l : l[i].alive /\ l[j].alive /\ l[i].key = l[j].key => i = j

\* What the User's deletions leave of a ledger.
Deleted(l, left) ==
    /\ Len(left) = Len(l)
    /\ \A i \in DOMAIN left : left[i].key = l[i].key /\ (left[i].alive => l[i].alive)

(***************************************************************************)
(* The externalId of postTransaction.ts names one journal: whatever is     *)
(* booked and whatever the User deletes, in any order and however often a  *)
(* posting is tried, no two live journals bear one key.                    *)
(***************************************************************************)
THEOREM KeyIsBookedOnce ==
    ASSUME NEW J, NEW ledger \in Seq(J), KeysAreUnique(ledger)
    PROVE  /\ \A p, accounts, probe, made :
                Made(Books!postTransaction(ledger, p, accounts, probe)) /\ made.key = p.key
                   => KeysAreUnique(Append(ledger, made))
           /\ \A left \in Seq(J) : Deleted(ledger, left) => KeysAreUnique(left)
  <1>1. Len(ledger) \in Nat /\ DOMAIN ledger = 1..Len(ledger)
    OBVIOUS
  <1>2. ASSUME NEW p, NEW accounts, NEW probe, NEW made,
               Made(Books!postTransaction(ledger, p, accounts, probe)), made.key = p.key
        PROVE  KeysAreUnique(Append(ledger, made))
    <2>1. \A i \in DOMAIN ledger : ~Existing(ledger, i, p)
      BY <1>2, PostingIsSafeToRetry
    <2>2. \A i \in 1..Len(ledger) : ~(ledger[i].alive /\ ledger[i].key = made.key)
      BY <1>1, <1>2, <2>1 DEF Existing
    <2> DEFINE l == Append(ledger, made)
    <2>3. l \in Seq(J \cup {made})
      OBVIOUS
    <2>4. DOMAIN l = 1..(Len(ledger) + 1)
      BY <1>1
    <2>5. \A i \in 1..Len(ledger) : l[i] = ledger[i]
      BY <1>1
    <2>6. l[Len(ledger) + 1] = made
      BY <1>1
    <2>7. \A i \in DOMAIN l : i \in 1..Len(ledger) \/ i = Len(ledger) + 1
      BY <1>1, <2>4
    <2> HIDE DEF l
    <2>8. \A i, j \in DOMAIN l : l[i].alive /\ l[j].alive /\ l[i].key = l[j].key => i = j
      <3> SUFFICES ASSUME NEW i \in DOMAIN l, NEW j \in DOMAIN l,
                          l[i].alive, l[j].alive, l[i].key = l[j].key
                   PROVE  i = j
        OBVIOUS
      <3>1. CASE i \in 1..Len(ledger) /\ j \in 1..Len(ledger)
        BY <1>1, <2>5, <3>1 DEF KeysAreUnique
      <3>2. CASE i \in 1..Len(ledger) /\ j = Len(ledger) + 1
        BY <2>2, <2>5, <2>6, <3>2
      <3>3. CASE j \in 1..Len(ledger) /\ i = Len(ledger) + 1
        BY <2>2, <2>5, <2>6, <3>3
      <3> QED  BY <2>7, <3>1, <3>2, <3>3
    <2> QED  BY <2>8 DEF KeysAreUnique, l
  <1>3. ASSUME NEW left \in Seq(J), Deleted(ledger, left)
        PROVE  KeysAreUnique(left)
    <2>1. DOMAIN left = DOMAIN ledger
      BY <1>1, <1>3 DEF Deleted
    <2> QED  BY <1>3, <2>1 DEF Deleted, KeysAreUnique
  <1> QED  BY <1>2, <1>3

=============================================================================
