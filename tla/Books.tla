-------------------------------- MODULE Books --------------------------------
(***************************************************************************)
(* What the bookkeeping Sources (import/operations/bookkeeping) work out    *)
(* from Firefly's answers, apart from the requests they make for it.  The   *)
(* requests, the cache and the workers are in OperationHost.               *)
(*                                                                         *)
(* A name is taken without its case here, as Fold leaves it; an amount is  *)
(* a number of cents, NoAmount what is no finite number.                   *)
(***************************************************************************)
EXTENDS Integers, Sequences, FiniteSets, FiniteSetsExt

NoAmount == -1

FirstOf(seq, P(_)) == LET hits == {i \in DOMAIN seq : P(seq[i])} IN IF hits = {} THEN 0 ELSE Min(hits)

----------------------------------------------------------------------------
(* Names. *)

\* The first account of that name keeps its books in ...
currencyOf(accounts, name) ==
    LET i == FirstOf(accounts, LAMBDA a : a.name = name) IN IF i = 0 THEN "unknown" ELSE accounts[i].currency

\* The cached categories, or the ones Firefly has now; 0 is the error that lists them.
resolveCategoryId(cached, fresh, name) ==
    LET pick(rows) == FirstOf(rows, LAMBDA c : c.name = name)
        found == pick(cached)
        retry == pick(fresh)
    IN  IF found # 0 THEN cached[found].id ELSE IF retry # 0 THEN fresh[retry].id ELSE 0

----------------------------------------------------------------------------
(* A booking.  The ledger is the sequence of everything ever booked: a journal the *)
(* User deleted leaves every search and stays in Firefly's index of hashes.       *)

\* Money, date, type and both accounts agree, and the money is some.
sameSplit(wanted, booked) == wanted = booked /\ wanted.amount # NoAmount

\* As many, and each one wanted is among the booked.
samePosting(wanted, booked) ==
    /\ Len(booked) = Len(wanted)
    /\ \A i \in DOMAIN wanted : \E j \in DOMAIN booked : sameSplit(wanted[i], booked[j])

findByExternalId(ledger, key) == FirstOf(ledger, LAMBDA j : j.alive /\ j.key = key)

findSamePostingForThing(ledger, thing, wanted) ==
    FirstOf(ledger, LAMBDA j : j.alive /\ j.thing = thing /\ samePosting(wanted, j.splits))

\* Firefly with error_if_duplicate_hash: the number of the journal it takes this for.
hashed(ledger, posting) == FirstOf(ledger, LAMBDA j : j.key = posting.key /\ j.splits = posting.splits)

\* The number is in one of the messages, whichever field it is filed under.
duplicateHashVictim(status, messages) ==
    LET i == FirstOf(messages, LAMBDA said : said # 0) IN IF status = 422 /\ i # 0 THEN messages[i] ELSE 0

\* Only these two say it is gone.
transactionExists(status) == status \notin {401, 404}

\* The source account's currency is the posting's, where both are known.
currencyFits(accounts, split) ==
    LET kept == currencyOf(accounts, split.source)
    IN  split.currency = "unset" \/ kept = "unknown" \/ kept = split.currency

\* execute: a journal's number and whether it was there, or a refusal that books nothing.
\* `probe' is Firefly's answer about a journal that is gone.
postTransaction(ledger, posting, accounts, probe) ==
    LET byKey == findByExternalId(ledger, posting.key)
        byThing == IF posting.thing = "none" THEN 0
                   ELSE findSamePostingForThing(ledger, posting.thing, posting.splits)
        hash == hashed(ledger, posting)
        victim == duplicateHashVictim(IF hash = 0 THEN 200 ELSE 422, <<0, hash>>)
        gone == victim # 0 /\ ~transactionExists(IF ledger[victim].alive THEN 200 ELSE probe)
        Existed(i) == [id |-> i, alreadyExisted |-> TRUE]
        Refused == [id |-> 0, alreadyExisted |-> FALSE]
    IN  IF posting.splits = <<>> THEN Refused
        ELSE IF byKey # 0 THEN Existed(byKey)
        ELSE IF \E i \in DOMAIN posting.asked : ~currencyFits(accounts, posting.asked[i]) THEN Refused
        ELSE IF byThing # 0 THEN Existed(byThing)
        ELSE IF victim = 0 \/ gone THEN [id |-> Len(ledger) + 1, alreadyExisted |-> FALSE]
        ELSE Refused

\* After an interruption: what landed under the key, or nothing was posted.
reconcile(ledger, key) == findByExternalId(ledger, key)

----------------------------------------------------------------------------
(* A refusal in the model's own words. *)

FIREFLY_FIELD_NAMES ==
    [source_id |-> "sourceAccount", source_name |-> "sourceAccount", destination_id |-> "destinationAccount",
     destination_name |-> "destinationAccount", budget_name |-> "budgetName", category_id |-> "categoryName",
     category_name |-> "categoryName", currency_code |-> "currencyCode", amount |-> "amount", date |-> "date",
     description |-> "description", type |-> "type", notes |-> "notes"]

\* An error names a posting (the first, where it names none) and a field of Firefly's; a
\* line is said once.
describeRejection(errors, splits) ==
    LET Line(e) ==
            LET known == e.field \in DOMAIN FIREFLY_FIELD_NAMES
                label == IF known THEN FIREFLY_FIELD_NAMES[e.field] ELSE e.field
                given == known /\ e.index \in DOMAIN splits /\ label \in DOMAIN splits[e.index]
            IN  [label |-> label, where |-> IF Len(splits) > 1 THEN e.index ELSE 0,
                 supplied |-> IF given THEN splits[e.index][label] ELSE "nothing", said |-> e.said]
    IN  {Line(errors[i]) : i \in DOMAIN errors}

\* One row per split, each under the number of its group.
projectTransactionGroup(id, splits) == [i \in DOMAIN splits |-> [transactionId |-> id, split |-> splits[i]]]

----------------------------------------------------------------------------
(* The budgets of a period. *)

Abs(n) == IF n < 0 THEN -n ELSE n

\* The largest limit of a budget; none is not a limit of nothing.
limitOf(limits, budget) ==
    LET rows == {i \in DOMAIN limits : limits[i].budget = budget /\ limits[i].amount # NoAmount}
    IN  IF rows = {} THEN NoAmount ELSE limits[CHOOSE i \in rows : \A j \in rows : limits[i].amount >= limits[j].amount].amount

\* What was spent is the sum of what each currency says, whatever its sign.
getBudgetReport(budgets, limits) ==
    [i \in DOMAIN budgets |->
        [id |-> budgets[i].id, limit |-> limitOf(limits, budgets[i].id),
         spent |-> MapThenSumSet(LAMBDA k : Abs(budgets[i].spent[k]), DOMAIN budgets[i].spent)]]
=============================================================================
