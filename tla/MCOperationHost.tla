--------------------------- MODULE MCOperationHost ---------------------------
(* An instance of OperationHost: two spellings of one account name. *)
EXTENDS OperationHost, Integers, TLC

CONSTANTS w1, w2

MCNames == {"Rent", "rent"}
MCFold == [n \in MCNames |-> "rent"]
MCSymmetry == Permutations(Workers)

----------------------------------------------------------------------------
(* What the Sources work out, over every ledger of up to two journals.      *)
B == INSTANCE Books

Split(cents) == [amount |-> cents, date |-> "today", type |-> "withdrawal", source |-> "1", destination |-> "2"]
Splits == {<<Split(1)>>, <<Split(1), Split(1)>>, <<Split(1), Split(2)>>, <<Split(B!NoAmount)>>}
Journals == [key : {"k1", "k2"}, thing : {"none", "t"}, splits : Splits, alive : BOOLEAN]
Ledgers == {<<>>} \cup {<<j>> : j \in Journals} \cup {<<j, k>> : j, k \in Journals}
Postings == {[key |-> "k1", thing |-> t, splits |-> s, asked |-> <<[source |-> "rent", currency |-> c]>>] :
                t \in {"none", "t"}, s \in Splits \cup {<<>>}, c \in {"unset", "EUR", "USD"}}
Accounts == {<<>>, <<[name |-> "rent", currency |-> "EUR"]>>,
             <<[name |-> "rent", currency |-> "USD"], [name |-> "rent", currency |-> "EUR"]>>}

\* The same journals, however they are ordered: how often each split occurs.
SameBag(s, t) == Len(s) = Len(t) /\ \A x \in {s[i] : i \in DOMAIN s} \cup {t[i] : i \in DOMAIN t} :
    Cardinality({i \in DOMAIN s : s[i] = x}) = Cardinality({i \in DOMAIN t : t[i] = x})

(***************************************************************************)
(* "Safe to retry, three ways" (postTransaction.ts): nothing is booked     *)
(* beside a live journal of the same key or, for the same Thing, of the    *)
(* same content; what the User deleted can be booked again unless Firefly  *)
(* will not say that it is gone; and what is said to have existed is live. *)
(***************************************************************************)
ASSUME SafeToRetry ==
    \A ledger \in Ledgers, p \in Postings, accounts \in Accounts, probe \in {401, 404, 500} :
        LET r == B!postTransaction(ledger, p, accounts, probe)
            booked == r.id # 0 /\ ~r.alreadyExisted
            Live(j) == ledger[j].alive
        IN  /\ booked => \A j \in DOMAIN ledger : Live(j) =>
                  /\ ledger[j].key # p.key
                  /\ p.thing # "none" /\ ledger[j].thing = p.thing /\ SameBag(p.splits, ledger[j].splits)
                         => p.splits = <<Split(B!NoAmount)>>
            /\ booked /\ p.asked[1].currency # "unset" => accounts = <<>> \/ accounts[1].currency = p.asked[1].currency
            /\ r.alreadyExisted => Live(r.id) /\ (ledger[r.id].key = p.key \/ ledger[r.id].thing = p.thing)
            /\ r.id = 0 /\ p.splits # <<>> =>
                  \/ probe = 500 \/ accounts # <<>>

\* An interruption finds exactly what landed under the key and is still there.
ASSUME ReconcileFindsWhatLanded ==
    \A ledger \in Ledgers :
        (B!reconcile(ledger, "k1") # 0) = (\E j \in DOMAIN ledger : ledger[j].alive /\ ledger[j].key = "k1")

\* A typo creates no category, and one that was made after the cache is found.
ASSUME CategoryIsKnown ==
    LET Lists == {<<>>} \cup {<<c>> : c \in [id : {1, 2}, name : {"food", "rent"}]} IN
    \A cached, fresh \in Lists :
        LET id == B!resolveCategoryId(cached, fresh, "food") IN
        /\ id # 0 => \E list \in {cached, fresh} : \E i \in DOMAIN list : list[i] = [id |-> id, name |-> "food"]
        /\ id = 0 => \A i \in DOMAIN fresh : fresh[i].name # "food"

\* A budget's limit is the largest one there is, and no limit is not nothing.
ASSUME LimitIsTheLargest ==
    \A a, b \in [budget : {"x", "y"}, amount : {B!NoAmount, 0, 5, 9}] :
        LET report == B!getBudgetReport(<<[id |-> "x", spent |-> <<-3, 4>>]>>, <<a, b>>)[1]
            own == {r.amount : r \in {r \in {a, b} : r.budget = "x"}}
        IN  /\ report.spent = 7
            /\ report.limit = IF own \subseteq {B!NoAmount} THEN B!NoAmount
                              ELSE CHOOSE m \in own : \A n \in own : m >= n

\* A refusal is told once, in the words the model used, about what it supplied.
ASSUME RefusalInOwnWords ==
    LET asked == <<[sourceAccount |-> "rent", amount |-> "5"], [sourceAccount |-> "food", amount |-> "5"]>>
        Errors == [index : {1, 2, 3}, field : {"source_id", "source_name", "amount", "foreign_id"}, said : {"no"}]
    IN  \A e, f \in Errors :
          LET lines == B!describeRejection(<<e, f>>, asked) IN
          /\ \A line \in lines : line.label \in {"sourceAccount", "amount", "foreign_id"}
          /\ Cardinality(lines) = 1 <=> e = f \/ (e.index = f.index /\ {e.field, f.field} = {"source_id", "source_name"})
          /\ \A line \in lines : line.supplied = "nothing" <=> line.where = 3 \/ line.label = "foreign_id"
=============================================================================
