------------------------------ MODULE Dashboard ------------------------------
(***************************************************************************)
(* The arithmetic of the Tiles (client/src/components/dashboard): totals   *)
(* of amounts (money.ts)      , the ladder of months (buckets.ts) and the  *)
(* curve above it (DocumentsTile.tsx).                                     *)
(*                                                                         *)
(* An amount is in cents, if it parses to a number.  An instant is the     *)
(* number of a second, as the store keeps it; Unstamped is no instant.     *)
(***************************************************************************)
EXTENDS Integers, Sequences, FiniteSets, FiniteSetsExt

CONSTANTS MONTHS,      \* months on the curve
          MonthStart,  \* the first second of a month, by its number
          Upper        \* a currency's code, trimmed and in capitals; "" when it is none

Unstamped == -1

\* Nothing, blanks and words parse to no amount, least of all to a zero; and a code that
\* is not three letters groups nothing.
usable(row) == row.number /\ Upper[row.currency] # ""

\* One sum per currency, and a mark on each when a row was left out of any.
totals(rows) ==
    LET used == {i \in DOMAIN rows : usable(rows[i])} IN
    {[currency |-> c, partial |-> used # DOMAIN rows,
      value |-> MapThenSumSet(LAMBDA i : rows[i].cents, {i \in used : Upper[rows[i].currency] = c})]
     : c \in {Upper[rows[i].currency] : i \in used}}

\* The months up to the instant's own, each ending a second before the next, and what is before.
monthBuckets(month) ==
    [before |-> MonthStart[month - (MONTHS - 1)] - 1,
     months |-> [k \in 1..MONTHS |-> [from |-> MonthStart[month + k - MONTHS],
                                      to |-> MonthStart[month + k - (MONTHS - 1)] - 1]]]

\* date_range: both bounds belong to it, and what has no stamp is in none.
InRange(at, from, to) == at # Unstamped /\ from <= at /\ at <= to

\* The answers to the queries: the total, the baseline and one count per month.
documentQueries(ladder, documents) ==
    [total |-> Len(documents),
     before |-> Cardinality({d \in DOMAIN documents : InRange(documents[d], 0, ladder.before)}),
     months |-> [k \in DOMAIN ladder.months |->
        Cardinality({d \in DOMAIN documents : InRange(documents[d], ladder.months[k].from, ladder.months[k].to)})]]

\* A running sum above the baseline.
documentCurve(counts) ==
    [k \in DOMAIN counts.months |-> counts.before + MapThenSumSet(LAMBDA j : counts.months[j], 1..k)]

createdOnLag(total, curve) == LET last == curve[Len(curve)] IN IF total > last THEN total - last ELSE 0
=============================================================================
