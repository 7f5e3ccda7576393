------------------------------- MODULE MCDoor -------------------------------
(* An instance of Door: a reading and a writing Dynamic Operation of the     *)
(* seeds, beside one Operation that is code.                               *)
EXTENDS Door

MCCode == [u \in {"ui.askUser"} |-> [mutating |-> TRUE, requiresApproval |-> FALSE,
                                     clientReadable |-> FALSE, reconciles |-> TRUE]]

----------------------------------------------------------------------------
(* What the Tiles work out: a curve of three months, of 3, 2, 4 and 3       *)
(* seconds each, and rows in two currencies.                                *)
MonthStarts == [m \in 1..5 |-> <<1, 4, 6, 10, 13>>[m]]
Codes == [EUR |-> "EUR", eur |-> "EUR", USD |-> "USD", EURO |-> "", none |-> ""]
D == INSTANCE Dashboard WITH MONTHS <- 3, MonthStart <- MonthStarts, Upper <- Codes

Stamps == {D!Unstamped} \cup 0..12

\* Every Document is on the curve once, in the month of its stamp, or is part of the lag:
\* no instant falls between two buckets or into both.
ASSUME CurveAddsUp ==
    \A a, b, c \in Stamps :
        LET documents == <<a, b, c>>
            ladder == D!monthBuckets(4)
            counts == D!documentQueries(ladder, documents)
            curve == D!documentCurve(counts)
        IN  /\ \A k \in 1..3 : curve[k] =
                  Cardinality({d \in 1..3 : documents[d] # D!Unstamped /\ documents[d] < MonthStarts[k + 2]})
            /\ curve[3] + D!createdOnLag(counts.total, curve) = counts.total

\* Cents never cross a currency, and a total that is short of a row says so; rows that all
\* fall out are reported by nothing.
ASSUME TotalsPerCurrency ==
    LET Rows == [number : BOOLEAN, cents : {0, 5}, currency : DOMAIN Codes] IN
    \A r, s \in Rows :
        LET sums == D!totals(<<r, s>>)
            used == {row \in {r, s} : row.number /\ Codes[row.currency] # ""}
        IN  /\ {t.currency : t \in sums} = {Codes[row.currency] : row \in used}
            /\ \A t, u \in sums : t.currency = u.currency => t = u
            /\ \A t \in sums : t.value = (IF r \in used /\ Codes[r.currency] = t.currency THEN r.cents ELSE 0)
                                        + (IF s \in used /\ Codes[s.currency] = t.currency THEN s.cents ELSE 0)
            /\ \A t \in sums : t.partial <=> {r, s} # used
=============================================================================
