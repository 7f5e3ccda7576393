--------------------------- MODULE ApprovedLedger ---------------------------
(***************************************************************************)
(* What the approval gate promises the User about the books (ADR-0012,     *)
(* ADR-0018), and nothing about how: a yes is given to one question about  *)
(* one set of arguments, and each booking uses up one yes given to exactly *)
(* those arguments.  TurnLoop implements it.                               *)
(***************************************************************************)
VARIABLES
    yes,     \* the questions the User has answered with a yes
    ledger   \* the bookings: [key, args, auth]

Init == yes = {} /\ ledger = {}

\* The User says yes to one more question.
Approve ==
    /\ \E q \in yes' : yes' = yes \cup {q}
    /\ UNCHANGED ledger

\* One booking, under a key never used before, on a yes to its own arguments
\* that no earlier booking has used.
Book ==
    /\ \E b \in ledger' :
          /\ ledger' = ledger \cup {b}
          /\ b.auth \in yes
          /\ b.auth.args = b.args
          /\ \A c \in ledger : c.auth # b.auth /\ c.key # b.key
    /\ UNCHANGED yes

Next == Approve \/ Book

Spec == Init /\ [][Next]_<<yes, ledger>>
=============================================================================
