---------------------------- MODULE MCMailIngest ----------------------------
(***************************************************************************)
(* Small instances of MailIngest for TLC.                                  *)
(***************************************************************************)
EXTENDS MailIngest

Letter == [from |-> "allowed", id |-> TRUE, garbled |-> FALSE, parts |-> <<>>, size |-> 1, note |-> 1]

\* Two invoices behind a logo, of which the first is over the cap; one invoice over the
\* cap, without a Message-ID; a plain letter without one that alone exceeds the budget of
\* a poll; one too large to download; one that cannot be parsed; and one whose sender is
\* not who it says, which Gmail shows at once and IMAP only in the parsed header.
Post == {
    [Letter EXCEPT !.parts = <<"inline", "big", "small">>],
    [Letter EXCEPT !.parts = <<"big">>, !.id = FALSE],
    [Letter EXCEPT !.size = 3, !.id = FALSE],
    [Letter EXCEPT !.size = 4],
    [Letter EXCEPT !.garbled = TRUE],
    [Letter EXCEPT !.from = "forged"]}
=============================================================================
