--------------------------- MODULE MCMaterialised ---------------------------
(***************************************************************************)
(* Small instances of Materialised for TLC.                                *)
(***************************************************************************)
EXTENDS Materialised, TLC

CONSTANTS doc, inv, clerk, accountant

OneModel == <<doc>>
TwoModels == <<doc, inv>>

\* One Assistant, triggered by both Models.
ClerkOnBoth == [a \in {clerk} |-> {doc, inv}]

\* Two Assistants triggered by the same Model.
BothOnDoc == [a \in {clerk, accountant} |-> {doc}]

\* Nothing tells the two apart.
Interchangeable == Permutations({clerk, accountant})
=============================================================================
