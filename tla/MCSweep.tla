------------------------------ MODULE MCSweep ------------------------------
(***************************************************************************)
(* Small instances of Sweep for TLC.                                       *)
(***************************************************************************)
EXTENDS Sweep

\* Two Conversations to a second.
TwoPerSecond == [r \in Rows |-> 2 * ((r + 1) \div 2)]
=============================================================================
