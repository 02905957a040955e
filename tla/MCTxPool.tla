------------------------------ MODULE MCTxPool ------------------------------
(***************************************************************************)
(* TxPool on small instances.                                              *)
(***************************************************************************)
EXTENDS TxPool, TLC

CONSTANTS c1, c2, q1, q2

\* Connections are interchangeable, and so are requests.
MCSymmetry == Permutations({c1, c2}) \cup Permutations({q1, q2})
=============================================================================
