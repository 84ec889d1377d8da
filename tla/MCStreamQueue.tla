---------------------------- MODULE MCStreamQueue ---------------------------
(* Finite instances of StreamQueue for TLC. *)
EXTENDS StreamQueue

CONSTANTS q1, q2

\* an out-of-order queue and an in-order one
ComputeSizes == q1 :> 2 @@ q2 :> 1
TransferSizes == q1 :> 1 @@ q2 :> 0
=============================================================================
