----------------------------- MODULE MCDelivery -----------------------------
(* Instances of Delivery for TLC. *)
EXTENDS Delivery, TLC

CONSTANTS o1, j1, j2, j3, h1

(* No property names a job.  The runs that use the symmetry check no       *)
(* liveness.                                                               *)
Interchangeable == Permutations(Jobs)
=============================================================================
