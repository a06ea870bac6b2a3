-------------------------- MODULE MCOrderLifecycle --------------------------
(* Small instances of OrderLifecycle for TLC. *)
EXTENDS OrderLifecycle, TLC

CONSTANTS o1, o2, u1, u2

(* Two orders, of two users. *)
TwoBuyers == (o1 :> u1) @@ (o2 :> u2)
OneBuyer == (o1 :> u1)

(* Webhook events: o1 is reported paid and, under another event id,        *)
(* failed.                                                                 *)
Paid == {[id |-> 1, order |-> o1, status |-> "succeeded"]}
PaidAndFailed == Paid \cup {[id |-> 2, order |-> o1, status |-> "failed"]}

Symmetry == Permutations(Keys) \cup Permutations(Handlers)
=============================================================================
