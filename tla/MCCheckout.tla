----------------------------- MODULE MCCheckout -----------------------------
(* Small instances of Checkout for TLC. *)
EXTENDS Checkout, TLC

CONSTANTS t1, t2, v1, w1, p1, p2, k1, k2, s1

(* p1 is sold from prepared keys and from servers and costs 1.00, p2 gives *)
(* MTProxy for 0.50, which is below the minimum of 0.90.                   *)
AutoAndProxy == (p1 :> "auto") @@ (p2 :> "mtproxy")
OnlyKeys == p1 :> "inventory"
Prices == (p1 :> 100) @@ (p2 :> 50)
PriceOfP1 == p1 :> 100
KeysOfP1 == [k \in Keys |-> p1]

(* A fifth off, which the minimum cuts, and five off. *)
FifthOff == [type |-> "percent", value |-> 20]
FiveOff == [type |-> "fixed", value |-> 5]
OneTerms == {FifthOff}
BothTerms == {FifthOff, FiveOff}

(* Telegram alone and next to VK, VK next to WhatsApp, and enough          *)
(* messages for a webhook that brings two orders.                          *)
Sending(t, v, w) == (t1 :> t) @@ (v1 :> v) @@ (w1 :> w)
Customers == {Sending(5, 0, 0), Sending(3, 2, 0), Sending(0, 3, 2), Sending(0, 0, 4)}
Buyers == {(t1 :> 5) @@ (t2 :> 4)}
ChatOnly == {(v1 :> 2) @@ (w1 :> 4)}

Symmetry == Permutations(Handlers)
=============================================================================
