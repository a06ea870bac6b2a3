------------------------------ MODULE KeyLedger ------------------------------
(***************************************************************************)
(* What the shop promises about each prepared VPN key, whatever the orders *)
(* around it do: a key on the shelf may be held for one order that holds   *)
(* nothing else, a held key returns to the shelf or is sold to the buyer   *)
(* of the order it is held for, an order that holds nothing may be sold a  *)
(* key straight from the shelf, and a sold key never changes hands: the    *)
(* only thing left for it is to be retired when a replacement is sold.     *)
(*                                                                         *)
(* OrderLifecycle, the model of the services that write the vpn_keys       *)
(* table, implements this specification.                                   *)
(***************************************************************************)
CONSTANTS Keys, Orders, Users, NoOrder, NoUser, BuyerOf

VARIABLE place

Place == [at    : {"shelf", "held", "sold", "retired"},
          order : Orders \cup {NoOrder},
          user  : Users \cup {NoUser}]

Shelf == [at |-> "shelf", order |-> NoOrder, user |-> NoUser]
Held(o) == [at |-> "held", order |-> o, user |-> NoUser]
Sold(u) == [at |-> "sold", order |-> NoOrder, user |-> u]
Retired(u) == [at |-> "retired", order |-> NoOrder, user |-> u]

HoldsNothing(o) == \A k \in Keys : place[k] # Held(o)

Init == place = [k \in Keys |-> Shelf]

Hold(k, o) ==
    /\ place[k] = Shelf
    /\ HoldsNothing(o)
    /\ place' = [place EXCEPT ![k] = Held(o)]

(* The expiry sweep returns several keys in one transaction. *)
Return(K) ==
    /\ \A k \in K : place[k].at = "held"
    /\ place' = [k \in Keys |-> IF k \in K THEN Shelf ELSE place[k]]

Sell(k, o) ==
    /\ \/ place[k] = Held(o)
       \/ place[k] = Shelf /\ HoldsNothing(o)
    /\ place' = [place EXCEPT ![k] = Sold(BuyerOf[o])]

Replace(old, new, u) ==
    /\ place[old] = Sold(u)
    /\ place[new] = Shelf
    /\ place' = [place EXCEPT ![old] = Retired(u), ![new] = Sold(u)]

Next ==
    \/ \E k \in Keys, o \in Orders : Hold(k, o) \/ Sell(k, o)
    \/ \E K \in SUBSET Keys : Return(K)
    \/ \E old, new \in Keys, u \in Users : Replace(old, new, u)

Spec == Init /\ [][Next]_place
=============================================================================
