-------------------------------- MODULE Shop --------------------------------
(***************************************************************************)
(* What a purchase promises, whichever dialogue it comes from: an order is *)
(* placed in one moment.  At that moment the plan allows its mode, its     *)
(* promo code has a use left and was never used by this customer, the      *)
(* amount is what the plan costs under the terms the code has now, and the *)
(* key that is reserved for it is one of its plan that nobody else has.    *)
(* Operators change the codes between orders, never inside of one.         *)
(*                                                                         *)
(* Checkout, where a purchase takes a session several steps, implements    *)
(* this specification.                                                     *)
(***************************************************************************)
EXTENDS Naturals, FiniteSets

CONSTANTS
    Orders, Users, Plans, Modes, Servers, Keys, Codes, Terms, Limits,
    Nothing, NoServer, NoKey, NoCode, NoTerms,
    PlanOf,   \* the plan of each key
    Sells,    \* the modes each plan may be fulfilled in
    Cost      \* of a plan, in a mode, under the terms of a code

Order ==
    [user : Users, plan : Plans, mode : Modes, server : Servers \cup {NoServer},
     key : Keys \cup {NoKey}, code : Codes \cup {NoCode}, amount : Nat]

VARIABLES
    placed,   \* the orders
    offers,   \* the terms and the limit of each code
    holder    \* the order each key is reserved for, or 0

Init ==
    /\ placed = [i \in Orders |-> Nothing]
    /\ offers \in [Codes -> [terms : Terms, limit : Limits]]
    /\ holder = [k \in Keys |-> 0]

Uses(c) == {i \in Orders : placed[i].code = c}

MayUse(u, c) ==
    /\ Cardinality(Uses(c)) < offers[c].limit
    /\ \A i \in Uses(c) : placed[i].user # u

TermsOf(c) == IF c = NoCode THEN NoTerms ELSE offers[c].terms

(* o is the row that takes the number i. *)
Place(i, o) ==
    /\ placed[i] = Nothing
    /\ o \in Order
    /\ o.mode \in Sells[o.plan]
    /\ o.mode = "server" <=> o.server # NoServer
    /\ o.mode = "inventory" <=> o.key # NoKey
    /\ o.key # NoKey => holder[o.key] = 0 /\ PlanOf[o.key] = o.plan
    /\ o.code # NoCode => MayUse(o.user, o.code)
    /\ o.amount = Cost[o.plan][o.mode][TermsOf(o.code)]
    /\ placed' = [placed EXCEPT ![i] = o]
    /\ holder' = [k \in Keys |-> IF k = o.key THEN i ELSE holder[k]]
    /\ UNCHANGED offers

Offer(c, t, l) ==
    /\ offers' = [offers EXCEPT ![c] = [terms |-> t, limit |-> l]]
    /\ UNCHANGED <<placed, holder>>

Next ==
    \/ \E i \in Orders : Place(i, placed'[i])
    \/ \E c \in Codes, t \in Terms, l \in Limits : Offer(c, t, l)

Spec == Init /\ [][Next]_<<placed, offers, holder>>
=============================================================================
