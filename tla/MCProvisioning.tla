--------------------------- MODULE MCProvisioning ---------------------------
(* Small instances of Provisioning for TLC. *)
EXTENDS Provisioning, TLC

CONSTANTS h1, h2, m1, m2, s1, x1, a1, b1, A, B

(* Nothing tells the operators' sessions apart, ... *)
AnySession == Permutations({h1, h2})

(* ... nor the servers of one country. *)
AnyOfBoth == AnySession \cup Permutations({a1, b1})

(* A panel in each of two countries, and two panels in one. *)
TwoServers == (a1 :> A) @@ (b1 :> B)
OneCountry == (a1 :> A) @@ (b1 :> A)

(* Two MTProxy orders, the number of one beginning with that of the other. *)
TwoMtproxy == (m1 :> "mtproxy") @@ (m2 :> "mtproxy")
NoneChosen == (m1 :> NoServer) @@ (m2 :> NoServer)
MtproxyPrefix == {<<m1, m2>>}

(* One MTProxy order. *)
OneMtproxy == m1 :> "mtproxy"
NotChosen == m1 :> NoServer
NoPrefix == {}

(* An order on a chosen server and a superkey, whose number begins with    *)
(* that of the former.                                                     *)
ServerAndSuperkey == (s1 :> "server") @@ (x1 :> "superkey")
A1Chosen == (s1 :> a1) @@ (x1 :> NoServer)
Prefix == {<<s1, x1>>}
=============================================================================
