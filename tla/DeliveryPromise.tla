--------------------------- MODULE DeliveryPromise ---------------------------
(***************************************************************************)
(* What the delivery queue promises of each job, whoever works on it: a    *)
(* job is tried a limited number of times, an attempt puts at most one     *)
(* message into the buyer's hands, with the key the job was posted for or  *)
(* a later one of the order, a job is delivered after a message of its     *)
(* own, and given up only when its attempts are used up, unless its key    *)
(* cannot be read any more.  After that nothing is sent for it.            *)
(*                                                                         *)
(* Delivery, the model of the sessions that work on the table              *)
(* delivery_jobs, implements this specification.                           *)
(***************************************************************************)
EXTENDS Naturals

CONSTANTS
    Orders, Jobs, NoOrder,
    MaxKeys,       \* the keys of an order are numbered as they are issued
    MaxAttempts,
    KeysMayRot     \* a key may turn out to be unreadable

VARIABLES
    parcel,   \* a job: its state, whose it is, what was sent for it and failed
    inbox     \* the <<order, key>> pairs that reached their buyers

Parcel(state, order, key, sent, failed) ==
    [state |-> state, order |-> order, key |-> key, sent |-> sent, failed |-> failed]

Unposted == Parcel("none", NoOrder, 0, 0, 0)

Init == parcel = [j \in Jobs |-> Unposted] /\ inbox = {}

Open(j) == parcel[j].state = "open"

(* Whose a parcel is, and from which key on, never changes. *)
Becomes(j, state, sent, failed) ==
    parcel' = [parcel EXCEPT ![j] = Parcel(state, parcel[j].order, parcel[j].key, sent, failed)]

Post(j, o, k) ==
    /\ parcel[j] = Unposted
    /\ parcel' = [parcel EXCEPT ![j] = Parcel("open", o, k, 0, 0)]
    /\ UNCHANGED inbox

(* No attempt sends twice: there are no more messages than attempts ended. *)
Carry(j, k) ==
    /\ Open(j)
    /\ parcel[j].sent <= parcel[j].failed
    /\ k >= parcel[j].key
    /\ Becomes(j, "open", parcel[j].sent + 1, parcel[j].failed)
    /\ inbox' = inbox \cup {<<parcel[j].order, k>>}

Close(j) ==
    /\ Open(j)
    /\ parcel[j].sent > 0
    /\ \E k \in parcel[j].key..MaxKeys : <<parcel[j].order, k>> \in inbox
    /\ Becomes(j, "delivered", parcel[j].sent, parcel[j].failed)
    /\ UNCHANGED inbox

Retry(j) ==
    /\ Open(j)
    /\ parcel[j].failed + 1 < MaxAttempts
    /\ Becomes(j, "open", parcel[j].sent, parcel[j].failed + 1)
    /\ UNCHANGED inbox

GiveUp(j) ==
    /\ Open(j)
    /\ parcel[j].failed + 1 = MaxAttempts \/ KeysMayRot
    /\ Becomes(j, "given up", parcel[j].sent, parcel[j].failed + 1)
    /\ UNCHANGED inbox

Next ==
    \E j \in Jobs :
        \/ \E o \in Orders, k \in 1..MaxKeys : Post(j, o, k) \/ Carry(j, k)
        \/ Close(j) \/ Retry(j) \/ GiveUp(j)

Spec == Init /\ [][Next]_<<parcel, inbox>>
=============================================================================
