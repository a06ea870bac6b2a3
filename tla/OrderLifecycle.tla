--------------------------- MODULE OrderLifecycle ---------------------------
(***************************************************************************)
(* The life of an order that is fulfilled from prepared keys, as the       *)
(* services of app/services write it into the tables orders, vpn_keys,     *)
(* delivery_jobs and payment_events while several SQLAlchemy sessions run  *)
(* at once: the handlers of chat updates and webhooks, and the background  *)
(* loop of the web container.                                              *)
(*                                                                         *)
(* A database transaction that locks its rows is one step.  A session      *)
(* keeps the Order object it loaded from one transaction to the next:      *)
(* lock_by_id (SELECT ... FOR UPDATE without populate_existing) waits for  *)
(* the row but does not reload an object the session already holds, and    *)
(* the flush writes only the columns whose value differs from the one      *)
(* loaded.  Flush is that rule, and sess[s].mem and listed[o] are those    *)
(* objects.                                                                *)
(***************************************************************************)
EXTENDS Naturals, FiniteSets

CONSTANTS
    Orders,            \* the ids orders may get
    Keys,              \* the keys imported for the one plan of this model
    Users,
    BuyerOf,           \* the user who creates each order
    Handlers,          \* sessions of chat updates and webhook requests
    Worker,            \* the session of the background loop
    Events,            \* payment events the provider's webhook may carry
    NoOrder, NoKey, NoUser, NoEvent,
    Provider,          \* settings.payment_provider
    ReportedStatuses,  \* what get_payment_status may answer
    MaxCrashes         \* bound on crashes, exceptions and cancellations

PaymentStatus == {"pending", "succeeded", "canceled", "failed", "refunded"}

ASSUME ConstantsAssumption ==
    /\ NoOrder \notin Orders
    /\ NoKey \notin Keys
    /\ NoUser \notin Users
    /\ NoEvent \notin Events
    /\ Worker \notin Handlers
    /\ BuyerOf \in [Orders -> Users]
    /\ \A e \in Events : e.order \in Orders /\ e.status \in PaymentStatus
    /\ Provider \in {"fake", "donate_stream"}
    /\ ReportedStatuses \subseteq PaymentStatus
    /\ MaxCrashes \in Nat

Sessions == Handlers \cup {Worker}

OrderStatus == {"absent", "created", "pending_payment", "paid", "issued",
                "paid_but_not_issued", "canceled", "refunded",
                "payment_failed", "expired_reservation"}

(* A row of orders.  deadline is reservation_expires_at: null, in the      *)
(* future, or in the past.                                                 *)
OrderRow == [status   : OrderStatus,
             reserved : Keys \cup {NoKey},
             issued   : Keys \cup {NoKey},
             payId    : BOOLEAN,
             deadline : {"none", "set", "past"}]

KeyRow == [status : {"available", "reserved", "issued", "broken"},
           by     : Orders \cup {NoOrder},
           owner  : Users \cup {NoUser}]

AbsentRow == [status |-> "absent", reserved |-> NoKey, issued |-> NoKey,
              payId |-> FALSE, deadline |-> "none"]

AvailableKey == [status |-> "available", by |-> NoOrder, owner |-> NoUser]
ReservedKey(o) == [status |-> "reserved", by |-> o, owner |-> NoUser]
IssuedKey(u) == [status |-> "issued", by |-> NoOrder, owner |-> u]
BrokenKey(u) == [status |-> "broken", by |-> NoOrder, owner |-> u]

VARIABLES
    orders,     \* table orders
    keys,       \* table vpn_keys
    jobs,       \* table delivery_jobs: the pairs <<order, key>> of the
                \* deduplication keys issue:order:key
    processed,  \* table payment_events: the events already recorded
    confirmed,  \* history: orders whose payment some commit confirmed
    sess,       \* what each session is in the middle of
    listed,     \* the Order objects the background loop's list holds
    crashes     \* crashes so far

vars == <<orders, keys, jobs, processed, confirmed, sess, listed, crashes>>

Phase == {"idle", "attach", "issue", "webhook", "sweep", "swept", "recheck"}

Idle == [pc |-> "idle", order |-> NoOrder, mem |-> AbsentRow, event |-> NoEvent]

At(phase, o, mem) ==
    [pc |-> phase, order |-> o, mem |-> mem, event |-> NoEvent]

NothingListed == [o \in Orders |-> AbsentRow]

Unpaid == {"created", "pending_payment"}
Issuable == {"paid", "paid_but_not_issued"}

-----------------------------------------------------------------------------
(* Rows and keys                                                           *)

(* The UPDATE of a flush: a column is written if its value changed since   *)
(* the object was loaded, and is otherwise left as it is in the database.  *)
Flush(db, old, new) ==
    [status   |-> IF new.status # old.status THEN new.status ELSE db.status,
     reserved |-> IF new.reserved # old.reserved THEN new.reserved ELSE db.reserved,
     issued   |-> IF new.issued # old.issued THEN new.issued ELSE db.issued,
     payId    |-> IF new.payId # old.payId THEN new.payId ELSE db.payId,
     deadline |-> IF new.deadline # old.deadline THEN new.deadline ELSE db.deadline]

(* Mutant: the row's word is taken for it. *)
ReservedForTrustingRow(o, row) == row.reserved # NoKey

(* The test every release and every issue makes on the freshly locked key. *)
ReservedFor(o, row) == row.reserved # NoKey /\ keys[row.reserved] = ReservedKey(o)

Released(o, row) ==
    IF ReservedFor(o, row) THEN [keys EXCEPT ![row.reserved] = AvailableKey] ELSE keys

(* The keys after a commit that turned row into new: dropping a            *)
(* reservation releases its key.                                           *)
KeysAfter(o, row, new) == IF new.reserved # row.reserved THEN Released(o, row) ELSE keys

(* Mutant: a key that was replaced counts as stock again. *)
OnShelfWithBroken == {k \in Keys : keys[k].status \in {"available", "broken"}}

OnShelf == {k \in Keys : keys[k].status = "available"}

(* PaymentService._release_reservation clears the deadline as well, and    *)
(* only if there is a reservation.                                         *)
WithoutReservation(row) ==
    IF row.reserved = NoKey THEN row
    ELSE [row EXCEPT !.reserved = NoKey, !.deadline = "none"]

Init ==
    /\ orders = [o \in Orders |-> AbsentRow]
    /\ keys = [k \in Keys |-> AvailableKey]
    /\ jobs = {}
    /\ processed = {}
    /\ confirmed = {}
    /\ sess = [s \in Sessions |-> Idle]
    /\ listed = NothingListed
    /\ crashes = 0

-----------------------------------------------------------------------------
(* The customer                                                            *)

(* First transaction of create_order_with_payment.  With donate_stream the *)
(* settings are read next, outside a transaction block: that opens the     *)
(* transaction the session is closed in, so the second block is only a     *)
(* savepoint of it and what it writes is rolled back.                      *)
CreateOrder(s, o) ==
    /\ sess[s].pc = "idle"
    /\ orders[o].status = "absent"
    /\ \E k \in OnShelf :
        LET row == [status |-> "created", reserved |-> k, issued |-> NoKey,
                    payId |-> FALSE, deadline |-> "set"]
        IN  /\ keys' = [keys EXCEPT ![k] = ReservedKey(o)]
            /\ orders' = [orders EXCEPT ![o] = row]
            /\ sess' = IF Provider = "fake"
                       THEN [sess EXCEPT ![s] = At("attach", o, row)]
                       ELSE sess
    /\ UNCHANGED <<jobs, processed, confirmed, listed, crashes>>

(* Second transaction: the status is assigned without a look at it. *)
AttachPayment(s) ==
    /\ sess[s].pc = "attach"
    /\ LET o == sess[s].order
           row == sess[s].mem
           new == [row EXCEPT !.payId = TRUE, !.status = "pending_payment"]
       IN  orders' = [orders EXCEPT ![o] = Flush(orders[o], row, new)]
    /\ sess' = [sess EXCEPT ![s] = Idle]
    /\ UNCHANGED <<keys, jobs, processed, confirmed, listed, crashes>>

-----------------------------------------------------------------------------
(* The operator: each of these runs in a session that holds no Order yet,  *)
(* so the locked row is a fresh one.                                       *)

(* Mutant: the key of the canceled order stays reserved. *)
CancelWithoutRelease(o) ==
    /\ orders[o].status \in Unpaid \cup {"payment_failed"}
    /\ orders' = [orders EXCEPT ![o] = [@ EXCEPT !.status = "canceled", !.reserved = NoKey]]
    /\ UNCHANGED <<keys, jobs, processed, confirmed, sess, listed, crashes>>

(* Mutant: only the status of the order is written. *)
CancelStatusOnly(o) ==
    /\ orders[o].status \in Unpaid \cup {"payment_failed"}
    /\ orders' = [orders EXCEPT ![o] = [@ EXCEPT !.status = "canceled"]]
    /\ UNCHANGED <<keys, jobs, processed, confirmed, sess, listed, crashes>>

Cancel(o) ==
    /\ orders[o].status \in Unpaid \cup {"payment_failed"}
    /\ keys' = Released(o, orders[o])
    /\ orders' = [orders EXCEPT ![o] = [@ EXCEPT !.status = "canceled", !.reserved = NoKey]]
    /\ UNCHANGED <<jobs, processed, confirmed, sess, listed, crashes>>

(* Mutant: any order may be refunded. *)
RefundUnpaid(o) ==
    /\ orders[o].status # "absent"
    /\ orders' = [orders EXCEPT ![o] = [@ EXCEPT !.status = "refunded"]]
    /\ UNCHANGED <<keys, jobs, processed, confirmed, sess, listed, crashes>>

Refund(o) ==
    /\ orders[o].status \in Issuable \cup {"issued"}
    /\ orders' = [orders EXCEPT ![o] = [@ EXCEPT !.status = "refunded"]]
    /\ UNCHANGED <<keys, jobs, processed, confirmed, sess, listed, crashes>>

(* Mutant: the old key is put back. *)
ReplaceKeyReturningOld(o) ==
    /\ orders[o].status = "issued"
    /\ orders[o].issued # NoKey
    /\ \E k \in OnShelf :
        /\ keys' = [keys EXCEPT ![k] = IssuedKey(BuyerOf[o]),
                                ![orders[o].issued] = AvailableKey]
        /\ orders' = [orders EXCEPT ![o] = [@ EXCEPT !.issued = k, !.reserved = NoKey]]
        /\ jobs' = jobs \cup {<<o, k>>}
    /\ UNCHANGED <<processed, confirmed, sess, listed, crashes>>

(* replace_access_for_issued_order for an inventory order: one transaction *)
ReplaceKey(o) ==
    /\ orders[o].status = "issued"
    /\ orders[o].issued # NoKey
    /\ \E k \in OnShelf :
        /\ keys' = [keys EXCEPT ![k] = IssuedKey(BuyerOf[o]),
                                ![orders[o].issued] = [@ EXCEPT !.status = "broken"]]
        /\ orders' = [orders EXCEPT ![o] = [@ EXCEPT !.issued = k, !.reserved = NoKey]]
        /\ jobs' = jobs \cup {<<o, k>>}
    /\ UNCHANGED <<processed, confirmed, sess, listed, crashes>>

(* First transaction of confirm_manual_payment; the session keeps the row. *)
Confirm(s, o) ==
    /\ sess[s].pc = "idle"
    /\ orders[o].status \notin {"absent", "issued", "canceled", "refunded",
                                "expired_reservation"}
    /\ LET row == [orders[o] EXCEPT !.status = "paid"]
       IN  /\ orders' = [orders EXCEPT ![o] = row]
           /\ sess' = [sess EXCEPT ![s] = At("issue", o, row)]
    /\ confirmed' = confirmed \cup {o}
    /\ UNCHANGED <<keys, jobs, processed, listed, crashes>>

-----------------------------------------------------------------------------
(* issue_key_for_paid_order and _issue_from_inventory: one transaction on  *)
(* the Order object the session already holds.                             *)

(* The session is closed: the objects it holds go with it. *)
Leave(s) ==
    /\ sess' = [sess EXCEPT ![s] = Idle]
    /\ listed' = IF s = Worker THEN NothingListed ELSE listed

(* A handler's session ends after the call; the loop takes its next order. *)
AfterIssue(s) == IF s = Worker THEN At("recheck", NoOrder, AbsentRow) ELSE Idle

(* Mutant: always from the reservation. *)
KeysToIssueReserved(o, row) == {row.reserved}

KeysToIssue(o, row) ==
    IF ReservedFor(o, row) THEN {row.reserved} ELSE OnShelf

(* Mutant: the key is issued and its delivery is not queued. *)
IssueKeyUnqueued(s) ==
    /\ sess[s].pc = "issue"
    /\ sess[s].mem.status \in Issuable
    /\ LET o == sess[s].order
           row == sess[s].mem
       IN  \E k \in KeysToIssue(o, row) :
            LET new == [row EXCEPT !.issued = k, !.reserved = NoKey, !.status = "issued"]
            IN  /\ keys' = [keys EXCEPT ![k] = IssuedKey(BuyerOf[o])]
                /\ orders' = [orders EXCEPT ![o] = Flush(orders[o], row, new)]
    /\ sess' = [sess EXCEPT ![s] = AfterIssue(s)]
    /\ UNCHANGED <<jobs, processed, confirmed, listed, crashes>>

IssueKey(s) ==
    /\ sess[s].pc = "issue"
    /\ sess[s].mem.status \in Issuable
    /\ LET o == sess[s].order
           row == sess[s].mem
       IN  \E k \in KeysToIssue(o, row) :
            LET new == [row EXCEPT !.issued = k, !.reserved = NoKey, !.status = "issued"]
            IN  /\ keys' = [keys EXCEPT ![k] = IssuedKey(BuyerOf[o])]
                /\ orders' = [orders EXCEPT ![o] = Flush(orders[o], row, new)]
                /\ jobs' = jobs \cup {<<o, k>>}
    /\ sess' = [sess EXCEPT ![s] = AfterIssue(s)]
    /\ UNCHANGED <<processed, confirmed, listed, crashes>>

(* Mutant: the shortfall is reported to the caller and not written. *)
MarkPaidButNotIssuedUnwritten(s) ==
    /\ sess[s].pc = "issue"
    /\ sess[s].mem.status \in Issuable
    /\ ~ ReservedFor(sess[s].order, sess[s].mem)
    /\ sess' = [sess EXCEPT ![s] = AfterIssue(s)]
    /\ UNCHANGED <<orders, keys, jobs, processed, confirmed, listed, crashes>>

(* No key was found: the shelf is empty, or transactions that are not over *)
(* yet (other creations, issues, and replacements of operators, of whom    *)
(* there may be any number) have locked the keys on it, which SKIP LOCKED  *)
(* passes over.                                                            *)
MarkPaidButNotIssued(s) ==
    /\ sess[s].pc = "issue"
    /\ sess[s].mem.status \in Issuable
    /\ LET o == sess[s].order
           row == sess[s].mem
           new == [row EXCEPT !.status = "paid_but_not_issued"]
       IN  /\ ~ ReservedFor(o, row)
           /\ orders' = [orders EXCEPT ![o] = Flush(orders[o], row, new)]
    /\ sess' = [sess EXCEPT ![s] = AfterIssue(s)]
    /\ UNCHANGED <<keys, jobs, processed, confirmed, listed, crashes>>

(* The held row is issued already, or not ready: an early return, or an    *)
(* InvalidStateError the caller does not catch.                            *)
RefuseToIssue(s) ==
    /\ sess[s].pc = "issue"
    /\ sess[s].mem.status \notin Issuable
    /\ Leave(s)
    /\ UNCHANGED <<orders, keys, jobs, processed, confirmed, crashes>>

-----------------------------------------------------------------------------
(* handle_webhook                                                          *)

(* The event's row is inserted first (a second insert of the same event    *)
(* waits for this transaction, a later one finds the event and returns),   *)
(* then the order is read without a lock.                                  *)
ReceiveEvent(s, e) ==
    /\ sess[s].pc = "idle"
    /\ e \notin processed
    /\ \A t \in Sessions : sess[t].event # e
    /\ orders[e.order].status # "absent"
    /\ sess' = [sess EXCEPT ![s] = [pc |-> "webhook", order |-> e.order,
                                    mem |-> orders[e.order], event |-> e]]
    /\ UNCHANGED <<orders, keys, jobs, processed, confirmed, listed, crashes>>

(* The row after the event: payment, cancellation, failure, or unchanged. *)
AfterEvent(status, row) ==
    IF status = "succeeded" /\ row.status \in Unpaid \cup {"payment_failed"}
    THEN [row EXCEPT !.status = "paid"]
    ELSE IF status = "canceled" /\ row.status \in Unpaid
    THEN [WithoutReservation(row) EXCEPT !.status = "canceled"]
    ELSE IF status \in {"failed", "refunded"} /\ row.status \in Unpaid
    THEN [WithoutReservation(row) EXCEPT !.status = "payment_failed"]
    ELSE row

ApplyEvent(s) ==
    /\ sess[s].pc = "webhook"
    /\ LET o == sess[s].order
           row == sess[s].mem
           e == sess[s].event
           new == AfterEvent(e.status, row)
       IN  /\ orders' = [orders EXCEPT ![o] = Flush(orders[o], row, new)]
           /\ keys' = KeysAfter(o, row, new)
           /\ processed' = processed \cup {e}
           /\ confirmed' = IF e.status = "succeeded" THEN confirmed \cup {o} ELSE confirmed
           /\ sess' = [sess EXCEPT ![s] =
                         IF e.status = "succeeded" THEN At("issue", o, new) ELSE Idle]
    /\ UNCHANGED <<jobs, listed, crashes>>

-----------------------------------------------------------------------------
(* The background loop: cleanup_expired_reservations, then reconcile.      *)

PassDeadline(o) ==
    /\ orders[o].status \in Unpaid
    /\ orders[o].deadline = "set"
    /\ orders' = [orders EXCEPT ![o] = [@ EXCEPT !.deadline = "past"]]
    /\ UNCHANGED <<keys, jobs, processed, confirmed, sess, listed, crashes>>

(* Mutant: one of the two unpaid states is forgotten. *)
ExpirableUnlessPending(row) == row.status = "created" /\ row.deadline = "past"

(* list_expired_reservations, and the tests repeated on each listed object *)
Expirable(row) == row.status \in Unpaid /\ row.deadline = "past"

ListExpired ==
    /\ sess[Worker].pc = "idle"
    /\ listed' = [o \in Orders |-> IF Expirable(orders[o]) THEN orders[o] ELSE AbsentRow]
    /\ sess' = [sess EXCEPT ![Worker] = At("sweep", NoOrder, AbsentRow)]
    /\ UNCHANGED <<orders, keys, jobs, processed, confirmed, crashes>>

ExpireReservations ==
    /\ sess[Worker].pc = "sweep"
    /\ LET due == {o \in Orders : Expirable(listed[o])}
           Expired(row) == [row EXCEPT !.status = "expired_reservation", !.reserved = NoKey]
       IN  /\ orders' = [o \in Orders |->
                            IF o \in due
                            THEN Flush(orders[o], listed[o], Expired(listed[o]))
                            ELSE orders[o]]
           /\ keys' = [k \in Keys |->
                            IF \E o \in due : listed[o].reserved = k /\ keys[k] = ReservedKey(o)
                            THEN AvailableKey ELSE keys[k]]
    /\ listed' = NothingListed
    /\ sess' = [sess EXCEPT ![Worker] = At("swept", NoOrder, AbsentRow)]
    /\ UNCHANGED <<jobs, processed, confirmed, crashes>>

(* reconcile looks at the pending orders old enough (any of them may be)   *)
(* and at every paid_but_not_issued one, and skips orders without a        *)
(* provider_payment_id.                                                    *)
ListStale ==
    /\ sess[Worker].pc = "swept"
    /\ \E old \in SUBSET {o \in Orders : orders[o].status = "pending_payment"} :
        listed' = [o \in Orders |->
                     IF /\ orders[o].payId
                        /\ o \in old \/ orders[o].status = "paid_but_not_issued"
                     THEN orders[o] ELSE AbsentRow]
    /\ sess' = [sess EXCEPT ![Worker] = At("recheck", NoOrder, AbsentRow)]
    /\ UNCHANGED <<orders, keys, jobs, processed, confirmed, crashes>>

(* Mutant: a payment that is not there yet is taken for a failed one. *)
AfterReportImpatient(status, row) ==
    IF row.status # "pending_payment" THEN row
    ELSE IF status = "succeeded" THEN [row EXCEPT !.status = "paid"]
    ELSE [WithoutReservation(row) EXCEPT !.status = "payment_failed"]

(* The row after the provider's answer, asked before the transaction. *)
AfterReport(status, row) ==
    IF row.status # "pending_payment" THEN row
    ELSE IF status = "succeeded" THEN [row EXCEPT !.status = "paid"]
    ELSE IF status \in {"canceled", "failed"}
    THEN [WithoutReservation(row) EXCEPT !.status = "payment_failed"]
    ELSE row

RecheckOrder(o) ==
    /\ sess[Worker].pc = "recheck"
    /\ listed[o].status # "absent"
    /\ \E status \in ReportedStatuses :
        LET row == listed[o]
            new == AfterReport(status, row)
        IN  /\ orders' = [orders EXCEPT ![o] = Flush(orders[o], row, new)]
            /\ keys' = KeysAfter(o, row, new)
            /\ confirmed' = IF status = "succeeded" THEN confirmed \cup {o} ELSE confirmed
            /\ sess' = IF status = "succeeded"
                       THEN [sess EXCEPT ![Worker] = At("issue", o, new)]
                       ELSE sess
    /\ listed' = [listed EXCEPT ![o] = AbsentRow]
    /\ UNCHANGED <<jobs, processed, crashes>>

EndIteration ==
    /\ sess[Worker].pc = "recheck"
    /\ listed = NothingListed
    /\ sess' = [sess EXCEPT ![Worker] = Idle]
    /\ UNCHANGED <<orders, keys, jobs, processed, confirmed, listed, crashes>>

-----------------------------------------------------------------------------
(* A process dies, a task is cancelled, or an exception leaves the handler *)
(* or the iteration: the open transaction is rolled back, the objects go.  *)
Crash(s) ==
    /\ sess[s].pc # "idle"
    /\ crashes < MaxCrashes
    /\ crashes' = crashes + 1
    /\ Leave(s)
    /\ UNCHANGED <<orders, keys, jobs, processed, confirmed>>

(* What a session does by itself once it was started. *)
Continue(s) ==
    \/ AttachPayment(s)
    \/ IssueKey(s)
    \/ MarkPaidButNotIssued(s)
    \/ RefuseToIssue(s)
    \/ ApplyEvent(s)

WorkerStep ==
    \/ ListExpired
    \/ ExpireReservations
    \/ ListStale
    \/ \E o \in Orders : RecheckOrder(o)
    \/ EndIteration

Next ==
    \/ \E s \in Handlers, o \in Orders : CreateOrder(s, o) \/ Confirm(s, o)
    \/ \E s \in Handlers, e \in Events : ReceiveEvent(s, e)
    \/ \E o \in Orders : Cancel(o) \/ Refund(o) \/ ReplaceKey(o) \/ PassDeadline(o)
    \/ \E s \in Sessions : Continue(s) \/ Crash(s)
    \/ WorkerStep

Spec == Init /\ [][Next]_vars

(* The event loop resumes every coroutine whose query was answered, the    *)
(* loop sleeps 15 seconds and runs again, and time passes.  Nothing makes  *)
(* a customer, an operator or the provider act.                            *)
Fairness ==
    /\ \A s \in Sessions : WF_vars(Continue(s))
    /\ WF_vars(WorkerStep)
    /\ \A o \in Orders : WF_vars(PassDeadline(o))

FairSpec == Spec /\ Fairness

-----------------------------------------------------------------------------
(* Invariants                                                              *)

(* Every variable keeps its type. *)
TypeOK ==
    /\ orders \in [Orders -> OrderRow]
    /\ keys \in [Keys -> KeyRow]
    /\ jobs \subseteq Orders \X Keys
    /\ processed \subseteq Events
    /\ confirmed \subseteq Orders
    /\ sess \in [Sessions -> [pc    : Phase,
                              order : Orders \cup {NoOrder},
                              mem   : OrderRow,
                              event : Events \cup {NoEvent}]]
    /\ listed \in [Orders -> OrderRow]
    /\ crashes \in 0..MaxCrashes

(* A key is marked reserved for exactly the order whose row names it: no   *)
(* key is lost in a reservation nobody holds and no order counts on a key  *)
(* that is back on the shelf or sold (the release tests in cancel, expiry, *)
(* webhook and reconcile, and the issue from a reservation).               *)
KeyOrderLink ==
    /\ \A k \in Keys :
        IF keys[k].status = "reserved"
        THEN keys[k].by \in Orders /\ orders[keys[k].by].reserved = k
        ELSE keys[k].by = NoOrder
    /\ \A o \in Orders :
        orders[o].reserved # NoKey => keys[orders[o].reserved] = ReservedKey(o)

(* No key is ever sold under two orders, now or in the past: the sessions  *)
(* issuing at the same time, the reservation released by the sweep and     *)
(* taken by another order, and the replacement never meet on one key.      *)
SoldOnce == \A j1, j2 \in jobs : j1[2] = j2[2] => j1 = j2

(* A key left the shelf for good exactly when its delivery to the buyer of *)
(* the order was queued in the same commit; the key an order shows as      *)
(* issued is live and was queued (_finalize_order_issue).                  *)
SaleIsQueued ==
    /\ \A k \in Keys :
        keys[k].status \in {"issued", "broken"} => \E o \in Orders : <<o, k>> \in jobs
    /\ \A j \in jobs :
        /\ keys[j[2]].status \in {"issued", "broken"}
        /\ keys[j[2]].owner = BuyerOf[j[1]]
    /\ \A o \in Orders :
        orders[o].issued # NoKey =>
            <<o, orders[o].issued>> \in jobs /\ keys[orders[o].issued].status = "issued"

(* No key is queued for an order whose payment no commit confirmed, and no *)
(* order is in a paid state without it, although sessions issue from rows  *)
(* they read before.                                                       *)
PaidBeforeKey ==
    /\ \A j \in jobs : j[1] \in confirmed
    /\ \A o \in Orders :
        orders[o].status \in Issuable \cup {"issued", "refunded"} => o \in confirmed

(* An order that was closed, failed, issued or found short of stock keeps  *)
(* no key from the shelf, whichever stale rows were flushed over it.       *)
ClosedHoldsNothing ==
    \A o \in Orders :
        orders[o].reserved # NoKey => orders[o].status \in Unpaid \cup {"paid", "refunded"}

(* A sold key is never put back on the shelf, reserved or given to another *)
(* user, and a broken one is never issued again (README: keys that were    *)
(* issued are not issued again).                                           *)
SoldForever ==
    [][\A k \in Keys :
        /\ keys[k].status \in {"issued", "broken"} =>
             keys'[k].status \in {"issued", "broken"} /\ keys'[k].owner = keys[k].owner
        /\ keys[k].status = "broken" => keys'[k].status = "broken"]_vars

(* What makes these inductive: a reservation remembered by a session is    *)
(* the one in the database or that one is gone, and a key remembered as    *)
(* issued was sold.  An order reserves a key once, when it is created, so  *)
(* a stale row never names an older key while the order holds a newer one, *)
(* and flushing it never loses a key.                                      *)
FaithfulMemory(o, row) ==
    /\ orders[o].status # "absent"
    /\ orders[o].reserved \in {NoKey, row.reserved}
    /\ row.issued # NoKey => keys[row.issued].status \in {"issued", "broken"}

Remembered ==
    /\ \A s \in Sessions :
        sess[s].pc \in {"attach", "issue", "webhook"} =>
            /\ sess[s].order \in Orders
            /\ FaithfulMemory(sess[s].order, sess[s].mem)
            /\ sess[s].pc = "webhook" => sess[s].event \in Events
    /\ \A o \in Orders : listed[o].status # "absent" => FaithfulMemory(o, listed[o])

-----------------------------------------------------------------------------
(* What nothing comes back to                                              *)

(* A refunded order still names a reserved key, and nobody works on it     *)
(* with a row read before the refund.                                      *)
Stranded(o) ==
    /\ orders[o].status = "refunded" /\ orders[o].reserved # NoKey
    /\ \A s \in Sessions : sess[s].order = o =>
         sess[s].pc \in {"webhook", "issue"} /\ sess[s].mem.status = "refunded"
    /\ listed[o].status = "absent"

(* Then the key stays in that reservation for good: cancel, expiry, events *)
(* and reconciliation all leave a refunded order alone (refund_order).     *)
StrandedForever ==
    [][\A o \in Orders :
        Stranded(o) => Stranded(o)' /\ orders'[o].reserved = orders[o].reserved]_vars

(* With donate_stream no order ever has a payment id, so reconcile passes  *)
(* over every order, and one that was short of stock waits for a person    *)
(* (create_order_with_payment writes the id inside a savepoint of a        *)
(* transaction nobody commits).                                            *)
DonateNeverReconciled ==
    Provider = "donate_stream" =>
        /\ \A o \in Orders : ~ orders[o].payId
        /\ sess[Worker].pc = "recheck" => listed = NothingListed
        /\ sess[Worker].pc # "issue"

(* Both providers in the repository answer every question about a payment  *)
(* with pending.  What reconcile then does to an order it holds a stale    *)
(* row of is nothing: it takes no key, fails no payment and puts nothing   *)
(* back that another session changed since; but it serves nobody either.   *)
(* All the loop ever writes are the expiries of its sweep.                 *)
PendingLeavesAlone ==
    [][/\ ReportedStatuses \subseteq {"pending"}
       /\ sess'[Worker] # sess[Worker] \/ listed' # listed
       /\ sess[Worker].pc # "sweep"
       => UNCHANGED <<orders, keys, jobs, confirmed>>]_vars

-----------------------------------------------------------------------------
(* Liveness                                                                *)

(* An unpaid order does not keep a key for ever: it is paid, canceled, or  *)
(* expired by the sweep, after any finite number of crashes.               *)
UnpaidReservationEnds ==
    \A o \in Orders :
        (orders[o].status \in Unpaid /\ orders[o].reserved # NoKey)
            ~> ~(orders[o].status \in Unpaid /\ orders[o].reserved # NoKey)

(* A paid order does not stay between payment and issue unless something   *)
(* crashes: it is issued, found short of stock, refunded or changed.       *)
PaidIsServed ==
    \A o \in Orders : orders[o].status = "paid" ~> (orders[o].status # "paid" \/ crashes > 0)

-----------------------------------------------------------------------------
(* What the repository says of itself and the program does not keep        *)

(* tests/test_payments.py, test_reconciliation_recovers_paid_but_not_issued*)
(* and the test of the same name for donate_stream: the loop issues what   *)
(* was short of stock as soon as there is stock.  Their provider answers   *)
(* succeeded; no provider of the repository does (PendingLeavesAlone).     *)
ShortOfStock(o) == orders[o].status = "paid_but_not_issued"
ShortfallRecovered ==
    \A o \in Orders : ShortOfStock(o) ~> (~ShortOfStock(o) \/ OnShelf = {})

(* tests/test_payments.py, test_repeated_manual_confirmation_is_idempotent:*)
(* confirming again gives the same key, so at most one live key is sold    *)
(* under one order.                                                        *)
OneLiveKeyPerOrder ==
    \A j1, j2 \in jobs :
        (/\ j1[1] = j2[1]
         /\ keys[j1[2]].status = "issued"
         /\ keys[j2[2]].status = "issued") => j1 = j2

(* No session takes up an order while another, or the loop's list, holds a *)
(* row of it that was read before.  Nothing in the code sees to it: it is  *)
(* what the properties around it take for granted (they are proved from it *)
(* in OrderLifecycleProofs).                                               *)
OneAtATime ==
    \A o \in Orders :
        /\ \A s, t \in Sessions : sess[s].order = o /\ sess[t].order = o => s = t
        /\ listed[o].status # "absent" => \A s \in Sessions : sess[s].order # o

(* No operator cancels or refunds an order that somebody works on, which   *)
(* mark_refunded and cancel_unpaid_order do not look for: likewise.        *)
OperatorsWait ==
    [][\A o \in Orders : Cancel(o) \/ Refund(o) =>
         listed[o].status = "absent" /\ \A s \in Sessions : sess[s].order # o]_vars

(* inventory.py gives "Reservation expired before payment confirmation."   *)
(* as the reason of every expiry: an order whose payment was confirmed     *)
(* does not expire.                                                        *)
ExpiresOnlyUnconfirmed ==
    [][\A o \in Orders :
        (orders[o].status # "expired_reservation" /\ orders'[o].status = "expired_reservation")
            => o \notin confirmed]_vars

(* issuing.py refuses an order that is neither paid nor                    *)
(* paid_but_not_issued as "not ready for issuing": the committed status an *)
(* issue replaces is one of the two.                                       *)
IssuesOnlyReadyOrders ==
    [][\A o \in Orders :
        (orders[o].status # "issued" /\ orders'[o].status = "issued")
            => orders[o].status \in Issuable]_vars

-----------------------------------------------------------------------------
(* The keys as KeyLedger promises them: each row of vpn_keys is a place.   *)
PlaceOf(row) ==
    [at    |-> CASE row.status = "available" -> "shelf"
                 [] row.status = "reserved" -> "held"
                 [] row.status = "issued" -> "sold"
                 [] row.status = "broken" -> "retired",
     order |-> row.by,
     user  |-> row.owner]

Ledger == INSTANCE KeyLedger WITH place <- [k \in Keys |-> PlaceOf(keys[k])]

(* Every step of the services is a step of the ledger or leaves it alone.  *)
ImplementsLedger == Ledger!Spec
=============================================================================
