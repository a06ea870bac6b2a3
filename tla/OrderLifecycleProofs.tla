------------------------ MODULE OrderLifecycleProofs ------------------------
(* Proofs about OrderLifecycle, for every value of its constants. *)
EXTENDS OrderLifecycle, TLAPS

(* Assigning columns of a row gives a row. *)
LEMMA RowUpdates ==
    ASSUME NEW row \in OrderRow
    PROVE  /\ \A status \in OrderStatus : [row EXCEPT !.status = status] \in OrderRow
           /\ \A status \in OrderStatus :
                [row EXCEPT !.status = status, !.reserved = NoKey] \in OrderRow
           /\ \A k \in Keys : [row EXCEPT !.issued = k, !.reserved = NoKey] \in OrderRow
           /\ \A k \in Keys, status \in OrderStatus :
                [row EXCEPT !.issued = k, !.reserved = NoKey, !.status = status] \in OrderRow
           /\ [row EXCEPT !.deadline = "past"] \in OrderRow
           /\ [row EXCEPT !.payId = TRUE, !.status = "pending_payment"] \in OrderRow
BY DEF OrderRow, OrderStatus

(* The columns of those rows. *)
LEMMA UpdatedColumns ==
    ASSUME NEW row \in OrderRow, NEW k, NEW status
    PROVE  /\ LET new == [row EXCEPT !.status = status]
              IN  /\ new.status = status /\ new.reserved = row.reserved
                  /\ new.issued = row.issued
           /\ LET new == [row EXCEPT !.status = status, !.reserved = NoKey]
              IN  /\ new.status = status /\ new.reserved = NoKey
                  /\ new.issued = row.issued
           /\ LET new == [row EXCEPT !.issued = k, !.reserved = NoKey]
              IN  /\ new.status = row.status /\ new.reserved = NoKey
                  /\ new.issued = k
           /\ LET new == [row EXCEPT !.issued = k, !.reserved = NoKey, !.status = status]
              IN  /\ new.status = status /\ new.reserved = NoKey
                  /\ new.issued = k
           /\ LET new == [row EXCEPT !.deadline = "past"]
              IN  /\ new.status = row.status /\ new.reserved = row.reserved
                  /\ new.issued = row.issued
BY DEF OrderRow

(* What a flush writes is a row. *)
LEMMA FlushType ==
    ASSUME NEW db \in OrderRow, NEW old \in OrderRow, NEW new \in OrderRow
    PROVE  Flush(db, old, new) \in OrderRow
BY DEF Flush, OrderRow

(* The row of an order that does not exist is a row.                       *)
LEMMA AbsentRowType == AbsentRow \in OrderRow
BY DEF AbsentRow, OrderRow, OrderStatus

SessionRow == [pc : Phase, order : Orders \cup {NoOrder},
               mem : OrderRow, event : Events \cup {NoEvent}]

(* A session in a phase has a session's type,                              *)
LEMMA AtType ==
    ASSUME NEW phase \in Phase, NEW o \in Orders \cup {NoOrder}, NEW mem \in OrderRow
    PROVE  At(phase, o, mem) \in SessionRow
BY DEF At, SessionRow

(* and so has an idle one.                                                 *)
LEMMA IdleType == Idle \in SessionRow
BY AbsentRowType DEF Idle, Phase, SessionRow

(* The rows of vpn_keys the services write are rows.                       *)
LEMMA KeyRowTypes ==
    ASSUME ConstantsAssumption
    PROVE  /\ AvailableKey \in KeyRow
           /\ \A o \in Orders : ReservedKey(o) \in KeyRow
           /\ \A o \in Orders : IssuedKey(BuyerOf[o]) \in KeyRow
BY DEF ConstantsAssumption, AvailableKey, ReservedKey, IssuedKey, KeyRow

(* The rows an event or a report turns a row into. *)
LEMMA AfterType ==
    ASSUME NEW row \in OrderRow, NEW status
    PROVE  /\ AfterEvent(status, row) \in OrderRow
           /\ AfterReport(status, row) \in OrderRow
BY DEF AfterEvent, AfterReport, WithoutReservation, OrderRow, OrderStatus

(* Releasing a reservation keeps the keys' type.                           *)
LEMMA ReleasedType ==
    ASSUME TypeOK, ConstantsAssumption, NEW o \in Orders,
           NEW row \in OrderRow, NEW new \in OrderRow
    PROVE  /\ Released(o, row) \in [Keys -> KeyRow]
           /\ KeysAfter(o, row, new) \in [Keys -> KeyRow]
BY KeyRowTypes DEF TypeOK, Released, KeysAfter

-----------------------------------------------------------------------------
(* Type correctness                                                        *)

(* The empty database has the right type.                                  *)
LEMMA InitType == ConstantsAssumption /\ Init => TypeOK
<1> SUFFICES ASSUME ConstantsAssumption, Init PROVE TypeOK
  OBVIOUS
<1>1. sess \in [Sessions -> SessionRow]
  BY IdleType DEF Init
<1>2. orders \in [Orders -> OrderRow] /\ listed \in [Orders -> OrderRow]
  BY AbsentRowType DEF Init, NothingListed
<1>3. keys \in [Keys -> KeyRow]
  BY KeyRowTypes DEF Init
<1>4. crashes \in 0..MaxCrashes
  BY DEF Init, ConstantsAssumption
<1> QED
  BY <1>1, <1>2, <1>3, <1>4 DEF Init, TypeOK, SessionRow

(* The customer's and the operator's operations. *)
LEMMA OrderOperationsType ==
    ASSUME ConstantsAssumption, TypeOK, NEW o \in Orders
    PROVE  /\ \A s \in Handlers : CreateOrder(s, o) => TypeOK'
           /\ \A s \in Handlers : Confirm(s, o) => TypeOK'
           /\ Cancel(o) => TypeOK'
           /\ Refund(o) => TypeOK'
           /\ ReplaceKey(o) => TypeOK'
           /\ PassDeadline(o) => TypeOK'
<1> USE KeyRowTypes DEF TypeOK, OnShelf
<1>1. ASSUME NEW s \in Handlers, CreateOrder(s, o) PROVE TypeOK'
  <2> s \in Sessions
    BY DEF Sessions
  <2>1. PICK k \in OnShelf :
          LET row == [status |-> "created", reserved |-> k, issued |-> NoKey,
                      payId |-> FALSE, deadline |-> "set"]
          IN  /\ keys' = [keys EXCEPT ![k] = ReservedKey(o)]
              /\ orders' = [orders EXCEPT ![o] = row]
              /\ sess' = IF Provider = "fake"
                         THEN [sess EXCEPT ![s] = At("attach", o, row)]
                         ELSE sess
    BY <1>1 DEF CreateOrder
  <2> DEFINE row == [status |-> "created", reserved |-> k, issued |-> NoKey,
                     payId |-> FALSE, deadline |-> "set"]
  <2>2. row \in OrderRow
    BY DEF OrderRow, OrderStatus
  <2>3. At("attach", o, row) \in SessionRow
    BY <2>2, AtType DEF Phase
  <2>4. sess' \in [Sessions -> SessionRow]
    BY <2>1, <2>3 DEF SessionRow
  <2>5. orders' \in [Orders -> OrderRow]
    BY <2>1, <2>2
  <2>6. keys' \in [Keys -> KeyRow]
    BY <2>1
  <2> QED
    BY <1>1, <2>4, <2>5, <2>6 DEF CreateOrder, SessionRow
<1>2. ASSUME NEW s \in Handlers, Confirm(s, o) PROVE TypeOK'
  <2> s \in Sessions
    BY DEF Sessions
  <2> DEFINE row == [orders[o] EXCEPT !.status = "paid"]
  <2>1. row \in OrderRow
    BY RowUpdates DEF OrderStatus
  <2>2. At("issue", o, row) \in SessionRow
    BY <2>1, AtType DEF Phase
  <2>3. sess' \in [Sessions -> SessionRow] /\ orders' \in [Orders -> OrderRow]
    BY <1>2, <2>1, <2>2 DEF Confirm, SessionRow
  <2> QED
    BY <1>2, <2>3 DEF Confirm, SessionRow
<1>3. ASSUME Cancel(o) PROVE TypeOK'
  <2>1. Released(o, orders[o]) \in [Keys -> KeyRow]
    BY ReleasedType
  <2>2. orders' \in [Orders -> OrderRow]
    BY <1>3, RowUpdates DEF Cancel, OrderStatus
  <2> QED
    BY <1>3, <2>1, <2>2 DEF Cancel
<1>4. ASSUME Refund(o) PROVE TypeOK'
  <2>1. orders' \in [Orders -> OrderRow]
    BY <1>4, RowUpdates DEF Refund, OrderStatus
  <2> QED
    BY <1>4, <2>1 DEF Refund
<1>5. ASSUME ReplaceKey(o) PROVE TypeOK'
  <2>1. PICK k \in OnShelf :
          /\ keys' = [keys EXCEPT ![k] = IssuedKey(BuyerOf[o]),
                                  ![orders[o].issued] = [@ EXCEPT !.status = "broken"]]
          /\ orders' = [orders EXCEPT ![o] = [@ EXCEPT !.issued = k, !.reserved = NoKey]]
          /\ jobs' = jobs \cup {<<o, k>>}
    BY <1>5 DEF ReplaceKey
  <2>2. orders[o].issued \in Keys
    BY <1>5 DEF ReplaceKey, OrderRow
  <2>3. IssuedKey(BuyerOf[o]) \in KeyRow
    OBVIOUS
  <2>4. \A row \in KeyRow : [row EXCEPT !.status = "broken"] \in KeyRow
    BY DEF KeyRow
  <2>5. keys' \in [Keys -> KeyRow]
    BY <2>1, <2>2, <2>3, <2>4
  <2>6. orders' \in [Orders -> OrderRow]
    BY <2>1, RowUpdates
  <2> QED
    BY <1>5, <2>1, <2>5, <2>6 DEF ReplaceKey
<1>6. ASSUME PassDeadline(o) PROVE TypeOK'
  <2>1. orders' \in [Orders -> OrderRow]
    BY <1>6, RowUpdates DEF PassDeadline
  <2> QED
    BY <1>6, <2>1 DEF PassDeadline
<1> QED
  BY <1>1, <1>2, <1>3, <1>4, <1>5, <1>6

(* The steps of a session that was started, and a crash. *)
LEMMA LeaveType ==
    ASSUME TypeOK, NEW s \in Sessions, Leave(s)
    PROVE  /\ sess' \in [Sessions -> SessionRow]
           /\ listed' \in [Orders -> OrderRow]
BY IdleType, AbsentRowType DEF TypeOK, Leave, NothingListed, SessionRow

(* Where a session goes after an issue is a session's row.                 *)
LEMMA AfterIssueType == ASSUME NEW s PROVE AfterIssue(s) \in SessionRow
BY IdleType, AbsentRowType, AtType DEF AfterIssue, Phase

(* The keys an issue may choose from are keys.                             *)
LEMMA KeysToIssueType ==
    ASSUME TypeOK, NEW o \in Orders, NEW row \in OrderRow
    PROVE  KeysToIssue(o, row) \subseteq Keys
BY DEF KeysToIssue, ReservedFor, OnShelf, OrderRow

(* What a session does by itself keeps the types.                          *)
LEMMA SessionStepsType ==
    ASSUME ConstantsAssumption, TypeOK, Remembered, NEW s \in Sessions
    PROVE  /\ Continue(s) => TypeOK'
           /\ Crash(s) => TypeOK'
<1> USE DEF TypeOK
<1> DEFINE o == sess[s].order
           row == sess[s].mem
<1>0. /\ row \in OrderRow
      /\ sess \in [Sessions -> SessionRow]
      /\ sess[s].pc \in {"attach", "issue", "webhook"} => o \in Orders
  BY DEF Remembered, SessionRow
<1>1. ASSUME AttachPayment(s) PROVE TypeOK'
  <2> DEFINE new == [row EXCEPT !.payId = TRUE, !.status = "pending_payment"]
  <2>1. o \in Orders
    BY <1>0, <1>1 DEF AttachPayment
  <2>2. new \in OrderRow
    BY <1>0, RowUpdates
  <2>3. Flush(orders[o], row, new) \in OrderRow
    BY <1>0, <2>1, <2>2, FlushType
  <2>4. orders' \in [Orders -> OrderRow]
    BY <1>1, <2>1, <2>3 DEF AttachPayment
  <2>5. sess' \in [Sessions -> SessionRow]
    BY <1>0, <1>1, IdleType DEF AttachPayment
  <2> QED
    BY <1>1, <2>4, <2>5 DEF AttachPayment, SessionRow
<1>2. ASSUME IssueKey(s) PROVE TypeOK'
  <2>1. o \in Orders
    BY <1>0, <1>2 DEF IssueKey
  <2>2. PICK k \in KeysToIssue(o, row) :
          LET new == [row EXCEPT !.issued = k, !.reserved = NoKey, !.status = "issued"]
          IN  /\ keys' = [keys EXCEPT ![k] = IssuedKey(BuyerOf[o])]
              /\ orders' = [orders EXCEPT ![o] = Flush(orders[o], row, new)]
              /\ jobs' = jobs \cup {<<o, k>>}
    BY <1>2 DEF IssueKey
  <2> DEFINE new == [row EXCEPT !.issued = k, !.reserved = NoKey, !.status = "issued"]
  <2>3. k \in Keys
    BY <1>0, <2>1, <2>2, KeysToIssueType
  <2>4. new \in OrderRow
    BY <1>0, <2>3, RowUpdates DEF OrderStatus
  <2>5. Flush(orders[o], row, new) \in OrderRow
    BY <1>0, <2>1, <2>4, FlushType
  <2>6. orders' \in [Orders -> OrderRow]
    BY <2>1, <2>2, <2>5
  <2>7. keys' \in [Keys -> KeyRow]
    BY <2>1, <2>2, <2>3, KeyRowTypes
  <2>8. sess' \in [Sessions -> SessionRow]
    BY <1>0, <1>2, AfterIssueType DEF IssueKey
  <2> QED
    BY <1>2, <2>1, <2>2, <2>3, <2>6, <2>7, <2>8 DEF IssueKey, SessionRow
<1>3. ASSUME MarkPaidButNotIssued(s) PROVE TypeOK'
  <2> DEFINE new == [row EXCEPT !.status = "paid_but_not_issued"]
  <2>1. o \in Orders
    BY <1>0, <1>3 DEF MarkPaidButNotIssued
  <2>2. new \in OrderRow
    BY <1>0, RowUpdates DEF OrderStatus
  <2>3. Flush(orders[o], row, new) \in OrderRow
    BY <1>0, <2>1, <2>2, FlushType
  <2>4. orders' \in [Orders -> OrderRow]
    BY <1>3, <2>1, <2>3 DEF MarkPaidButNotIssued
  <2>5. sess' \in [Sessions -> SessionRow]
    BY <1>0, <1>3, AfterIssueType DEF MarkPaidButNotIssued
  <2> QED
    BY <1>3, <2>4, <2>5 DEF MarkPaidButNotIssued, SessionRow
<1>4. ASSUME RefuseToIssue(s) PROVE TypeOK'
  BY <1>4, LeaveType DEF RefuseToIssue, SessionRow
<1>5. ASSUME ApplyEvent(s) PROVE TypeOK'
  <2> DEFINE e == sess[s].event
             new == AfterEvent(e.status, row)
  <2>1. o \in Orders
    BY <1>0, <1>5 DEF ApplyEvent
  <2>2. new \in OrderRow
    BY <1>0, AfterType
  <2>3. Flush(orders[o], row, new) \in OrderRow
    BY <1>0, <2>1, <2>2, FlushType
  <2>4. orders' \in [Orders -> OrderRow]
    BY <1>5, <2>1, <2>3 DEF ApplyEvent
  <2>5. KeysAfter(o, row, new) \in [Keys -> KeyRow]
    BY <1>0, <2>1, <2>2, ReleasedType
  <2>6. keys' \in [Keys -> KeyRow]
    BY <1>5, <2>5 DEF ApplyEvent
  <2>7. At("issue", o, new) \in SessionRow
    BY <2>1, <2>2, AtType DEF Phase
  <2>8. sess' \in [Sessions -> SessionRow]
    BY <1>0, <1>5, <2>7, IdleType DEF ApplyEvent
  <2>9. e \in Events
    BY <1>5 DEF ApplyEvent, Remembered
  <2> QED
    BY <1>5, <2>1, <2>4, <2>6, <2>8, <2>9 DEF ApplyEvent, SessionRow
<1>6. ASSUME Crash(s) PROVE TypeOK'
  BY <1>6, LeaveType DEF Crash, SessionRow, ConstantsAssumption
<1> QED
  BY <1>1, <1>2, <1>3, <1>4, <1>5, <1>6 DEF Continue

(* The background loop, and the arrival of an event. *)
LEMMA LoopType ==
    ASSUME ConstantsAssumption, TypeOK
    PROVE  /\ WorkerStep => TypeOK'
           /\ \A s \in Handlers, e \in Events : ReceiveEvent(s, e) => TypeOK'
<1> USE DEF TypeOK
<1>0. /\ Worker \in Sessions
      /\ sess \in [Sessions -> SessionRow]
      /\ \A phase \in Phase : At(phase, NoOrder, AbsentRow) \in SessionRow
  BY AtType, AbsentRowType DEF Sessions, SessionRow
<1>1. ASSUME ListExpired PROVE TypeOK'
  <2>1. listed' \in [Orders -> OrderRow]
    BY <1>1, AbsentRowType DEF ListExpired
  <2>2. sess' \in [Sessions -> SessionRow]
    BY <1>0, <1>1 DEF ListExpired, Phase
  <2> QED
    BY <1>1, <2>1, <2>2 DEF ListExpired, SessionRow
<1>2. ASSUME ExpireReservations PROVE TypeOK'
  <2> DEFINE Expired(row) == [row EXCEPT !.status = "expired_reservation", !.reserved = NoKey]
  <2>1. ASSUME NEW o \in Orders
        PROVE  Flush(orders[o], listed[o], Expired(listed[o])) \in OrderRow
    <3>1. Expired(listed[o]) \in OrderRow
      BY RowUpdates DEF OrderStatus
    <3> QED
      BY <3>1, FlushType
  <2>2. orders' \in [Orders -> OrderRow]
    BY <1>2, <2>1 DEF ExpireReservations
  <2>3. keys' \in [Keys -> KeyRow]
    BY <1>2, KeyRowTypes DEF ExpireReservations
  <2>4. listed' \in [Orders -> OrderRow]
    BY <1>2, AbsentRowType DEF ExpireReservations, NothingListed
  <2>5. sess' \in [Sessions -> SessionRow]
    BY <1>0, <1>2 DEF ExpireReservations, Phase
  <2> QED
    BY <1>2, <2>2, <2>3, <2>4, <2>5 DEF ExpireReservations, SessionRow
<1>3. ASSUME ListStale PROVE TypeOK'
  <2>1. listed' \in [Orders -> OrderRow]
    BY <1>3, AbsentRowType DEF ListStale
  <2>2. sess' \in [Sessions -> SessionRow]
    BY <1>0, <1>3 DEF ListStale, Phase
  <2> QED
    BY <1>3, <2>1, <2>2 DEF ListStale, SessionRow
<1>4. ASSUME NEW o \in Orders, RecheckOrder(o) PROVE TypeOK'
  <2> DEFINE row == listed[o]
  <2>1. PICK status \in ReportedStatuses :
          LET new == AfterReport(status, row)
          IN  /\ orders' = [orders EXCEPT ![o] = Flush(orders[o], row, new)]
              /\ keys' = KeysAfter(o, row, new)
              /\ confirmed' = IF status = "succeeded" THEN confirmed \cup {o} ELSE confirmed
              /\ sess' = IF status = "succeeded"
                         THEN [sess EXCEPT ![Worker] = At("issue", o, new)]
                         ELSE sess
    BY <1>4 DEF RecheckOrder
  <2> DEFINE new == AfterReport(status, row)
  <2>2. new \in OrderRow
    BY AfterType
  <2>3. orders' \in [Orders -> OrderRow]
    BY <2>1, <2>2, FlushType
  <2>4. keys' \in [Keys -> KeyRow]
    BY <2>1, <2>2, ReleasedType
  <2>5. At("issue", o, new) \in SessionRow
    BY <2>2, AtType DEF Phase
  <2>6. sess' \in [Sessions -> SessionRow]
    BY <1>0, <2>1, <2>5
  <2>7. listed' \in [Orders -> OrderRow]
    BY <1>4, AbsentRowType DEF RecheckOrder
  <2> QED
    BY <1>4, <2>1, <2>3, <2>4, <2>6, <2>7 DEF RecheckOrder, SessionRow
<1>5. ASSUME EndIteration PROVE TypeOK'
  BY <1>0, <1>5, IdleType DEF EndIteration, SessionRow
<1>6. ASSUME NEW s \in Handlers, NEW e \in Events, ReceiveEvent(s, e) PROVE TypeOK'
  <2>1. e.order \in Orders
    BY DEF ConstantsAssumption
  <2>2. [pc |-> "webhook", order |-> e.order, mem |-> orders[e.order], event |-> e]
          \in SessionRow
    BY <2>1 DEF SessionRow, Phase
  <2>3. sess' \in [Sessions -> SessionRow]
    BY <1>0, <1>6, <2>2 DEF ReceiveEvent
  <2> QED
    BY <1>6, <2>3 DEF ReceiveEvent, SessionRow
<1> QED
  BY <1>1, <1>2, <1>3, <1>4, <1>5, <1>6 DEF WorkerStep

(* Every step keeps the types; Remembered says that a session that works   *)
(* on an order names one.                                                  *)
LEMMA NextType ==
    ASSUME ConstantsAssumption, TypeOK, Remembered, [Next]_vars
    PROVE  TypeOK'
<1>1. CASE UNCHANGED vars
  BY <1>1 DEF vars, TypeOK
<1>2. CASE Next
  <2>1. ASSUME NEW s \in Handlers, NEW o \in Orders, CreateOrder(s, o) \/ Confirm(s, o)
        PROVE  TypeOK'
    BY <2>1, OrderOperationsType
  <2>2. ASSUME NEW s \in Handlers, NEW e \in Events, ReceiveEvent(s, e) PROVE TypeOK'
    BY <2>2, LoopType
  <2>3. ASSUME NEW o \in Orders, Cancel(o) \/ Refund(o) \/ ReplaceKey(o) \/ PassDeadline(o)
        PROVE  TypeOK'
    BY <2>3, OrderOperationsType
  <2>4. ASSUME NEW s \in Sessions, Continue(s) \/ Crash(s) PROVE TypeOK'
    BY <2>4, SessionStepsType
  <2>5. ASSUME WorkerStep PROVE TypeOK'
    BY <2>5, LoopType
  <2> QED
    BY <1>2, <2>1, <2>2, <2>3, <2>4, <2>5 DEF Next
<1> QED
  BY <1>1, <1>2

-----------------------------------------------------------------------------
(* What a step does to the keys.  Every step of the system is one of five  *)
(* kinds; the invariants about keys follow from the kind alone.            *)

SameBut(O) ==
    \A p \in Orders \ O : /\ orders'[p].reserved = orders[p].reserved
                         /\ orders'[p].issued = orders[p].issued

Quiet == keys' = keys /\ jobs' = jobs /\ SameBut({})

Reserves(o, k) ==
    /\ k \in OnShelf
    /\ orders[o].status = "absent"
    /\ keys' = [keys EXCEPT ![k] = ReservedKey(o)]
    /\ jobs' = jobs
    /\ SameBut({o})
    /\ orders'[o].reserved = k /\ orders'[o].issued = NoKey

Releases(O) ==
    /\ keys' = [k \in Keys |-> IF \E o \in O : orders[o].reserved = k
                              THEN AvailableKey ELSE keys[k]]
    /\ jobs' = jobs
    /\ SameBut(O)
    /\ \A o \in O : orders'[o].reserved = NoKey /\ orders'[o].issued = orders[o].issued

Sells(o, k) ==
    /\ orders[o].reserved = k \/ (orders[o].reserved = NoKey /\ k \in OnShelf)
    /\ keys' = [keys EXCEPT ![k] = IssuedKey(BuyerOf[o])]
    /\ jobs' = jobs \cup {<<o, k>>}
    /\ SameBut({o})
    /\ orders'[o].reserved = NoKey /\ orders'[o].issued = k

Replaces(o, k) ==
    /\ orders[o].reserved = NoKey
    /\ orders[o].issued \in Keys
    /\ k \in OnShelf
    /\ keys' = [keys EXCEPT ![k] = IssuedKey(BuyerOf[o]),
                            ![orders[o].issued] = [@ EXCEPT !.status = "broken"]]
    /\ jobs' = jobs \cup {<<o, k>>}
    /\ SameBut({o})
    /\ orders'[o].reserved = NoKey /\ orders'[o].issued = k

KeyStep ==
    \/ Quiet
    \/ \E o \in Orders, k \in Keys : Reserves(o, k) \/ Sells(o, k) \/ Replaces(o, k)
    \/ \E O \in SUBSET Orders : Releases(O)

(* A key on the shelf carries nothing of an earlier order or owner. *)
ShelfIsClean == \A k \in OnShelf : keys[k] = AvailableKey

KeyInv ==
    /\ TypeOK
    /\ KeyOrderLink
    /\ Remembered
    /\ ClosedHoldsNothing
    /\ ShelfIsClean
    /\ SaleIsQueued
    /\ SoldOnce

(* The test on the freshly locked key sees through the stale row: it holds *)
(* exactly when the order still has the reservation.                       *)
LEMMA StaleRow ==
    ASSUME ConstantsAssumption, TypeOK, KeyOrderLink, NEW o \in Orders, NEW row \in OrderRow,
           orders[o].reserved \in {NoKey, row.reserved}
    PROVE  /\ ReservedFor(o, row) => row.reserved \in Keys /\ orders[o].reserved = row.reserved
           /\ ~ReservedFor(o, row) => orders[o].reserved = NoKey
<1>1. ASSUME ReservedFor(o, row)
      PROVE  row.reserved \in Keys /\ orders[o].reserved = row.reserved
  <2>1. row.reserved \in Keys /\ keys[row.reserved] = ReservedKey(o)
    BY <1>1 DEF ReservedFor, OrderRow
  <2> QED
    BY <2>1 DEF KeyOrderLink, ReservedKey
<1>2. ASSUME ~ReservedFor(o, row) PROVE orders[o].reserved = NoKey
  BY <1>2 DEF ReservedFor, KeyOrderLink
<1> QED
  BY <1>1, <1>2

(* What a flush makes of the columns that link an order to keys. *)
LEMMA FlushReserved ==
    ASSUME NEW db, NEW old, NEW new,
           db.reserved \in {NoKey, old.reserved},
           new.reserved \in {NoKey, old.reserved}
    PROVE  /\ Flush(db, old, new).reserved =
                  IF new.reserved = old.reserved THEN db.reserved ELSE NoKey
           /\ new.reserved = NoKey => Flush(db, old, new).reserved = NoKey
           /\ Flush(db, old, new).reserved \in {NoKey, new.reserved}
           /\ new.issued = old.issued => Flush(db, old, new).issued = db.issued
BY DEF Flush

(* An event or a report drops the reservation or leaves it, and never      *)
(* touches the issued key.                                                 *)
LEMMA AfterReserved ==
    ASSUME NEW row \in OrderRow, NEW status
    PROVE  /\ AfterEvent(status, row).reserved \in {NoKey, row.reserved}
           /\ AfterEvent(status, row).issued = row.issued
           /\ AfterReport(status, row).reserved \in {NoKey, row.reserved}
           /\ AfterReport(status, row).issued = row.issued
BY DEF AfterEvent, AfterReport, WithoutReservation, OrderRow

(* A row flushed with KeysAfter is a release, or leaves the keys alone. *)
LEMMA FlushedRelease ==
    ASSUME ConstantsAssumption, TypeOK, KeyOrderLink, NEW o \in Orders,
           NEW row \in OrderRow, NEW new \in OrderRow,
           orders[o].reserved \in {NoKey, row.reserved},
           new.reserved \in {NoKey, row.reserved},
           new.issued = row.issued,
           orders' = [orders EXCEPT ![o] = Flush(orders[o], row, new)],
           keys' = KeysAfter(o, row, new),
           jobs' = jobs
    PROVE  Quiet \/ Releases({o})
<1>1. \A p \in Orders \ {o} : orders'[p] = orders[p]
  BY DEF TypeOK
<1>2. orders'[o] = Flush(orders[o], row, new)
  BY DEF TypeOK
<1>3. orders'[o].issued = orders[o].issued
  BY <1>2, FlushReserved
<1>4. CASE new.reserved = row.reserved
  <2>1. orders'[o].reserved = orders[o].reserved
    BY <1>2, <1>4, FlushReserved
  <2> QED
    BY <1>1, <1>3, <1>4, <2>1 DEF Quiet, SameBut, KeysAfter
<1>5. CASE new.reserved # row.reserved
  <2>1. orders'[o].reserved = NoKey
    BY <1>2, <1>5, FlushReserved
  <2>2. keys' = Released(o, row)
    BY <1>5 DEF KeysAfter
  <2>3. keys' = [k \in Keys |-> IF orders[o].reserved = k THEN AvailableKey ELSE keys[k]]
    <3>1. CASE ReservedFor(o, row)
      <4>1. row.reserved \in Keys /\ orders[o].reserved = row.reserved
        BY <3>1, StaleRow
      <4>2. keys' = [keys EXCEPT ![row.reserved] = AvailableKey]
        BY <2>2, <3>1 DEF Released
      <4>3. keys \in [Keys -> KeyRow]
        BY DEF TypeOK
      <4> QED
        BY <4>1, <4>2, <4>3
    <3>2. CASE ~ReservedFor(o, row)
      BY <2>2, <3>2, StaleRow DEF Released, TypeOK, ConstantsAssumption
    <3> QED
      BY <3>1, <3>2
  <2> QED
    BY <1>1, <1>3, <2>1, <2>3 DEF Releases, SameBut
<1> QED
  BY <1>4, <1>5

(* The customer's and the operator's operations are key steps.             *)
LEMMA OrderOperationsAreKeySteps ==
    ASSUME ConstantsAssumption, KeyInv, NEW o \in Orders
    PROVE  /\ \A s \in Handlers : CreateOrder(s, o) => KeyStep
           /\ \A s \in Handlers : Confirm(s, o) => KeyStep
           /\ Cancel(o) => KeyStep
           /\ Refund(o) => KeyStep
           /\ ReplaceKey(o) => KeyStep
           /\ PassDeadline(o) => KeyStep
<1>0. orders \in [Orders -> OrderRow] /\ OnShelf \subseteq Keys
  BY DEF KeyInv, TypeOK, OnShelf
<1>1. ASSUME NEW s \in Handlers, CreateOrder(s, o) PROVE KeyStep
  <2>1. PICK k \in OnShelf :
          LET row == [status |-> "created", reserved |-> k, issued |-> NoKey,
                      payId |-> FALSE, deadline |-> "set"]
          IN  /\ keys' = [keys EXCEPT ![k] = ReservedKey(o)]
              /\ orders' = [orders EXCEPT ![o] = row]
    BY <1>1 DEF CreateOrder
  <2>2. Reserves(o, k)
    BY <1>0, <1>1, <2>1 DEF CreateOrder, Reserves, SameBut
  <2> QED
    BY <1>0, <2>1, <2>2 DEF KeyStep
<1>2. ASSUME NEW s \in Handlers, Confirm(s, o) PROVE KeyStep
  BY <1>0, <1>2 DEF Confirm, KeyStep, Quiet, SameBut, OrderRow
<1>3. ASSUME Cancel(o) PROVE KeyStep
  <2>1. keys' = [k \in Keys |-> IF orders[o].reserved = k THEN AvailableKey ELSE keys[k]]
    <3>1. keys \in [Keys -> KeyRow] /\ orders[o] \in OrderRow
      BY DEF KeyInv, TypeOK
    <3>2. keys' = Released(o, orders[o])
      BY <1>3 DEF Cancel
    <3>3. CASE orders[o].reserved = NoKey
      BY <3>1, <3>2, <3>3 DEF Released, ReservedFor, ConstantsAssumption
    <3>4. CASE orders[o].reserved # NoKey
      <4>1. ReservedFor(o, orders[o]) /\ orders[o].reserved \in Keys
        BY <3>1, <3>4, StaleRow DEF KeyInv
      <4> QED
        BY <3>1, <3>2, <4>1 DEF Released
    <3> QED
      BY <3>3, <3>4
  <2>2. Releases({o})
    BY <1>0, <1>3, <2>1 DEF Cancel, Releases, SameBut, OrderRow
  <2> QED
    BY <2>2 DEF KeyStep
<1>4. ASSUME Refund(o) PROVE KeyStep
  BY <1>0, <1>4 DEF Refund, KeyStep, Quiet, SameBut, OrderRow
<1>5. ASSUME ReplaceKey(o) PROVE KeyStep
  <2>1. PICK k \in OnShelf :
          /\ keys' = [keys EXCEPT ![k] = IssuedKey(BuyerOf[o]),
                                  ![orders[o].issued] = [@ EXCEPT !.status = "broken"]]
          /\ orders' = [orders EXCEPT ![o] = [@ EXCEPT !.issued = k, !.reserved = NoKey]]
          /\ jobs' = jobs \cup {<<o, k>>}
    BY <1>5 DEF ReplaceKey
  <2>2. orders[o].issued \in Keys
    BY <1>0, <1>5 DEF ReplaceKey, OrderRow
  <2>3. orders[o].reserved = NoKey
    BY <1>5 DEF ReplaceKey, KeyInv, ClosedHoldsNothing, Unpaid
  <2>4. Replaces(o, k)
    BY <1>0, <2>1, <2>2, <2>3 DEF Replaces, SameBut, OrderRow
  <2> QED
    BY <1>0, <2>1, <2>4 DEF KeyStep
<1>6. ASSUME PassDeadline(o) PROVE KeyStep
  BY <1>0, <1>6 DEF PassDeadline, KeyStep, Quiet, SameBut, OrderRow
<1> QED
  BY <1>1, <1>2, <1>3, <1>4, <1>5, <1>6

(* The payment's second transaction, the issue, the webhook and a crash    *)
(* are key steps.                                                          *)
LEMMA SessionStepsAreKeySteps ==
    ASSUME ConstantsAssumption, KeyInv, NEW s \in Sessions
    PROVE  Continue(s) \/ Crash(s) => KeyStep
<1> DEFINE o == sess[s].order
           row == sess[s].mem
<1>0. /\ orders \in [Orders -> OrderRow] /\ OnShelf \subseteq Keys
      /\ row \in OrderRow
      /\ sess[s].pc \in {"attach", "issue", "webhook"} =>
            o \in Orders /\ orders[o].reserved \in {NoKey, row.reserved}
  BY DEF KeyInv, TypeOK, OnShelf, Remembered, FaithfulMemory
<1>1. ASSUME AttachPayment(s) PROVE KeyStep
  <2> DEFINE new == [row EXCEPT !.payId = TRUE, !.status = "pending_payment"]
  <2>1. new.reserved = row.reserved /\ new.issued = row.issued
    BY <1>0 DEF OrderRow
  <2>2. orders' = [orders EXCEPT ![o] = Flush(orders[o], row, new)] /\ o \in Orders
    BY <1>0, <1>1 DEF AttachPayment
  <2>3. /\ orders'[o].reserved = orders[o].reserved
        /\ orders'[o].issued = orders[o].issued
    BY <1>0, <2>1, <2>2 DEF Flush
  <2>4. Quiet
    BY <1>0, <1>1, <2>2, <2>3 DEF AttachPayment, Quiet, SameBut
  <2> QED
    BY <2>4 DEF KeyStep
<1>2. ASSUME IssueKey(s) PROVE KeyStep
  <2>0. o \in Orders /\ orders[o].reserved \in {NoKey, row.reserved}
    BY <1>0, <1>2 DEF IssueKey
  <2>1. PICK k \in KeysToIssue(o, row) :
          LET new == [row EXCEPT !.issued = k, !.reserved = NoKey, !.status = "issued"]
          IN  /\ keys' = [keys EXCEPT ![k] = IssuedKey(BuyerOf[o])]
              /\ orders' = [orders EXCEPT ![o] = Flush(orders[o], row, new)]
              /\ jobs' = jobs \cup {<<o, k>>}
    BY <1>2 DEF IssueKey
  <2> DEFINE new == [row EXCEPT !.issued = k, !.reserved = NoKey, !.status = "issued"]
  <2>2. /\ k \in Keys
        /\ orders[o].reserved = k \/ (orders[o].reserved = NoKey /\ k \in OnShelf)
    BY <1>0, <2>0, <2>1, StaleRow DEF KeysToIssue, KeyInv
  <2>3. new.reserved = NoKey /\ new.issued = k
    BY <1>0 DEF OrderRow
  <2>9. row.issued # k
    <3>1. row.issued # NoKey => keys[row.issued].status \in {"issued", "broken"}
      BY <1>2 DEF IssueKey, KeyInv, Remembered, FaithfulMemory
    <3>2. keys[k].status \in {"available", "reserved"}
      BY <1>0, <2>0, <2>1 DEF KeysToIssue, ReservedFor, OnShelf, ReservedKey
    <3>3. k # NoKey
      BY <2>2 DEF ConstantsAssumption
    <3> QED
      BY <3>1, <3>2, <3>3
  <2>4. orders'[o] = Flush(orders[o], row, new)
    BY <1>0, <2>0, <2>1
  <2> HIDE DEF new
  <2>5. orders'[o].reserved = NoKey
    BY <2>0, <2>3, <2>4, FlushReserved
  <2>6. orders'[o].issued = k
    BY <2>3, <2>4, <2>9 DEF Flush
  <2>7. Sells(o, k)
    BY <1>0, <2>0, <2>1, <2>2, <2>5, <2>6 DEF Sells, SameBut
  <2> QED
    BY <2>0, <2>2, <2>7 DEF KeyStep
<1>3. ASSUME MarkPaidButNotIssued(s) PROVE KeyStep
  <2> DEFINE new == [row EXCEPT !.status = "paid_but_not_issued"]
  <2>1. new.reserved = row.reserved /\ new.issued = row.issued
    BY <1>0 DEF OrderRow
  <2>2. orders' = [orders EXCEPT ![o] = Flush(orders[o], row, new)] /\ o \in Orders
    BY <1>0, <1>3 DEF MarkPaidButNotIssued
  <2>3. /\ orders'[o].reserved = orders[o].reserved
        /\ orders'[o].issued = orders[o].issued
    BY <1>0, <2>1, <2>2 DEF Flush
  <2>4. Quiet
    BY <1>0, <1>3, <2>2, <2>3 DEF MarkPaidButNotIssued, Quiet, SameBut
  <2> QED
    BY <2>4 DEF KeyStep
<1>4. ASSUME RefuseToIssue(s) \/ Crash(s) PROVE KeyStep
  BY <1>4 DEF RefuseToIssue, Crash, KeyStep, Quiet, SameBut
<1>5. ASSUME ApplyEvent(s) PROVE KeyStep
  <2> DEFINE status == sess[s].event.status
             new == AfterEvent(status, row)
  <2>1. o \in Orders /\ orders[o].reserved \in {NoKey, row.reserved}
    BY <1>0, <1>5 DEF ApplyEvent
  <2>2. /\ new \in OrderRow
        /\ new.reserved \in {NoKey, row.reserved}
        /\ new.issued = row.issued
    BY <1>0, AfterType, AfterReserved
  <2>3. /\ orders' = [orders EXCEPT ![o] = Flush(orders[o], row, new)]
        /\ keys' = KeysAfter(o, row, new)
        /\ jobs' = jobs
    BY <1>5 DEF ApplyEvent
  <2>4. Quiet \/ Releases({o})
    BY <1>0, <2>1, <2>2, <2>3, FlushedRelease DEF KeyInv
  <2> QED
    BY <2>1, <2>4 DEF KeyStep
<1> QED
  BY <1>1, <1>2, <1>3, <1>4, <1>5 DEF Continue

(* The background loop's steps and the arrival of an event are key steps.  *)
LEMMA LoopStepsAreKeySteps ==
    ASSUME ConstantsAssumption, KeyInv
    PROVE  /\ WorkerStep => KeyStep
           /\ \A s \in Handlers, e \in Events : ReceiveEvent(s, e) => KeyStep
<1>0. /\ orders \in [Orders -> OrderRow] /\ keys \in [Keys -> KeyRow]
      /\ listed \in [Orders -> OrderRow]
  BY DEF KeyInv, TypeOK
<1>1. ASSUME ListExpired \/ ListStale \/ EndIteration PROVE KeyStep
  BY <1>1 DEF ListExpired, ListStale, EndIteration, KeyStep, Quiet, SameBut
<1>2. ASSUME ExpireReservations PROVE KeyStep
  <2> DEFINE due == {o \in Orders : Expirable(listed[o])}
             Expired(row) == [row EXCEPT !.status = "expired_reservation", !.reserved = NoKey]
  <2>1. ASSUME NEW o \in due
        PROVE  /\ orders[o].reserved \in {NoKey, listed[o].reserved}
               /\ orders'[o].reserved = NoKey
               /\ orders'[o].issued = orders[o].issued
    <3>1. orders[o].reserved \in {NoKey, listed[o].reserved}
      BY DEF KeyInv, Remembered, FaithfulMemory, Expirable, Unpaid
    <3>2. orders'[o] = Flush(orders[o], listed[o], Expired(listed[o]))
      BY <1>0, <1>2 DEF ExpireReservations
    <3>3. /\ Expired(listed[o]).reserved = NoKey
          /\ Expired(listed[o]).issued = listed[o].issued
      BY <1>0 DEF OrderRow
    <3> HIDE DEF Expired
    <3> QED
      BY <3>1, <3>2, <3>3, FlushReserved
  <2>2. ASSUME NEW k \in Keys
        PROVE  (\E o \in due : listed[o].reserved = k /\ keys[k] = ReservedKey(o))
                 <=> (\E o \in due : orders[o].reserved = k)
    <3>1. ASSUME NEW o \in due, listed[o].reserved = k, keys[k] = ReservedKey(o)
          PROVE  orders[o].reserved = k
      <4>1. ReservedFor(o, listed[o])
        BY <3>1 DEF ReservedFor, ConstantsAssumption
      <4> QED
        BY <1>0, <2>1, <3>1, <4>1, StaleRow DEF KeyInv
    <3>2. ASSUME NEW o \in due, orders[o].reserved = k
          PROVE  listed[o].reserved = k /\ keys[k] = ReservedKey(o)
      BY <2>1, <3>2 DEF KeyInv, KeyOrderLink, ConstantsAssumption
    <3> QED
      BY <3>1, <3>2
  <2>3. keys' = [k \in Keys |-> IF \E o \in due : orders[o].reserved = k
                               THEN AvailableKey ELSE keys[k]]
    BY <1>2, <2>2 DEF ExpireReservations
  <2>4. SameBut(due)
    BY <1>0, <1>2 DEF ExpireReservations, SameBut
  <2>5. Releases(due)
    BY <1>2, <2>1, <2>3, <2>4 DEF ExpireReservations, Releases
  <2> QED
    BY <2>5 DEF KeyStep
<1>3. ASSUME NEW o \in Orders, RecheckOrder(o) PROVE KeyStep
  <2> DEFINE row == listed[o]
  <2>1. PICK status \in ReportedStatuses :
          LET new == AfterReport(status, row)
          IN  /\ orders' = [orders EXCEPT ![o] = Flush(orders[o], row, new)]
              /\ keys' = KeysAfter(o, row, new)
    BY <1>3 DEF RecheckOrder
  <2> DEFINE new == AfterReport(status, row)
  <2>2. /\ new \in OrderRow
        /\ new.reserved \in {NoKey, row.reserved}
        /\ new.issued = row.issued
    BY <1>0, AfterType, AfterReserved
  <2>3. orders[o].reserved \in {NoKey, row.reserved}
    BY <1>3 DEF RecheckOrder, KeyInv, Remembered, FaithfulMemory
  <2>4. jobs' = jobs
    BY <1>3 DEF RecheckOrder
  <2>5. Quiet \/ Releases({o})
    BY <1>0, <2>1, <2>2, <2>3, <2>4, FlushedRelease DEF KeyInv
  <2> QED
    BY <2>5 DEF KeyStep
<1>4. ASSUME NEW s \in Handlers, NEW e \in Events, ReceiveEvent(s, e) PROVE KeyStep
  BY <1>4 DEF ReceiveEvent, KeyStep, Quiet, SameBut
<1> QED
  BY <1>1, <1>2, <1>3, <1>4 DEF WorkerStep

(* Every step of the services is one of the kinds of key steps.            *)
LEMMA NextIsKeyStep ==
    ASSUME ConstantsAssumption, KeyInv, [Next]_vars
    PROVE  KeyStep
<1>1. CASE UNCHANGED vars
  BY <1>1 DEF vars, KeyStep, Quiet, SameBut
<1>2. ASSUME NEW s \in Handlers, NEW o \in Orders, CreateOrder(s, o) \/ Confirm(s, o)
      PROVE  KeyStep
  BY <1>2, OrderOperationsAreKeySteps
<1>3. ASSUME NEW s \in Handlers, NEW e \in Events, ReceiveEvent(s, e) PROVE KeyStep
  BY <1>3, LoopStepsAreKeySteps
<1>4. ASSUME NEW o \in Orders, Cancel(o) \/ Refund(o) \/ ReplaceKey(o) \/ PassDeadline(o)
      PROVE  KeyStep
  BY <1>4, OrderOperationsAreKeySteps
<1>5. ASSUME NEW s \in Sessions, Continue(s) \/ Crash(s) PROVE KeyStep
  BY <1>5, SessionStepsAreKeySteps
<1>6. ASSUME WorkerStep PROVE KeyStep
  BY <1>6, LoopStepsAreKeySteps
<1> QED
  BY <1>1, <1>2, <1>3, <1>4, <1>5, <1>6 DEF Next

-----------------------------------------------------------------------------
(* What follows from the kind of a step                                    *)

(* The columns of the rows of vpn_keys the services write.                 *)
LEMMA KindsOfKeys ==
    ASSUME ConstantsAssumption
    PROVE  /\ AvailableKey.status = "available" /\ AvailableKey.by = NoOrder
           /\ AvailableKey.owner = NoUser
           /\ \A o : /\ ReservedKey(o).status = "reserved" /\ ReservedKey(o).by = o
                    /\ ReservedKey(o).owner = NoUser
           /\ \A u : /\ IssuedKey(u).status = "issued" /\ IssuedKey(u).by = NoOrder
                    /\ IssuedKey(u).owner = u
BY DEF AvailableKey, ReservedKey, IssuedKey

(* A key step keeps keys and orders linked.                                *)
LEMMA KeepsKeyOrderLink ==
    ASSUME ConstantsAssumption, KeyInv, TypeOK', KeyStep
    PROVE  KeyOrderLink'
<1> USE KindsOfKeys
<1>0. /\ keys \in [Keys -> KeyRow]
      /\ \A p \in Orders : orders[p].reserved \in Keys \cup {NoKey}
      /\ \A p \in Orders : orders[p].reserved # NoKey => keys[orders[p].reserved] = ReservedKey(p)
      /\ \A k \in Keys : IF keys[k].status = "reserved"
                        THEN keys[k].by \in Orders /\ orders[keys[k].by].reserved = k
                        ELSE keys[k].by = NoOrder
      /\ NoKey \notin Keys /\ NoOrder \notin Orders
  BY DEF KeyInv, TypeOK, KeyOrderLink, OrderRow, ConstantsAssumption
<1>1. CASE Quiet
  BY <1>0, <1>1 DEF Quiet, SameBut, KeyOrderLink
<1>2. ASSUME NEW o \in Orders, NEW k \in Keys, Reserves(o, k) PROVE KeyOrderLink'
  <2>1. orders[o].reserved = NoKey
    BY <1>2 DEF Reserves, KeyInv, ClosedHoldsNothing, Unpaid
  <2>2. keys[k].status = "available"
    BY <1>2 DEF Reserves, OnShelf
  <2>3. /\ keys' = [keys EXCEPT ![k] = ReservedKey(o)]
        /\ orders'[o].reserved = k
        /\ \A p \in Orders \ {o} : orders'[p].reserved = orders[p].reserved
    BY <1>2 DEF Reserves, SameBut
  <2> QED
    BY <1>0, <2>1, <2>2, <2>3 DEF KeyOrderLink
<1>3. ASSUME NEW o \in Orders, NEW k \in Keys, Sells(o, k) PROVE KeyOrderLink'
  <2>1. /\ keys' = [keys EXCEPT ![k] = IssuedKey(BuyerOf[o])]
        /\ orders'[o].reserved = NoKey
        /\ \A p \in Orders \ {o} : orders'[p].reserved = orders[p].reserved
    BY <1>3 DEF Sells, SameBut
  <2>2. \/ orders[o].reserved = k
        \/ orders[o].reserved = NoKey /\ keys[k].status = "available"
    BY <1>3 DEF Sells, OnShelf
  <2> QED
    BY <1>0, <2>1, <2>2 DEF KeyOrderLink
<1>4. ASSUME NEW o \in Orders, NEW k \in Keys, Replaces(o, k) PROVE KeyOrderLink'
  <2> DEFINE old == orders[o].issued
  <2>1. /\ keys' = [keys EXCEPT ![k] = IssuedKey(BuyerOf[o]), ![old] = [@ EXCEPT !.status = "broken"]]
        /\ orders'[o].reserved = NoKey /\ orders[o].reserved = NoKey
        /\ \A p \in Orders \ {o} : orders'[p].reserved = orders[p].reserved
        /\ old \in Keys
    BY <1>4 DEF Replaces, SameBut
  <2>2. keys[k].status = "available" /\ keys[old].status = "issued"
    BY <1>0, <1>4, <2>1 DEF Replaces, OnShelf, KeyInv, SaleIsQueued
  <2>3. keys'[k] = IssuedKey(BuyerOf[o])
    BY <1>0, <2>1, <2>2
  <2>4. keys'[old] = [keys[old] EXCEPT !.status = "broken"]
    BY <1>0, <2>1, <2>2
  <2>5. keys'[old].status = "broken" /\ keys'[old].by = keys[old].by
    BY <1>0, <2>1, <2>4 DEF KeyRow
  <2>6. \A q \in Keys \ {k, old} : keys'[q] = keys[q]
    BY <1>0, <2>1
  <2> HIDE DEF old
  <2>7. \A q \in Keys : IF keys'[q].status = "reserved"
                       THEN keys'[q].by \in Orders /\ orders'[keys'[q].by].reserved = q
                       ELSE keys'[q].by = NoOrder
    BY <1>0, <2>1, <2>2, <2>3, <2>5, <2>6
  <2>8. \A p \in Orders : orders'[p].reserved # NoKey
                           => keys'[orders'[p].reserved] = ReservedKey(p)
    BY <1>0, <2>1, <2>2, <2>6
  <2> QED
    BY <2>7, <2>8 DEF KeyOrderLink
<1>5. ASSUME NEW O \in SUBSET Orders, Releases(O) PROVE KeyOrderLink'
  <2>1. /\ keys' = [k \in Keys |-> IF \E o \in O : orders[o].reserved = k
                                  THEN AvailableKey ELSE keys[k]]
        /\ \A o \in O : orders'[o].reserved = NoKey
        /\ \A p \in Orders \ O : orders'[p].reserved = orders[p].reserved
    BY <1>5 DEF Releases, SameBut
  <2> QED
    BY <1>0, <2>1 DEF KeyOrderLink
<1> QED
  BY <1>1, <1>2, <1>3, <1>4, <1>5 DEF KeyStep

(* A sold key stays sold, to the same buyer. *)
KeepsSales ==
    \A k \in Keys :
        /\ keys[k].status \in {"issued", "broken"} =>
             keys'[k].status \in {"issued", "broken"} /\ keys'[k].owner = keys[k].owner
        /\ keys[k].status = "broken" => keys'[k].status = "broken"

(* A key step keeps sold keys sold.                                        *)
LEMMA StepKeepsSales ==
    ASSUME ConstantsAssumption, KeyInv, KeyStep
    PROVE  KeepsSales
<1> USE KindsOfKeys
<1>0. /\ keys \in [Keys -> KeyRow]
      /\ \A p \in Orders : orders[p].reserved # NoKey => keys[orders[p].reserved] = ReservedKey(p)
      /\ NoKey \notin Keys
  BY DEF KeyInv, TypeOK, KeyOrderLink, ConstantsAssumption
<1>1. CASE Quiet
  BY <1>1 DEF Quiet, KeepsSales
<1>2. ASSUME NEW o \in Orders, NEW k \in Keys, Reserves(o, k) PROVE KeepsSales
  BY <1>0, <1>2 DEF Reserves, OnShelf, KeepsSales
<1>3. ASSUME NEW o \in Orders, NEW k \in Keys, Sells(o, k) PROVE KeepsSales
  BY <1>0, <1>3 DEF Sells, OnShelf, KeepsSales
<1>4. ASSUME NEW o \in Orders, NEW k \in Keys, Replaces(o, k) PROVE KeepsSales
  <2> DEFINE old == orders[o].issued
  <2>1. /\ keys' = [keys EXCEPT ![k] = IssuedKey(BuyerOf[o]), ![old] = [@ EXCEPT !.status = "broken"]]
        /\ old \in Keys
        /\ keys[k].status = "available"
    BY <1>4 DEF Replaces, OnShelf
  <2>2. keys[old].status = "issued"
    BY <2>1 DEF KeyInv, SaleIsQueued, ConstantsAssumption
  <2>3. keys'[old] = [keys[old] EXCEPT !.status = "broken"]
    BY <1>0, <2>1, <2>2
  <2>4. keys'[old].status = "broken" /\ keys'[old].owner = keys[old].owner
    BY <1>0, <2>1, <2>3 DEF KeyRow
  <2>5. \A q \in Keys \ {k, old} : keys'[q] = keys[q]
    BY <1>0, <2>1
  <2> HIDE DEF old
  <2> QED
    BY <2>1, <2>2, <2>4, <2>5 DEF KeepsSales
<1>5. ASSUME NEW O \in SUBSET Orders, Releases(O) PROVE KeepsSales
  BY <1>0, <1>5 DEF Releases, KeepsSales
<1> QED
  BY <1>1, <1>2, <1>3, <1>4, <1>5 DEF KeyStep

(* A key step puts only cleared keys on the shelf.                         *)
LEMMA KeepsShelfIsClean ==
    ASSUME ConstantsAssumption, KeyInv, KeyStep
    PROVE  ShelfIsClean'
<1> USE KindsOfKeys
<1>0. /\ keys \in [Keys -> KeyRow]
      /\ \A k \in Keys : keys[k].status = "available" => keys[k] = AvailableKey
  BY DEF KeyInv, TypeOK, ShelfIsClean, OnShelf
<1>1. SUFFICES ASSUME NEW q \in Keys, keys'[q].status = "available"
               PROVE  keys'[q] = AvailableKey
  BY DEF ShelfIsClean, OnShelf
<1>2. CASE Quiet
  BY <1>0, <1>1, <1>2 DEF Quiet
<1>3. ASSUME NEW o \in Orders, NEW k \in Keys, Reserves(o, k) \/ Sells(o, k)
      PROVE  keys'[q] = AvailableKey
  BY <1>0, <1>1, <1>3 DEF Reserves, Sells
<1>4. ASSUME NEW o \in Orders, NEW k \in Keys, Replaces(o, k) PROVE keys'[q] = AvailableKey
  <2>1. q # k /\ q # orders[o].issued
    <3>1. /\ keys' = [keys EXCEPT ![k] = IssuedKey(BuyerOf[o]),
                                  ![orders[o].issued] = [@ EXCEPT !.status = "broken"]]
          /\ orders[o].issued \in Keys
      BY <1>4 DEF Replaces
    <3>2. orders[o].issued # k
      BY <1>0, <1>4, <3>1 DEF Replaces, OnShelf, KeyInv, SaleIsQueued, ConstantsAssumption
    <3>3. keys'[orders[o].issued] = [keys[orders[o].issued] EXCEPT !.status = "broken"]
      BY <1>0, <3>1, <3>2
    <3>4. keys'[orders[o].issued].status = "broken"
      BY <1>0, <3>1, <3>3 DEF KeyRow
    <3>5. keys'[k] = IssuedKey(BuyerOf[o])
      BY <1>0, <3>1, <3>2
    <3> QED
      BY <1>1, <3>4, <3>5
  <2> QED
    BY <1>0, <1>1, <1>4, <2>1 DEF Replaces
<1>5. ASSUME NEW O \in SUBSET Orders, Releases(O) PROVE keys'[q] = AvailableKey
  BY <1>0, <1>1, <1>5 DEF Releases
<1> QED
  BY <1>2, <1>3, <1>4, <1>5 DEF KeyStep

(* A step that queues <<o, k>> sells k, which nobody was sold before. *)
LEMMA NewSale ==
    ASSUME ConstantsAssumption, KeyInv, NEW o \in Orders, NEW k \in Keys,
           Sells(o, k) \/ Replaces(o, k)
    PROVE  /\ jobs' = jobs \cup {<<o, k>>}
           /\ \A j \in jobs : j[2] # k
           /\ keys'[k] = IssuedKey(BuyerOf[o])
           /\ orders'[o].issued = k
           /\ \A p \in Orders \ {o} : orders'[p].issued = orders[p].issued
           /\ \A q \in Keys : q # k /\ q # orders[o].issued => keys'[q] = keys[q]
<1> USE KindsOfKeys
<1>0. /\ keys \in [Keys -> KeyRow]
      /\ \A p \in Orders : orders[p].reserved # NoKey => keys[orders[p].reserved] = ReservedKey(p)
      /\ NoKey \notin Keys
  BY DEF KeyInv, TypeOK, KeyOrderLink, ConstantsAssumption
<1>1. keys[k].status \in {"available", "reserved"}
  BY <1>0 DEF Sells, Replaces, OnShelf
<1>2. \A j \in jobs : j[2] # k
  BY <1>1 DEF KeyInv, SaleIsQueued
<1>3. orders[o].issued # k
  <2>1. orders[o].issued # NoKey => keys[orders[o].issued].status = "issued"
    BY DEF KeyInv, SaleIsQueued
  <2> QED
    BY <1>0, <1>1, <2>1
<1> QED
  BY <1>0, <1>2, <1>3 DEF Sells, Replaces, SameBut

(* A key step sells a key together with its delivery, and no key twice.    *)
LEMMA KeepsSaleIsQueued ==
    ASSUME ConstantsAssumption, KeyInv, TypeOK', KeyStep
    PROVE  SaleIsQueued' /\ SoldOnce'
<1> USE KindsOfKeys
<1>0. /\ keys \in [Keys -> KeyRow] /\ jobs \subseteq Orders \X Keys
      /\ NoKey \notin Keys
      /\ SaleIsQueued /\ SoldOnce
  BY DEF KeyInv, TypeOK, ConstantsAssumption
<1>1. CASE Quiet \/ (\E o \in Orders, k \in Keys : Reserves(o, k))
                 \/ (\E O \in SUBSET Orders : Releases(O))
  <2>1. /\ jobs' = jobs
        /\ \A p \in Orders : orders'[p].issued \in {orders[p].issued, NoKey}
    BY <1>1 DEF Quiet, Reserves, Releases, SameBut
  <2>2. \A k \in Keys :
          /\ keys'[k] # keys[k] => keys'[k].status \in {"available", "reserved"}
          /\ keys[k].status \in {"issued", "broken"} => keys'[k] = keys[k]
    <3>1. \A p \in Orders : orders[p].reserved # NoKey
                            => keys[orders[p].reserved] = ReservedKey(p)
      BY DEF KeyInv, KeyOrderLink
    <3>2. CASE Quiet
      BY <3>2 DEF Quiet
    <3>3. CASE \E o \in Orders, k \in Keys : Reserves(o, k)
      BY <1>0, <3>3 DEF Reserves, OnShelf
    <3>4. CASE \E O \in SUBSET Orders : Releases(O)
      BY <1>0, <3>1, <3>4 DEF Releases
    <3> QED
      BY <1>1, <3>2, <3>3, <3>4
  <2>3. SaleIsQueued'
    <3>1. \A q \in Keys : keys'[q].status \in {"issued", "broken"}
                         => \E p \in Orders : <<p, q>> \in jobs'
      BY <1>0, <2>1, <2>2 DEF SaleIsQueued
    <3>2. \A j \in jobs' : /\ keys'[j[2]].status \in {"issued", "broken"}
                           /\ keys'[j[2]].owner = BuyerOf[j[1]]
      BY <1>0, <2>1, <2>2 DEF SaleIsQueued
    <3>3. ASSUME NEW p \in Orders, orders'[p].issued # NoKey
          PROVE  <<p, orders'[p].issued>> \in jobs' /\ keys'[orders'[p].issued].status = "issued"
      <4> DEFINE q == orders[p].issued
      <4>1. orders'[p].issued = q /\ q # NoKey
        BY <2>1, <3>3
      <4>2. <<p, q>> \in jobs /\ keys[q].status = "issued"
        BY <1>0, <4>1 DEF SaleIsQueued
      <4>3. q \in Keys
        BY <1>0, <4>2
      <4> QED
        BY <2>1, <2>2, <4>1, <4>2, <4>3
    <3> QED
      BY <3>1, <3>2, <3>3 DEF SaleIsQueued
  <2> QED
    BY <1>0, <2>1, <2>3 DEF SoldOnce
<1>2. ASSUME NEW o \in Orders, NEW k \in Keys, Sells(o, k) \/ Replaces(o, k)
      PROVE  SaleIsQueued' /\ SoldOnce'
  <2> DEFINE old == orders[o].issued
  <2>1. /\ jobs' = jobs \cup {<<o, k>>}
        /\ \A j \in jobs : j[2] # k
        /\ keys'[k] = IssuedKey(BuyerOf[o])
        /\ orders'[o].issued = k
        /\ \A p \in Orders \ {o} : orders'[p].issued = orders[p].issued
        /\ \A q \in Keys : q # k /\ q # old => keys'[q] = keys[q]
    BY <1>2, NewSale
  <2>2. KeepsSales
    BY StepKeepsSales
  <2>3. old # NoKey => old \in Keys /\ <<o, old>> \in jobs
    BY <1>0 DEF SaleIsQueued
  <2> HIDE DEF old
  <2>4. ASSUME NEW q \in Keys, keys'[q].status \in {"issued", "broken"}
        PROVE  \E p \in Orders : <<p, q>> \in jobs'
    <3>1. CASE q = k
      BY <2>1, <3>1
    <3>2. CASE q = old
      BY <1>0, <2>1, <2>3, <3>2
    <3>3. CASE q # k /\ q # old
      BY <1>0, <2>1, <2>4, <3>3 DEF SaleIsQueued
    <3> QED
      BY <3>1, <3>2, <3>3
  <2>5. ASSUME NEW j \in jobs'
        PROVE  keys'[j[2]].status \in {"issued", "broken"} /\ keys'[j[2]].owner = BuyerOf[j[1]]
    <3>1. CASE j \in jobs
      BY <1>0, <2>2, <3>1 DEF SaleIsQueued, KeepsSales
    <3>2. CASE j = <<o, k>>
      BY <2>1, <3>2
    <3> QED
      BY <2>1, <3>1, <3>2
  <2>6. ASSUME NEW p \in Orders, orders'[p].issued # NoKey
        PROVE  <<p, orders'[p].issued>> \in jobs' /\ keys'[orders'[p].issued].status = "issued"
    <3>1. CASE p = o
      BY <2>1, <3>1
    <3>2. CASE p # o
      <4> DEFINE q == orders[p].issued
      <4>1. orders'[p].issued = q /\ <<p, q>> \in jobs /\ keys[q].status = "issued" /\ q \in Keys
        BY <1>0, <2>1, <2>6, <3>2 DEF SaleIsQueued
      <4>2. q # k /\ q # old
        BY <1>0, <2>1, <2>3, <3>2, <4>1 DEF SoldOnce
      <4> QED
        BY <2>1, <4>1, <4>2
    <3> QED
      BY <3>1, <3>2
  <2>7. SoldOnce'
    BY <1>0, <2>1 DEF SoldOnce
  <2> QED
    BY <2>4, <2>5, <2>6, <2>7 DEF SaleIsQueued
<1> QED
  BY <1>1, <1>2 DEF KeyStep

-----------------------------------------------------------------------------
(* What depends on the statuses the steps write                            *)

Holding == Unpaid \cup {"paid", "refunded"}

(* What a step makes of the row of one order: the row stays a row, and is  *)
(* left with a key only in a state that may hold one.                      *)
SoundRow(o) ==
    /\ orders[o].status # "absent" => orders'[o].status # "absent"
    /\ orders'[o].reserved # NoKey => orders'[o].status \in Holding

SoundRows == \A o \in Orders : SoundRow(o)

(* Flushing a row a session changed leaves a sound row, if the change      *)
(* drops the key, or ends in a state that may hold one.                    *)
LEMMA FlushedRowIsSound ==
    ASSUME KeyInv, NEW o \in Orders, NEW row \in OrderRow, NEW new \in OrderRow,
           orders[o].reserved \in {NoKey, row.reserved},
           orders'[o] = Flush(orders[o], row, new),
           \/ new = row
           \/ new.status # "absent" /\ new.reserved = NoKey
           \/ new.status \in Holding /\ new.status # row.status /\ new.reserved = row.reserved
           \/ new.status = "pending_payment" /\ new.reserved = row.reserved
    PROVE  SoundRow(o)
<1>1. orders[o].reserved # NoKey => orders[o].status \in Holding
  BY DEF KeyInv, ClosedHoldsNothing, Holding
<1>2. "absent" \notin Holding /\ "pending_payment" \in Holding
  BY DEF Holding, Unpaid
<1> QED
  BY <1>1, <1>2 DEF SoundRow, Flush

(* An event or a report changes a row in one of those ways.                *)
LEMMA AfterStatus ==
    ASSUME NEW row \in OrderRow, NEW status
    PROVE  /\ LET new == AfterEvent(status, row)
              IN  \/ new = row
                  \/ new.status # "absent" /\ new.reserved = NoKey
                  \/ new.status \in Holding /\ new.status # row.status /\ new.reserved = row.reserved
           /\ LET new == AfterReport(status, row)
              IN  \/ new = row
                  \/ new.status # "absent" /\ new.reserved = NoKey
                  \/ new.status \in Holding /\ new.status # row.status /\ new.reserved = row.reserved
<1>1. /\ WithoutReservation(row) \in OrderRow
      /\ WithoutReservation(row).reserved = NoKey
  BY DEF WithoutReservation, OrderRow
<1> QED
  BY <1>1 DEF AfterEvent, AfterReport, Holding, Unpaid, OrderRow

(* Every step leaves every row sound.                                      *)
LEMMA RowsStaySound ==
    ASSUME ConstantsAssumption, KeyInv, [Next]_vars
    PROVE  SoundRows
<1>0. /\ orders \in [Orders -> OrderRow] /\ listed \in [Orders -> OrderRow]
      /\ \A s \in Sessions : sess[s].mem \in OrderRow
      /\ \A p \in Orders : orders[p].reserved # NoKey => orders[p].status \in Holding
      /\ "absent" \notin Holding
  BY DEF KeyInv, TypeOK, ClosedHoldsNothing, Holding, Unpaid
<1>1. ASSUME NEW p \in Orders, orders'[p] = orders[p] PROVE SoundRow(p)
  BY <1>0, <1>1 DEF SoundRow
<1>2. CASE UNCHANGED orders
  BY <1>1, <1>2 DEF SoundRows
<1>3. ASSUME NEW o \in Orders, \A p \in Orders \ {o} : orders'[p] = orders[p], SoundRow(o)
      PROVE  SoundRows
  BY <1>1, <1>3 DEF SoundRows
<1>4. ASSUME NEW s \in Handlers, NEW o \in Orders, CreateOrder(s, o) \/ Confirm(s, o)
      PROVE  SoundRows
  <2>1. CASE CreateOrder(s, o)
    <3>1. \E k \in OnShelf :
            orders' = [orders EXCEPT ![o] = [status |-> "created", reserved |-> k,
                          issued |-> NoKey, payId |-> FALSE, deadline |-> "set"]]
      BY <2>1 DEF CreateOrder
    <3>2. orders'[o].status = "created"
      BY <1>0, <3>1
    <3> QED
      BY <1>0, <1>3, <3>1, <3>2 DEF SoundRow, Holding, Unpaid
  <2>2. CASE Confirm(s, o)
    <3>1. orders' = [orders EXCEPT ![o] = [orders[o] EXCEPT !.status = "paid"]]
      BY <2>2 DEF Confirm
    <3>2. orders'[o] = [orders[o] EXCEPT !.status = "paid"]
      BY <1>0, <3>1
    <3>3. orders'[o].status = "paid"
      BY <1>0, <3>2, UpdatedColumns
    <3> QED
      BY <1>0, <1>3, <3>1, <3>3 DEF SoundRow, Holding
  <2> QED
    BY <1>4, <2>1, <2>2
<1>5. ASSUME NEW o \in Orders, Cancel(o) \/ Refund(o) \/ ReplaceKey(o) \/ PassDeadline(o)
      PROVE  SoundRows
  <2>1. orders[o].status # "absent"
    BY <1>5 DEF Cancel, Refund, ReplaceKey, PassDeadline, Unpaid, Issuable
  <2>2. ASSUME NEW row, orders' = [orders EXCEPT ![o] = row], row.status # "absent",
               row.reserved # NoKey => row.status \in Holding
        PROVE  SoundRows
    <3>1. orders'[o] = row
      BY <1>0, <2>2
    <3> QED
      BY <1>0, <1>3, <2>2, <3>1 DEF SoundRow
  <2>3. CASE Cancel(o)
    <3> DEFINE row == [orders[o] EXCEPT !.status = "canceled", !.reserved = NoKey]
    <3>1. orders' = [orders EXCEPT ![o] = row]
      BY <2>3 DEF Cancel
    <3>2. row.status = "canceled" /\ row.reserved = NoKey
      BY <1>0, UpdatedColumns
    <3> QED
      BY <2>2, <3>1, <3>2
  <2>4. CASE Refund(o)
    <3> DEFINE row == [orders[o] EXCEPT !.status = "refunded"]
    <3>1. orders' = [orders EXCEPT ![o] = row]
      BY <2>4 DEF Refund
    <3>2. row.status = "refunded"
      BY <1>0, UpdatedColumns
    <3> QED
      BY <2>2, <3>1, <3>2 DEF Holding
  <2>5. CASE ReplaceKey(o)
    <3>1. PICK k \in OnShelf :
            orders' = [orders EXCEPT ![o] = [orders[o] EXCEPT !.issued = k, !.reserved = NoKey]]
      BY <2>5 DEF ReplaceKey
    <3> DEFINE row == [orders[o] EXCEPT !.issued = k, !.reserved = NoKey]
    <3>2. row.status = orders[o].status /\ row.reserved = NoKey
      BY <1>0, UpdatedColumns
    <3> QED
      BY <2>1, <2>2, <3>1, <3>2
  <2>6. CASE PassDeadline(o)
    <3> DEFINE row == [orders[o] EXCEPT !.deadline = "past"]
    <3>1. orders' = [orders EXCEPT ![o] = row]
      BY <2>6 DEF PassDeadline
    <3>2. row.status = orders[o].status /\ row.reserved = orders[o].reserved
      BY <1>0, UpdatedColumns
    <3> QED
      BY <1>0, <2>1, <2>2, <3>1, <3>2
  <2> QED
    BY <1>5, <2>3, <2>4, <2>5, <2>6
<1>6. ASSUME NEW s \in Sessions, Continue(s) PROVE SoundRows
  <2> DEFINE o == sess[s].order
             row == sess[s].mem
  <2>0. row \in OrderRow
    BY <1>0
  <2>1. ASSUME sess[s].pc \in {"attach", "issue", "webhook"},
               NEW new \in OrderRow,
               orders' = [orders EXCEPT ![o] = Flush(orders[o], row, new)],
               \/ new = row
               \/ new.status # "absent" /\ new.reserved = NoKey
               \/ /\ new.status \in Holding /\ new.status # row.status
                  /\ new.reserved = row.reserved
               \/ new.status = "pending_payment" /\ new.reserved = row.reserved
        PROVE  SoundRows
    <3>1. o \in Orders /\ orders[o].reserved \in {NoKey, row.reserved}
      BY <2>1 DEF KeyInv, Remembered, FaithfulMemory
    <3>2. orders'[o] = Flush(orders[o], row, new)
      BY <1>0, <2>1, <3>1
    <3>3. SoundRow(o)
      BY <2>0, <2>1, <3>1, <3>2, FlushedRowIsSound
    <3> QED
      BY <1>0, <1>3, <2>1, <3>1, <3>3
  <2>2. ASSUME AttachPayment(s) PROVE SoundRows
    <3> DEFINE new == [row EXCEPT !.payId = TRUE, !.status = "pending_payment"]
    <3>1. new \in OrderRow /\ new.status = "pending_payment" /\ new.reserved = row.reserved
      BY <2>0, RowUpdates DEF OrderRow
    <3> QED
      BY <2>1, <2>2, <3>1 DEF AttachPayment
  <2>3. ASSUME IssueKey(s) PROVE SoundRows
    <3>0. o \in Orders
      BY <2>3 DEF IssueKey, KeyInv, Remembered
    <3>1. PICK k \in KeysToIssue(o, row) :
            LET new == [row EXCEPT !.issued = k, !.reserved = NoKey, !.status = "issued"]
            IN  orders' = [orders EXCEPT ![o] = Flush(orders[o], row, new)]
      BY <2>3 DEF IssueKey
    <3> DEFINE new == [row EXCEPT !.issued = k, !.reserved = NoKey, !.status = "issued"]
    <3>2. k \in Keys
      BY <2>0, <3>0, KeysToIssueType DEF KeyInv
    <3>3. new \in OrderRow
      BY <2>0, <3>2, RowUpdates DEF OrderStatus
    <3>4. new.status = "issued" /\ new.reserved = NoKey
      BY <2>0, UpdatedColumns
    <3> QED
      BY <2>1, <2>3, <3>1, <3>3, <3>4 DEF IssueKey
  <2>4. ASSUME MarkPaidButNotIssued(s) PROVE SoundRows
    <3> DEFINE new == [row EXCEPT !.status = "paid_but_not_issued"]
    <3>1. /\ o \in Orders /\ orders[o].reserved \in {NoKey, row.reserved}
          /\ orders[o].status # "absent"
      BY <2>4 DEF MarkPaidButNotIssued, KeyInv, Remembered, FaithfulMemory
    <3>2. orders[o].reserved = NoKey
      BY <2>0, <2>4, <3>1, StaleRow DEF MarkPaidButNotIssued, KeyInv
    <3>3. orders' = [orders EXCEPT ![o] = Flush(orders[o], row, new)]
      BY <2>4 DEF MarkPaidButNotIssued
    <3>4. new.reserved = row.reserved /\ new.status # "absent"
      BY <2>0 DEF OrderRow
    <3>5. orders'[o].reserved = NoKey /\ orders'[o].status # "absent"
      BY <1>0, <3>1, <3>2, <3>3, <3>4 DEF Flush
    <3> QED
      BY <1>0, <1>3, <3>1, <3>3, <3>5 DEF SoundRow
  <2>5. ASSUME RefuseToIssue(s) PROVE SoundRows
    BY <1>2, <2>5 DEF RefuseToIssue
  <2>6. ASSUME ApplyEvent(s) PROVE SoundRows
    BY <2>0, <2>1, <2>6, AfterType, AfterStatus DEF ApplyEvent
  <2> QED
    BY <1>6, <2>2, <2>3, <2>4, <2>5, <2>6 DEF Continue
<1>7. ASSUME ExpireReservations PROVE SoundRows
  <2> DEFINE Expired(row) == [row EXCEPT !.status = "expired_reservation", !.reserved = NoKey]
  <2>1. ASSUME NEW o \in Orders, Expirable(listed[o]) PROVE SoundRow(o)
    <3>1. orders[o].reserved \in {NoKey, listed[o].reserved}
      BY <2>1 DEF KeyInv, Remembered, FaithfulMemory, Expirable, Unpaid
    <3>2. orders'[o] = Flush(orders[o], listed[o], Expired(listed[o]))
      BY <1>7, <2>1 DEF ExpireReservations
    <3>3. Expired(listed[o]) \in OrderRow
      BY <1>0, RowUpdates DEF OrderStatus
    <3>4. /\ Expired(listed[o]).reserved = NoKey
          /\ Expired(listed[o]).status = "expired_reservation"
      BY <1>0, UpdatedColumns
    <3> HIDE DEF Expired
    <3> QED
      BY <1>0, <3>1, <3>2, <3>3, <3>4, FlushedRowIsSound
  <2>2. \A o \in Orders : ~Expirable(listed[o]) => orders'[o] = orders[o]
    BY <1>7 DEF ExpireReservations
  <2> QED
    BY <1>1, <2>1, <2>2 DEF SoundRows
<1>8. ASSUME NEW o \in Orders, RecheckOrder(o) PROVE SoundRows
  <2> DEFINE row == listed[o]
  <2>1. orders[o].reserved \in {NoKey, row.reserved}
    BY <1>8 DEF RecheckOrder, KeyInv, Remembered, FaithfulMemory
  <2>2. PICK status \in ReportedStatuses :
          orders' = [orders EXCEPT ![o] = Flush(orders[o], row, AfterReport(status, row))]
    BY <1>8 DEF RecheckOrder
  <2>3. orders'[o] = Flush(orders[o], row, AfterReport(status, row))
    BY <1>0, <2>2
  <2>4. SoundRow(o)
    BY <1>0, <2>1, <2>3, AfterType, AfterStatus, FlushedRowIsSound
  <2> QED
    BY <1>0, <1>3, <2>2, <2>4
<1>9. ASSUME UNCHANGED vars \/ (\E s \in Sessions : Crash(s))
             \/ (\E s \in Handlers, e \in Events : ReceiveEvent(s, e))
             \/ ListExpired \/ ListStale \/ EndIteration
      PROVE  SoundRows
  BY <1>2, <1>9 DEF vars, Crash, ReceiveEvent, ListExpired, ListStale, EndIteration
<1> QED
  BY <1>4, <1>5, <1>6, <1>7, <1>8, <1>9 DEF Next, WorkerStep

-----------------------------------------------------------------------------
(* What the sessions remember                                              *)

(* FaithfulMemory(o, row) after the step, for a row fixed before it. *)
Recalls(o, row) ==
    /\ orders'[o].status # "absent"
    /\ orders'[o].reserved \in {NoKey, row.reserved}
    /\ row.issued # NoKey => keys'[row.issued].status \in {"issued", "broken"}

(* A remembered row stays faithful through every step. *)
LEMMA KeepsRecall ==
    ASSUME ConstantsAssumption, KeyInv, KeyStep, SoundRows,
           NEW o \in Orders, NEW row \in OrderRow, FaithfulMemory(o, row)
    PROVE  Recalls(o, row)
<1>1. orders[o].status # "absent" /\ orders[o].reserved \in {NoKey, row.reserved}
  BY DEF FaithfulMemory
<1>2. orders'[o].status # "absent"
  BY <1>1 DEF SoundRows, SoundRow
<1>3. orders'[o].reserved \in {NoKey, orders[o].reserved}
  BY <1>1 DEF KeyStep, Quiet, Reserves, Releases, Sells, Replaces, SameBut
<1>4. row.issued # NoKey => keys'[row.issued].status \in {"issued", "broken"}
  <2>1. row.issued \in Keys \cup {NoKey}
    BY DEF OrderRow
  <2> QED
    BY <2>1, StepKeepsSales DEF KeepsSales, FaithfulMemory
<1> QED
  BY <1>1, <1>2, <1>3, <1>4 DEF Recalls

(* A row just written or read in the step is faithful. *)
LEMMA FreshRecall ==
    ASSUME TypeOK', SaleIsQueued', NEW o \in Orders, orders'[o].status # "absent"
    PROVE  Recalls(o, orders'[o])
BY DEF Recalls, SaleIsQueued

(* So is a row that a session changed and flushed over the database's. *)
LEMMA FlushedRecall ==
    ASSUME ConstantsAssumption, KeyInv, KeyStep, SoundRows,
           NEW o \in Orders, NEW row \in OrderRow, NEW new, FaithfulMemory(o, row),
           orders'[o] = Flush(orders[o], row, new),
           new.reserved \in {NoKey, row.reserved}, new.issued = row.issued
    PROVE  Recalls(o, new)
<1>1. Recalls(o, row)
  BY KeepsRecall
<1>2. orders[o].reserved \in {NoKey, row.reserved}
  BY DEF FaithfulMemory
<1>3. orders'[o].reserved \in {NoKey, new.reserved}
  BY <1>2, FlushReserved
<1> QED
  BY <1>1, <1>3 DEF Recalls

Recalling == {"attach", "issue", "webhook"}

(* What Remembered says of one session and of one listed order afterwards. *)
SessionRecalls(s) ==
    sess'[s].pc \in Recalling =>
        /\ sess'[s].order \in Orders
        /\ Recalls(sess'[s].order, sess'[s].mem)
        /\ sess'[s].pc = "webhook" => sess'[s].event \in Events

ListRecalls(o) == listed'[o].status # "absent" => Recalls(o, listed'[o])

(* What a step leaves alone, it leaves faithful; an empty memory is too. *)
LEMMA MemoryLeftAlone ==
    ASSUME ConstantsAssumption, KeyInv, KeyStep, SoundRows
    PROVE  /\ \A s \in Sessions : sess'[s] = sess[s] => SessionRecalls(s)
           /\ \A o \in Orders : listed'[o] = listed[o] => ListRecalls(o)
           /\ \A s \in Sessions : sess'[s].pc \notin Recalling => SessionRecalls(s)
           /\ \A o \in Orders : listed'[o] = AbsentRow => ListRecalls(o)
<1>0. /\ \A s \in Sessions : sess[s].mem \in OrderRow
      /\ \A o \in Orders : listed[o] \in OrderRow
  BY DEF KeyInv, TypeOK
<1>1. ASSUME NEW s \in Sessions, sess'[s] = sess[s] PROVE SessionRecalls(s)
  BY <1>0, <1>1, KeepsRecall DEF KeyInv, Remembered, SessionRecalls, Recalling
<1>2. ASSUME NEW o \in Orders, listed'[o] = listed[o] PROVE ListRecalls(o)
  BY <1>0, <1>2, KeepsRecall DEF KeyInv, Remembered, ListRecalls
<1> QED
  BY <1>1, <1>2 DEF SessionRecalls, ListRecalls, AbsentRow

(* A step that changes one session keeps all memories, if that session's   *)
(* and the listed rows' are kept.                                          *)
LEMMA MemoryOfOneSession ==
    ASSUME ConstantsAssumption, KeyInv, KeyStep, SoundRows,
           NEW s \in Sessions, NEW row,
           sess' = [sess EXCEPT ![s] = row],
           SessionRecalls(s),
           \A o \in Orders : ListRecalls(o)
    PROVE  Remembered'
<1>1. \A t \in Sessions : SessionRecalls(t)
  BY MemoryLeftAlone DEF KeyInv, TypeOK
<1> QED
  BY <1>1 DEF Remembered, FaithfulMemory, Recalls, SessionRecalls, ListRecalls, Recalling

(* The same for a step that changes no session.                            *)
LEMMA MemoryOfNoSession ==
    ASSUME ConstantsAssumption, KeyInv, KeyStep, SoundRows,
           sess' = sess, \A o \in Orders : ListRecalls(o)
    PROVE  Remembered'
<1>1. \A t \in Sessions : SessionRecalls(t)
  BY MemoryLeftAlone
<1> QED
  BY <1>1 DEF Remembered, FaithfulMemory, Recalls, SessionRecalls, ListRecalls, Recalling

(* Every step keeps what sessions remember faithful.                       *)
LEMMA KeepsRemembered ==
    ASSUME ConstantsAssumption, KeyInv, [Next]_vars, KeyStep, SoundRows,
           TypeOK', SaleIsQueued'
    PROVE  Remembered'
<1>0. /\ sess \in [Sessions -> SessionRow] /\ orders \in [Orders -> OrderRow]
      /\ listed \in [Orders -> OrderRow]
      /\ \A s \in Sessions : sess[s].mem \in OrderRow
      /\ Handlers \subseteq Sessions /\ Worker \in Sessions
  BY DEF KeyInv, TypeOK, SessionRow, Sessions
<1>1. ASSUME UNCHANGED listed PROVE \A o \in Orders : ListRecalls(o)
  BY <1>1, MemoryLeftAlone
<1>2. ASSUME listed' = NothingListed PROVE \A o \in Orders : ListRecalls(o)
  BY <1>2, MemoryLeftAlone DEF NothingListed
<1>3. ASSUME NEW s \in Sessions, NEW row, sess' = [sess EXCEPT ![s] = row],
             row.pc \notin Recalling, \A o \in Orders : ListRecalls(o)
      PROVE  Remembered'
  <2>1. sess'[s] = row
    BY <1>0, <1>3
  <2>2. SessionRecalls(s)
    BY <1>3, <2>1 DEF SessionRecalls
  <2> QED
    BY <1>3, <2>2, MemoryOfOneSession
<1>4. ASSUME NEW s \in Sessions, NEW o \in Orders, NEW row, NEW phase \in {"attach", "issue"},
             sess' = [sess EXCEPT ![s] = At(phase, o, row)], Recalls(o, row),
             \A p \in Orders : ListRecalls(p)
      PROVE  Remembered'
  <2>1. sess'[s] = At(phase, o, row)
    BY <1>0, <1>4
  <2>2. SessionRecalls(s)
    BY <1>4, <2>1 DEF SessionRecalls, At
  <2> QED
    BY <1>4, <2>2, MemoryOfOneSession
<1>5. /\ Idle.pc \notin Recalling
      /\ \A phase \in {"sweep", "swept", "recheck"} :
            At(phase, NoOrder, AbsentRow).pc \notin Recalling
      /\ \A s : AfterIssue(s).pc \notin Recalling
  BY DEF Idle, At, AfterIssue, Recalling
<1>6. ASSUME UNCHANGED <<sess, listed>> PROVE Remembered'
  BY <1>1, <1>6, MemoryOfNoSession
<1>7. ASSUME NEW s \in Handlers, NEW o \in Orders, CreateOrder(s, o) PROVE Remembered'
  <2>1. PICK k \in OnShelf :
          LET row == [status |-> "created", reserved |-> k, issued |-> NoKey,
                      payId |-> FALSE, deadline |-> "set"]
          IN  /\ orders' = [orders EXCEPT ![o] = row]
              /\ sess' = IF Provider = "fake"
                         THEN [sess EXCEPT ![s] = At("attach", o, row)]
                         ELSE sess
    BY <1>7 DEF CreateOrder
  <2> DEFINE row == [status |-> "created", reserved |-> k, issued |-> NoKey,
                     payId |-> FALSE, deadline |-> "set"]
  <2>2. orders'[o] = row /\ row.status # "absent"
    BY <1>0, <2>1
  <2>3. Recalls(o, row)
    <3> HIDE DEF row
    <3> QED
      BY <2>2, FreshRecall
  <2>4. UNCHANGED listed
    BY <1>7 DEF CreateOrder
  <2>5. CASE Provider = "fake"
    <3>1. sess' = [sess EXCEPT ![s] = At("attach", o, row)]
      BY <2>1, <2>5
    <3> HIDE DEF row
    <3> QED
      BY <1>0, <1>1, <1>4, <2>3, <2>4, <3>1
  <2>6. CASE Provider # "fake"
    BY <1>6, <2>1, <2>4, <2>6
  <2> QED
    BY <2>5, <2>6
<1>8. ASSUME NEW s \in Handlers, NEW o \in Orders, Confirm(s, o) PROVE Remembered'
  <2> DEFINE row == [orders[o] EXCEPT !.status = "paid"]
  <2>1. /\ orders' = [orders EXCEPT ![o] = row]
        /\ sess' = [sess EXCEPT ![s] = At("issue", o, row)]
        /\ UNCHANGED listed
    BY <1>8 DEF Confirm
  <2>2. row.status = "paid"
    BY <1>0, UpdatedColumns
  <2> HIDE DEF row
  <2>3. orders'[o] = row
    BY <1>0, <2>1
  <2>4. Recalls(o, row)
    BY <2>2, <2>3, FreshRecall
  <2> QED
    BY <1>0, <1>1, <1>4, <2>1, <2>4
<1>9. ASSUME NEW s \in Handlers, NEW e \in Events, ReceiveEvent(s, e) PROVE Remembered'
  <2> DEFINE row == [pc |-> "webhook", order |-> e.order, mem |-> orders[e.order], event |-> e]
  <2>1. /\ sess' = [sess EXCEPT ![s] = row]
        /\ UNCHANGED <<orders, listed>>
        /\ e.order \in Orders
        /\ orders[e.order].status # "absent"
    BY <1>9 DEF ReceiveEvent, ConstantsAssumption
  <2>2. sess'[s] = row
    BY <1>0, <2>1
  <2>3. Recalls(e.order, orders[e.order])
    BY <2>1, FreshRecall
  <2>4. SessionRecalls(s)
    BY <2>1, <2>2, <2>3 DEF SessionRecalls
  <2> QED
    BY <1>0, <1>1, <2>1, <2>4, MemoryOfOneSession
<1>10. ASSUME NEW o \in Orders, Cancel(o) \/ Refund(o) \/ ReplaceKey(o) \/ PassDeadline(o)
       PROVE  Remembered'
  BY <1>6, <1>10 DEF Cancel, Refund, ReplaceKey, PassDeadline
<1>11. ASSUME NEW s \in Sessions, AttachPayment(s) PROVE Remembered'
  BY <1>1, <1>3, <1>5, <1>11 DEF AttachPayment
<1>12. ASSUME NEW s \in Sessions, IssueKey(s) \/ MarkPaidButNotIssued(s) PROVE Remembered'
  BY <1>1, <1>3, <1>5, <1>12 DEF IssueKey, MarkPaidButNotIssued
<1>13. ASSUME NEW s \in Sessions, RefuseToIssue(s) \/ Crash(s) PROVE Remembered'
  BY <1>1, <1>2, <1>3, <1>5, <1>13 DEF RefuseToIssue, Crash, Leave
<1>14. ASSUME NEW s \in Sessions, ApplyEvent(s) PROVE Remembered'
  <2> DEFINE o == sess[s].order
             row == sess[s].mem
             status == sess[s].event.status
             new == AfterEvent(status, row)
  <2>1. /\ o \in Orders /\ row \in OrderRow /\ FaithfulMemory(o, row)
    BY <1>0, <1>14 DEF ApplyEvent, KeyInv, Remembered
  <2>2. /\ orders' = [orders EXCEPT ![o] = Flush(orders[o], row, new)]
        /\ sess' = [sess EXCEPT ![s] =
                      IF status = "succeeded" THEN At("issue", o, new) ELSE Idle]
        /\ UNCHANGED listed
    BY <1>14 DEF ApplyEvent
  <2>3. new.reserved \in {NoKey, row.reserved} /\ new.issued = row.issued
    BY <2>1, AfterReserved
  <2>4. orders'[o] = Flush(orders[o], row, new)
    BY <1>0, <2>1, <2>2
  <2>5. Recalls(o, new)
    BY <2>1, <2>3, <2>4, FlushedRecall
  <2>6. CASE status = "succeeded"
    <3>1. sess' = [sess EXCEPT ![s] = At("issue", o, new)]
      BY <2>2, <2>6
    <3> HIDE DEF new
    <3> QED
      BY <1>1, <1>4, <2>1, <2>2, <2>5, <3>1
  <2>7. CASE status # "succeeded"
    <3>1. sess' = [sess EXCEPT ![s] = Idle]
      BY <2>2, <2>7
    <3> QED
      BY <1>1, <1>3, <1>5, <2>2, <3>1
  <2> QED
    BY <2>6, <2>7
<1>15. ASSUME ListExpired PROVE Remembered'
  <2>1. \A o \in Orders : listed'[o] = AbsentRow
                         \/ (listed'[o] = orders'[o] /\ orders'[o].status # "absent")
    <3>1. /\ orders' = orders
          /\ listed' = [o \in Orders |-> IF Expirable(orders[o]) THEN orders[o] ELSE AbsentRow]
      BY <1>15 DEF ListExpired
    <3>2. \A o \in Orders : Expirable(orders[o]) => orders[o].status # "absent"
      BY DEF Expirable, Unpaid
    <3> QED
      BY <3>1, <3>2
  <2>2. \A o \in Orders : ListRecalls(o)
    BY <2>1, FreshRecall, MemoryLeftAlone DEF ListRecalls
  <2> QED
    BY <1>0, <1>3, <1>5, <1>15, <2>2 DEF ListExpired
<1>16. ASSUME ExpireReservations PROVE Remembered'
  BY <1>0, <1>2, <1>3, <1>5, <1>16 DEF ExpireReservations
<1>17. ASSUME ListStale PROVE Remembered'
  <2>1. \A o \in Orders : listed'[o] = AbsentRow
                         \/ (listed'[o] = orders'[o] /\ orders'[o].status # "absent")
    <3>1. PICK old \in SUBSET {o \in Orders : orders[o].status = "pending_payment"} :
            listed' = [o \in Orders |->
                         IF /\ orders[o].payId
                            /\ o \in old \/ orders[o].status = "paid_but_not_issued"
                         THEN orders[o] ELSE AbsentRow]
      BY <1>17 DEF ListStale
    <3>2. orders' = orders
      BY <1>17 DEF ListStale
    <3> QED
      BY <3>1, <3>2
  <2>2. \A o \in Orders : ListRecalls(o)
    BY <2>1, FreshRecall, MemoryLeftAlone DEF ListRecalls
  <2> QED
    BY <1>0, <1>3, <1>5, <1>17, <2>2 DEF ListStale
<1>18. ASSUME NEW o \in Orders, RecheckOrder(o) PROVE Remembered'
  <2> DEFINE row == listed[o]
  <2>1. PICK status \in ReportedStatuses :
          LET new == AfterReport(status, row)
          IN  /\ orders' = [orders EXCEPT ![o] = Flush(orders[o], row, new)]
              /\ sess' = IF status = "succeeded"
                         THEN [sess EXCEPT ![Worker] = At("issue", o, new)]
                         ELSE sess
    BY <1>18 DEF RecheckOrder
  <2> DEFINE new == AfterReport(status, row)
  <2>2. row \in OrderRow /\ FaithfulMemory(o, row)
    BY <1>0, <1>18 DEF RecheckOrder, KeyInv, Remembered
  <2>3. new.reserved \in {NoKey, row.reserved} /\ new.issued = row.issued
    BY <2>2, AfterReserved
  <2>4. orders'[o] = Flush(orders[o], row, new)
    BY <1>0, <2>1
  <2>5. Recalls(o, new)
    BY <2>2, <2>3, <2>4, FlushedRecall
  <2>6. \A p \in Orders : ListRecalls(p)
    <3>1. \A p \in Orders : listed'[p] = listed[p] \/ listed'[p] = AbsentRow
      BY <1>0, <1>18 DEF RecheckOrder
    <3> QED
      BY <3>1, MemoryLeftAlone
  <2>7. CASE status = "succeeded"
    <3>1. sess' = [sess EXCEPT ![Worker] = At("issue", o, new)]
      BY <2>1, <2>7
    <3> HIDE DEF new
    <3> QED
      BY <1>0, <1>4, <2>5, <2>6, <3>1
  <2>8. CASE status # "succeeded"
    BY <2>1, <2>6, <2>8, MemoryOfNoSession
  <2> QED
    BY <2>7, <2>8
<1>19. ASSUME EndIteration PROVE Remembered'
  BY <1>0, <1>1, <1>3, <1>5, <1>19 DEF EndIteration
<1>20. CASE UNCHANGED vars
  BY <1>6, <1>20 DEF vars
<1> QED
  BY <1>7, <1>8, <1>9, <1>10, <1>11, <1>12, <1>13, <1>14, <1>15, <1>16, <1>17, <1>18,
     <1>19, <1>20 DEF Next, Continue, WorkerStep

-----------------------------------------------------------------------------
(* The invariant                                                           *)

(* The invariant holds of the empty database.                              *)
LEMMA InitKeyInv == ConstantsAssumption /\ Init => KeyInv
<1> SUFFICES ASSUME ConstantsAssumption, Init PROVE KeyInv
  OBVIOUS
<1>1. TypeOK
  BY InitType
<1>2. /\ \A o \in Orders : orders[o] = AbsentRow
      /\ \A o \in Orders : listed[o] = AbsentRow
      /\ \A k \in Keys : keys[k] = AvailableKey
      /\ \A s \in Sessions : sess[s] = Idle
      /\ jobs = {}
  BY DEF Init, NothingListed
<1>3. /\ AbsentRow.status = "absent" /\ AbsentRow.reserved = NoKey /\ AbsentRow.issued = NoKey
      /\ AvailableKey.status = "available" /\ AvailableKey.by = NoOrder
      /\ Idle.pc = "idle"
  BY DEF AbsentRow, AvailableKey, Idle
<1>4. KeyOrderLink
  BY <1>2, <1>3 DEF KeyOrderLink
<1>5. Remembered
  BY <1>2, <1>3 DEF Remembered
<1>6. ClosedHoldsNothing
  BY <1>2, <1>3 DEF ClosedHoldsNothing
<1>7. ShelfIsClean
  BY <1>2 DEF ShelfIsClean, OnShelf
<1>8. SaleIsQueued /\ SoldOnce
  BY <1>2, <1>3 DEF SaleIsQueued, SoldOnce
<1> QED
  BY <1>1, <1>4, <1>5, <1>6, <1>7, <1>8 DEF KeyInv

(* Every step keeps the invariant.                                         *)
LEMMA NextKeyInv ==
    ASSUME ConstantsAssumption, KeyInv, [Next]_vars
    PROVE  KeyInv'
<1>1. TypeOK'
  BY NextType DEF KeyInv
<1>2. KeyStep
  BY NextIsKeyStep
<1>3. SoundRows
  BY RowsStaySound
<1>4. KeyOrderLink'
  BY <1>1, <1>2, KeepsKeyOrderLink
<1>5. ShelfIsClean'
  BY <1>1, <1>2, KeepsShelfIsClean
<1>6. SaleIsQueued' /\ SoldOnce'
  BY <1>1, <1>2, KeepsSaleIsQueued
<1>7. Remembered'
  BY <1>1, <1>2, <1>3, <1>6, KeepsRemembered
<1>8. ClosedHoldsNothing'
  BY <1>3 DEF SoundRows, SoundRow, Holding, ClosedHoldsNothing
<1> QED
  BY <1>1, <1>4, <1>5, <1>6, <1>7, <1>8 DEF KeyInv

(* The inductive invariant behind the theorems about keys.                 *)
THEOREM KeyInvariant == Spec => []KeyInv
<1>1. Init => KeyInv
  BY ConstantsAssumption, InitKeyInv
<1>2. KeyInv /\ [Next]_vars => KeyInv'
  BY ConstantsAssumption, NextKeyInv
<1> QED
  BY <1>1, <1>2, PTL DEF Spec

(* Every variable of the services' model keeps its type. *)
THEOREM TypeCorrect == Spec => []TypeOK
<1>1. KeyInv => TypeOK
  BY DEF KeyInv
<1> QED
  BY <1>1, KeyInvariant, PTL

(* A key is marked reserved for exactly the order whose row names it.      *)
THEOREM KeysStayLinked == Spec => []KeyOrderLink
<1>1. KeyInv => KeyOrderLink
  BY DEF KeyInv
<1> QED
  BY <1>1, KeyInvariant, PTL

(* No key is ever sold under two orders.                                   *)
THEOREM KeysAreSoldOnce == Spec => []SoldOnce
<1>1. KeyInv => SoldOnce
  BY DEF KeyInv
<1> QED
  BY <1>1, KeyInvariant, PTL

(* A key has left the shelf for good exactly when its delivery was queued. *)
THEOREM SalesAreQueued == Spec => []SaleIsQueued
<1>1. KeyInv => SaleIsQueued
  BY DEF KeyInv
<1> QED
  BY <1>1, KeyInvariant, PTL

(* An order that was closed, failed or served keeps no key from the shelf. *)
THEOREM ClosedOrdersHoldNothing == Spec => []ClosedHoldsNothing
<1>1. KeyInv => ClosedHoldsNothing
  BY DEF KeyInv
<1> QED
  BY <1>1, KeyInvariant, PTL

(* What sessions remember of orders stays faithful, which is what makes    *)
(* the flush of a stale row harmless to the keys.                          *)
THEOREM MemoriesAreFaithful == Spec => []Remembered
<1>1. KeyInv => Remembered
  BY DEF KeyInv
<1> QED
  BY <1>1, KeyInvariant, PTL

(* A sold key is never put back, reserved or given to another user.        *)
THEOREM SalesAreFinal == Spec => SoldForever
<1>1. KeyInv /\ [Next]_vars => [KeepsSales]_vars
  BY ConstantsAssumption, NextIsKeyStep, StepKeepsSales
<1>2. [KeepsSales]_vars
        => [\A k \in Keys :
             /\ keys[k].status \in {"issued", "broken"} =>
                  keys'[k].status \in {"issued", "broken"} /\ keys'[k].owner = keys[k].owner
             /\ keys[k].status = "broken" => keys'[k].status = "broken"]_vars
  BY DEF KeepsSales
<1> QED
  BY <1>1, <1>2, KeyInvariant, PTL DEF Spec, SoldForever

-----------------------------------------------------------------------------
(* Payment before the key                                                  *)

PaidStatus == Issuable \cup {"issued", "refunded"}

(* A session that is about to issue does so for a confirmed payment. *)
IssuesConfirmed ==
    \A s \in Sessions : sess[s].pc = "issue" => sess[s].order \in confirmed

PaidInv == KeyInv /\ PaidBeforeKey /\ IssuesConfirmed

(* What a step adds to the jobs and to the orders in a paid state was      *)
(* confirmed by then.                                                      *)
ConfirmedAdditions ==
    /\ confirmed \subseteq confirmed'
    /\ \A j \in jobs' : j \in jobs \/ j[1] \in confirmed'
    /\ \A o \in Orders :
        orders'[o].status \in PaidStatus => orders[o].status \in PaidStatus \/ o \in confirmed'
    /\ \A s \in Sessions :
        sess'[s].pc = "issue" =>
            \/ sess[s].pc = "issue" /\ sess'[s].order = sess[s].order
            \/ sess'[s].order \in confirmed'

(* If a step adds only what was confirmed, nothing is sold unpaid.         *)
LEMMA AdditionsKeepPaidInv ==
    ASSUME PaidBeforeKey, IssuesConfirmed, ConfirmedAdditions
    PROVE  PaidBeforeKey' /\ IssuesConfirmed'
BY DEF PaidBeforeKey, IssuesConfirmed, ConfirmedAdditions, PaidStatus

(* An event or a report makes a row paid only if the payment succeeded. *)
LEMMA AfterPaid ==
    ASSUME NEW row \in OrderRow, NEW status
    PROVE  /\ AfterEvent(status, row).status \in PaidStatus =>
                AfterEvent(status, row).status = row.status \/ status = "succeeded"
           /\ AfterReport(status, row).status \in PaidStatus =>
                AfterReport(status, row).status = row.status \/ status = "succeeded"
<1>1. WithoutReservation(row) \in OrderRow
  BY DEF WithoutReservation, OrderRow
<1> QED
  BY <1>1 DEF AfterEvent, AfterReport, PaidStatus, Issuable, OrderRow

(* Flushing over another session's status leaves it or writes one's own. *)
LEMMA FlushedStatus ==
    ASSUME NEW db, NEW row, NEW new
    PROVE  Flush(db, row, new).status = db.status
           \/ (Flush(db, row, new).status = new.status /\ new.status # row.status)
BY DEF Flush

(* Every step adds only what was confirmed.                                *)
LEMMA NextConfirms ==
    ASSUME ConstantsAssumption, PaidInv, [Next]_vars
    PROVE  ConfirmedAdditions
<1>0. /\ sess \in [Sessions -> SessionRow] /\ orders \in [Orders -> OrderRow]
      /\ listed \in [Orders -> OrderRow]
      /\ \A s \in Sessions : sess[s].mem \in OrderRow
      /\ Handlers \subseteq Sessions /\ Worker \in Sessions
      /\ confirmed \subseteq Orders
  BY DEF PaidInv, KeyInv, TypeOK, SessionRow, Sessions
(* The three parts, from what changed. *)
<1>1. ASSUME NEW o \in Orders, NEW row, orders' = [orders EXCEPT ![o] = row],
             \/ row.status \notin PaidStatus
             \/ row.status = orders[o].status
             \/ o \in confirmed'
      PROVE  \A p \in Orders : orders'[p].status \in PaidStatus
                 => orders[p].status \in PaidStatus \/ p \in confirmed'
  <2>1. orders'[o] = row /\ \A p \in Orders \ {o} : orders'[p] = orders[p]
    BY <1>0, <1>1
  <2> QED
    BY <1>1, <2>1
<1>2. ASSUME NEW s \in Sessions, NEW row, sess' = [sess EXCEPT ![s] = row],
             row.pc # "issue" \/ row.order \in confirmed'
      PROVE  \A t \in Sessions : sess'[t].pc = "issue" =>
                 \/ sess[t].pc = "issue" /\ sess'[t].order = sess[t].order
                 \/ sess'[t].order \in confirmed'
  <2>1. sess'[s] = row /\ \A t \in Sessions \ {s} : sess'[t] = sess[t]
    BY <1>0, <1>2
  <2> QED
    BY <1>2, <2>1
<1>3. /\ Idle.pc = "idle"
      /\ \A phase, o, row : /\ At(phase, o, row).pc = phase
                            /\ At(phase, o, row).order = o
      /\ \A s : AfterIssue(s).pc \in {"idle", "recheck"}
  BY DEF Idle, At, AfterIssue
<1>4. /\ {"paid", "paid_but_not_issued", "issued", "refunded"} = PaidStatus
  BY DEF PaidStatus, Issuable
<1>5. ASSUME NEW s \in Handlers, NEW o \in Orders, CreateOrder(s, o) PROVE ConfirmedAdditions
  <2>1. PICK k \in OnShelf :
          LET row == [status |-> "created", reserved |-> k, issued |-> NoKey,
                      payId |-> FALSE, deadline |-> "set"]
          IN  /\ orders' = [orders EXCEPT ![o] = row]
              /\ sess' = IF Provider = "fake"
                         THEN [sess EXCEPT ![s] = At("attach", o, row)]
                         ELSE sess
    BY <1>5 DEF CreateOrder
  <2> DEFINE row == [status |-> "created", reserved |-> k, issued |-> NoKey,
                     payId |-> FALSE, deadline |-> "set"]
  <2>2. row.status = "created"
    OBVIOUS
  <2>3. jobs' = jobs /\ confirmed' = confirmed
    BY <1>5 DEF CreateOrder
  <2> HIDE DEF row
  <2>4. \A p \in Orders : orders'[p].status \in PaidStatus
            => orders[p].status \in PaidStatus \/ p \in confirmed'
    BY <1>1, <1>4, <2>1, <2>2 DEF row
  <2>5. \A t \in Sessions : sess'[t].pc = "issue" =>
            \/ sess[t].pc = "issue" /\ sess'[t].order = sess[t].order
            \/ sess'[t].order \in confirmed'
    BY <1>0, <1>2, <1>3, <2>1
  <2> QED
    BY <2>3, <2>4, <2>5 DEF ConfirmedAdditions
<1>6. ASSUME NEW s \in Handlers, NEW o \in Orders, Confirm(s, o) PROVE ConfirmedAdditions
  <2> DEFINE row == [orders[o] EXCEPT !.status = "paid"]
  <2>1. /\ orders' = [orders EXCEPT ![o] = row]
        /\ sess' = [sess EXCEPT ![s] = At("issue", o, row)]
        /\ confirmed' = confirmed \cup {o}
        /\ jobs' = jobs
    BY <1>6 DEF Confirm
  <2> HIDE DEF row
  <2> QED
    BY <1>0, <1>1, <1>2, <1>3, <2>1 DEF ConfirmedAdditions
<1>7. ASSUME NEW s \in Handlers, NEW e \in Events, ReceiveEvent(s, e) PROVE ConfirmedAdditions
  <2> DEFINE row == [pc |-> "webhook", order |-> e.order, mem |-> orders[e.order], event |-> e]
  <2>1. sess' = [sess EXCEPT ![s] = row] /\ row.pc # "issue"
    BY <1>7 DEF ReceiveEvent
  <2> HIDE DEF row
  <2>2. UNCHANGED <<orders, jobs, confirmed>>
    BY <1>7 DEF ReceiveEvent
  <2> QED
    BY <1>0, <1>2, <2>1, <2>2 DEF ConfirmedAdditions
<1>8. ASSUME NEW o \in Orders, Cancel(o) \/ Refund(o) \/ ReplaceKey(o) \/ PassDeadline(o)
      PROVE  ConfirmedAdditions
  <2>0. sess' = sess /\ confirmed' = confirmed
    BY <1>8 DEF Cancel, Refund, ReplaceKey, PassDeadline
  <2>1. orders[o].status \in PaidStatus => o \in confirmed
    BY DEF PaidInv, PaidBeforeKey, PaidStatus
  <2>2. CASE Cancel(o)
    <3> DEFINE row == [orders[o] EXCEPT !.status = "canceled", !.reserved = NoKey]
    <3>1. orders' = [orders EXCEPT ![o] = row] /\ jobs' = jobs
      BY <2>2 DEF Cancel
    <3>2. row.status = "canceled"
      BY <1>0, UpdatedColumns
    <3> HIDE DEF row
    <3> QED
      BY <1>1, <1>4, <2>0, <3>1, <3>2 DEF ConfirmedAdditions
  <2>3. CASE Refund(o)
    <3> DEFINE row == [orders[o] EXCEPT !.status = "refunded"]
    <3>1. orders' = [orders EXCEPT ![o] = row] /\ jobs' = jobs
      BY <2>3 DEF Refund
    <3>2. o \in confirmed'
      BY <2>0, <2>1, <2>3 DEF Refund, PaidStatus
    <3> HIDE DEF row
    <3> QED
      BY <1>1, <2>0, <3>1, <3>2 DEF ConfirmedAdditions
  <2>4. CASE ReplaceKey(o)
    <3>1. PICK k \in OnShelf :
            /\ orders' = [orders EXCEPT ![o] = [orders[o] EXCEPT !.issued = k, !.reserved = NoKey]]
            /\ jobs' = jobs \cup {<<o, k>>}
      BY <2>4 DEF ReplaceKey
    <3>2. o \in confirmed'
      BY <1>4, <2>0, <2>1, <2>4 DEF ReplaceKey
    <3> QED
      BY <1>1, <2>0, <3>1, <3>2 DEF ConfirmedAdditions
  <2>5. CASE PassDeadline(o)
    <3> DEFINE row == [orders[o] EXCEPT !.deadline = "past"]
    <3>1. orders' = [orders EXCEPT ![o] = row] /\ jobs' = jobs
      BY <2>5 DEF PassDeadline
    <3>2. row.status = orders[o].status
      BY <1>0, UpdatedColumns
    <3> HIDE DEF row
    <3> QED
      BY <1>1, <2>0, <3>1, <3>2 DEF ConfirmedAdditions
  <2> QED
    BY <1>8, <2>2, <2>3, <2>4, <2>5
<1>9. ASSUME NEW s \in Sessions, Continue(s) PROVE ConfirmedAdditions
  <2> DEFINE o == sess[s].order
             row == sess[s].mem
  <2>0. /\ sess[s].pc \in Recalling => o \in Orders
        /\ sess[s].pc = "issue" => o \in confirmed
        /\ row \in OrderRow
    BY <1>0 DEF PaidInv, KeyInv, Remembered, Recalling, IssuesConfirmed
  <2>1. CASE AttachPayment(s)
    <3> DEFINE new == [row EXCEPT !.payId = TRUE, !.status = "pending_payment"]
    <3>1. /\ o \in Orders
          /\ orders' = [orders EXCEPT ![o] = Flush(orders[o], row, new)]
          /\ sess' = [sess EXCEPT ![s] = Idle]
          /\ jobs' = jobs /\ confirmed' = confirmed
      BY <2>0, <2>1 DEF AttachPayment, Recalling
    <3>2. new.status = "pending_payment"
      BY <2>0 DEF OrderRow
    <3> HIDE DEF new
    <3>3. \/ Flush(orders[o], row, new).status \notin PaidStatus
          \/ Flush(orders[o], row, new).status = orders[o].status
      BY <1>4, <3>2, FlushedStatus
    <3> QED
      BY <1>1, <1>2, <1>3, <3>1, <3>3 DEF ConfirmedAdditions
  <2>2. CASE IssueKey(s)
    <3>1. /\ o \in Orders /\ o \in confirmed'
          /\ sess' = [sess EXCEPT ![s] = AfterIssue(s)]
          /\ confirmed' = confirmed
      BY <1>0, <2>0, <2>2 DEF IssueKey
    <3>2. PICK k \in KeysToIssue(o, row) :
            /\ orders' = [orders EXCEPT ![o] = Flush(orders[o], row,
                  [row EXCEPT !.issued = k, !.reserved = NoKey, !.status = "issued"])]
            /\ jobs' = jobs \cup {<<o, k>>}
      BY <2>2 DEF IssueKey
    <3> QED
      BY <1>1, <1>2, <1>3, <3>1, <3>2 DEF ConfirmedAdditions
  <2>3. CASE MarkPaidButNotIssued(s)
    <3>1. /\ o \in Orders /\ o \in confirmed'
          /\ sess' = [sess EXCEPT ![s] = AfterIssue(s)]
          /\ orders' = [orders EXCEPT ![o] = Flush(orders[o], row,
                          [row EXCEPT !.status = "paid_but_not_issued"])]
          /\ jobs' = jobs /\ confirmed' = confirmed
      BY <1>0, <2>0, <2>3 DEF MarkPaidButNotIssued
    <3> QED
      BY <1>1, <1>2, <1>3, <3>1 DEF ConfirmedAdditions
  <2>4. CASE RefuseToIssue(s)
    <3>1. /\ sess' = [sess EXCEPT ![s] = Idle]
          /\ UNCHANGED <<orders, jobs, confirmed>>
      BY <2>4 DEF RefuseToIssue, Leave
    <3> QED
      BY <1>2, <1>3, <3>1 DEF ConfirmedAdditions
  <2>5. CASE ApplyEvent(s)
    <3> DEFINE status == sess[s].event.status
               new == AfterEvent(status, row)
    <3>1. /\ o \in Orders
          /\ orders' = [orders EXCEPT ![o] = Flush(orders[o], row, new)]
          /\ confirmed' = IF status = "succeeded" THEN confirmed \cup {o} ELSE confirmed
          /\ sess' = [sess EXCEPT ![s] =
                        IF status = "succeeded" THEN At("issue", o, new) ELSE Idle]
          /\ jobs' = jobs
      BY <2>0, <2>5 DEF ApplyEvent, Recalling
    <3>2. \/ new.status \notin PaidStatus
          \/ new.status = row.status
          \/ status = "succeeded"
      BY <2>0, AfterPaid
    <3> HIDE DEF new, status
    <3>3. \/ Flush(orders[o], row, new).status \notin PaidStatus
          \/ Flush(orders[o], row, new).status = orders[o].status
          \/ o \in confirmed'
      BY <3>1, <3>2, FlushedStatus
    <3> QED
      BY <1>1, <1>2, <1>3, <3>1, <3>3 DEF ConfirmedAdditions
  <2> QED
    BY <1>9, <2>1, <2>2, <2>3, <2>4, <2>5 DEF Continue
<1>10. ASSUME NEW s \in Sessions, Crash(s) PROVE ConfirmedAdditions
  <2>1. /\ sess' = [sess EXCEPT ![s] = Idle]
        /\ UNCHANGED <<orders, jobs, confirmed>>
    BY <1>10 DEF Crash, Leave
  <2> QED
    BY <1>2, <1>3, <2>1 DEF ConfirmedAdditions
<1>11. ASSUME ListExpired \/ ListStale \/ EndIteration PROVE ConfirmedAdditions
  <2>1. /\ UNCHANGED <<orders, jobs, confirmed>>
        /\ \/ sess' = [sess EXCEPT ![Worker] = Idle]
           \/ \E phase \in {"sweep", "recheck"} :
                sess' = [sess EXCEPT ![Worker] = At(phase, NoOrder, AbsentRow)]
    BY <1>11 DEF ListExpired, ListStale, EndIteration
  <2> QED
    BY <1>0, <1>2, <1>3, <2>1 DEF ConfirmedAdditions
<1>12. ASSUME ExpireReservations PROVE ConfirmedAdditions
  <2> DEFINE Expired(row) == [row EXCEPT !.status = "expired_reservation", !.reserved = NoKey]
  <2>1. /\ sess' = [sess EXCEPT ![Worker] = At("swept", NoOrder, AbsentRow)]
        /\ UNCHANGED <<jobs, confirmed>>
        /\ \A o \in Orders : \/ orders'[o] = orders[o]
                            \/ orders'[o] = Flush(orders[o], listed[o], Expired(listed[o]))
    BY <1>12 DEF ExpireReservations
  <2>2. \A o \in Orders : Expired(listed[o]).status = "expired_reservation"
    BY <1>0, UpdatedColumns
  <2> HIDE DEF Expired
  <2>3. \A o \in Orders : orders'[o].status \in PaidStatus => orders[o].status \in PaidStatus
    BY <1>4, <2>1, <2>2, FlushedStatus
  <2>4. \A t \in Sessions : sess'[t].pc = "issue" =>
            \/ sess[t].pc = "issue" /\ sess'[t].order = sess[t].order
            \/ sess'[t].order \in confirmed'
    BY <1>0, <1>2, <1>3, <2>1
  <2> QED
    BY <2>1, <2>3, <2>4 DEF ConfirmedAdditions
<1>13. ASSUME NEW o \in Orders, RecheckOrder(o) PROVE ConfirmedAdditions
  <2> DEFINE row == listed[o]
  <2>1. PICK status \in ReportedStatuses :
          LET new == AfterReport(status, row)
          IN  /\ orders' = [orders EXCEPT ![o] = Flush(orders[o], row, new)]
              /\ confirmed' = IF status = "succeeded" THEN confirmed \cup {o} ELSE confirmed
              /\ sess' = IF status = "succeeded"
                         THEN [sess EXCEPT ![Worker] = At("issue", o, new)]
                         ELSE sess
    BY <1>13 DEF RecheckOrder
  <2> DEFINE new == AfterReport(status, row)
  <2>2. jobs' = jobs
    BY <1>13 DEF RecheckOrder
  <2>3. \/ new.status \notin PaidStatus
        \/ new.status = row.status
        \/ status = "succeeded"
    BY <1>0, AfterPaid
  <2>4. /\ orders' = [orders EXCEPT ![o] = Flush(orders[o], row, new)]
        /\ confirmed' = IF status = "succeeded" THEN confirmed \cup {o} ELSE confirmed
        /\ status = "succeeded" => sess' = [sess EXCEPT ![Worker] = At("issue", o, new)]
        /\ status # "succeeded" => sess' = sess
    BY <2>1
  <2> HIDE DEF new
  <2>5. \/ Flush(orders[o], row, new).status \notin PaidStatus
        \/ Flush(orders[o], row, new).status = orders[o].status
        \/ o \in confirmed'
    BY <2>3, <2>4, FlushedStatus
  <2>6. \A t \in Sessions : sess'[t].pc = "issue" =>
            \/ sess[t].pc = "issue" /\ sess'[t].order = sess[t].order
            \/ sess'[t].order \in confirmed'
    BY <1>0, <1>2, <1>3, <2>4
  <2> QED
    BY <1>1, <2>2, <2>4, <2>5, <2>6 DEF ConfirmedAdditions
<1>14. CASE UNCHANGED vars
  BY <1>14 DEF vars, ConfirmedAdditions
<1> QED
  BY <1>5, <1>6, <1>7, <1>8, <1>9, <1>10, <1>11, <1>12, <1>13, <1>14 DEF Next, WorkerStep

(* No key is queued for an order, and no order is in a paid state, without *)
(* a commit that confirmed its payment.                                    *)
THEOREM KeysArePaidFor == Spec => []PaidBeforeKey
<1>1. Init => PaidInv
  <2> SUFFICES ASSUME Init PROVE PaidInv
    OBVIOUS
  <2>1. KeyInv
    BY ConstantsAssumption, InitKeyInv
  <2>2. PaidBeforeKey
    BY DEF Init, PaidBeforeKey, AbsentRow, Issuable
  <2>3. IssuesConfirmed
    BY DEF Init, IssuesConfirmed, Idle
  <2> QED
    BY <2>1, <2>2, <2>3 DEF PaidInv
<1>2. PaidInv /\ [Next]_vars => PaidInv'
  <2> SUFFICES ASSUME PaidInv, [Next]_vars PROVE PaidInv'
    OBVIOUS
  <2>1. KeyInv'
    BY ConstantsAssumption, NextKeyInv DEF PaidInv
  <2> QED
    BY <2>1, ConstantsAssumption, NextConfirms, AdditionsKeepPaidInv DEF PaidInv
<1>3. PaidInv => PaidBeforeKey
  BY DEF PaidInv
<1> QED
  BY <1>1, <1>2, <1>3, PTL DEF Spec

-----------------------------------------------------------------------------
(* The services implement KeyLedger: each kind of step on the keys is one  *)
(* operation of the ledger.                                                *)

Places == [k \in Keys |-> PlaceOf(keys[k])]

(* The places of the rows of vpn_keys the services write.                  *)
LEMMA PlacesOfKeys ==
    ASSUME ConstantsAssumption
    PROVE  /\ PlaceOf(AvailableKey) = Ledger!Shelf
           /\ \A o : PlaceOf(ReservedKey(o)) = Ledger!Held(o)
           /\ \A u : PlaceOf(IssuedKey(u)) = Ledger!Sold(u)
BY DEF PlaceOf, AvailableKey, ReservedKey, IssuedKey, Ledger!Shelf, Ledger!Held, Ledger!Sold

(* An order without a reservation holds no place of the ledger. *)
LEMMA WithoutReservationHoldsNothing ==
    ASSUME ConstantsAssumption, KeyInv, NEW o \in Orders, orders[o].reserved = NoKey
    PROVE  Ledger!HoldsNothing(o)
<1> SUFFICES ASSUME NEW k \in Keys PROVE PlaceOf(keys[k]) # Ledger!Held(o)
  BY DEF Ledger!HoldsNothing
<1>1. keys[k].status = "reserved" => keys[k].by # o
  BY DEF KeyInv, KeyOrderLink, ConstantsAssumption
<1>2. keys[k].status \in {"available", "reserved", "issued", "broken"}
  BY DEF KeyInv, TypeOK, KeyRow
<1>3. Ledger!Held(o).at = "held" /\ Ledger!Held(o).order = o
  BY DEF Ledger!Held
<1>4. PlaceOf(keys[k]).at = "held" => keys[k].status = "reserved"
  BY <1>2 DEF PlaceOf
<1>5. PlaceOf(keys[k]).order = keys[k].by
  BY DEF PlaceOf
<1> QED
  BY <1>1, <1>3, <1>4, <1>5

(* A key step is one operation of the ledger, or none.                     *)
LEMMA KeyStepIsLedgerStep ==
    ASSUME ConstantsAssumption, KeyInv, TypeOK', KeyStep
    PROVE  Ledger!Next \/ Places' = Places
<1>0. /\ keys \in [Keys -> KeyRow] /\ keys' \in [Keys -> KeyRow]
      /\ BuyerOf \in [Orders -> Users]
      /\ \A p \in Orders : orders[p].reserved # NoKey
                            => keys[orders[p].reserved] = ReservedKey(p)
      /\ \A p \in Orders : orders[p].reserved \in Keys \cup {NoKey}
      /\ \A k \in OnShelf : keys[k] = AvailableKey
      /\ NoKey \notin Keys
  BY DEF KeyInv, TypeOK, KeyOrderLink, ShelfIsClean, ConstantsAssumption, OrderRow
<1>1. /\ PlaceOf(AvailableKey) = Ledger!Shelf
      /\ \A o : PlaceOf(ReservedKey(o)) = Ledger!Held(o)
      /\ \A u : PlaceOf(IssuedKey(u)) = Ledger!Sold(u)
  BY PlacesOfKeys
<1>2. CASE Quiet
  BY <1>2 DEF Quiet, Places
<1>3. ASSUME NEW o \in Orders, NEW k \in Keys, Reserves(o, k) PROVE Ledger!Next
  <2>1. /\ keys[k] = AvailableKey
        /\ keys' = [keys EXCEPT ![k] = ReservedKey(o)]
    BY <1>0, <1>3 DEF Reserves
  <2>2. orders[o].reserved = NoKey
    BY <1>3 DEF Reserves, KeyInv, ClosedHoldsNothing, Unpaid
  <2>3. Ledger!HoldsNothing(o)
    BY <2>2, WithoutReservationHoldsNothing
  <2>4. Ledger!Hold(k, o)
    BY <1>0, <1>1, <2>1, <2>3 DEF Ledger!Hold
  <2> QED
    BY <2>4 DEF Ledger!Next
<1>4. ASSUME NEW o \in Orders, NEW k \in Keys, Sells(o, k) PROVE Ledger!Next
  <2>1. /\ \/ keys[k] = ReservedKey(o)
           \/ keys[k] = AvailableKey /\ orders[o].reserved = NoKey
        /\ keys' = [keys EXCEPT ![k] = IssuedKey(BuyerOf[o])]
    BY <1>0, <1>4 DEF Sells
  <2>2. \/ PlaceOf(keys[k]) = Ledger!Held(o)
        \/ PlaceOf(keys[k]) = Ledger!Shelf /\ Ledger!HoldsNothing(o)
    BY <1>1, <2>1, WithoutReservationHoldsNothing
  <2>3. Ledger!Sell(k, o)
    BY <1>0, <1>1, <2>1, <2>2 DEF Ledger!Sell
  <2> QED
    BY <2>3 DEF Ledger!Next
<1>5. ASSUME NEW o \in Orders, NEW k \in Keys, Replaces(o, k) PROVE Ledger!Next
  <2> DEFINE old == orders[o].issued
             u == BuyerOf[o]
  <2>1. /\ keys' = [keys EXCEPT ![k] = IssuedKey(u), ![old] = [@ EXCEPT !.status = "broken"]]
        /\ old \in Keys /\ keys[k] = AvailableKey /\ u \in Users
    BY <1>0, <1>5 DEF Replaces
  <2>2. keys[old].status = "issued" /\ keys[old].owner = u /\ <<o, old>> \in jobs
    BY <1>0, <2>1 DEF KeyInv, SaleIsQueued
  <2>3. keys[old].by = NoOrder
    BY <2>1, <2>2 DEF KeyInv, KeyOrderLink
  <2>4. PlaceOf(keys[old]) = Ledger!Sold(u)
    BY <2>2, <2>3 DEF PlaceOf, Ledger!Sold
  <2>5. old # k
    BY <2>1, <2>2 DEF AvailableKey
  <2>6. keys'[old] = [keys[old] EXCEPT !.status = "broken"]
    BY <1>0, <2>1, <2>5
  <2>7. keys'[old].status = "broken" /\ keys'[old].by = NoOrder /\ keys'[old].owner = u
    BY <1>0, <2>1, <2>2, <2>3, <2>6 DEF KeyRow
  <2>8. PlaceOf(keys'[old]) = Ledger!Retired(u)
    BY <2>7 DEF PlaceOf, Ledger!Retired
  <2>9. keys'[k] = IssuedKey(u) /\ \A q \in Keys \ {old, k} : keys'[q] = keys[q]
    BY <1>0, <2>1, <2>5
  <2> HIDE DEF old, u
  <2>10. Places' = [Places EXCEPT ![old] = Ledger!Retired(u), ![k] = Ledger!Sold(u)]
    <3>1. /\ Places'[old] = Ledger!Retired(u) /\ Places'[k] = Ledger!Sold(u)
          /\ \A q \in Keys \ {old, k} : Places'[q] = Places[q]
      <4>1. \A q \in Keys : Places'[q] = PlaceOf(keys'[q]) /\ Places[q] = PlaceOf(keys[q])
        BY DEF Places
      <4>2. PlaceOf(keys'[k]) = Ledger!Sold(u)
        BY <1>1, <2>9
      <4> QED
        BY <2>1, <2>8, <2>9, <4>1, <4>2
    <3> DEFINE after == [Places EXCEPT ![old] = Ledger!Retired(u), ![k] = Ledger!Sold(u)]
    <3>2. DOMAIN Places' = Keys /\ DOMAIN Places = Keys
      BY DEF Places
    <3>3. \A q \in Keys : Places'[q] = after[q]
      BY <2>1, <2>5, <3>1, <3>2
    <3>4. Places' = [q \in Keys |-> Places'[q]] /\ after = [q \in Keys |-> after[q]]
      BY <3>2 DEF Places
    <3> QED
      BY <3>3, <3>4
  <2>11. Ledger!Replace(old, k, u)
    BY <1>1, <2>1, <2>4, <2>10 DEF Ledger!Replace, Places
  <2> QED
    BY <2>1, <2>11 DEF Ledger!Next
<1>6. ASSUME NEW O \in SUBSET Orders, Releases(O) PROVE Ledger!Next
  <2> DEFINE K == {k \in Keys : \E o \in O : orders[o].reserved = k}
  <2>1. keys' = [k \in Keys |-> IF k \in K THEN AvailableKey ELSE keys[k]]
    BY <1>6 DEF Releases
  <2>2. \A k \in K : PlaceOf(keys[k]).at = "held"
    BY <1>0, <1>1 DEF Ledger!Held
  <2> HIDE DEF K
  <2>3. Places' = [k \in Keys |-> IF k \in K THEN Ledger!Shelf ELSE Places[k]]
    BY <1>1, <2>1 DEF Places
  <2>4. Ledger!Return(K)
    BY <2>2, <2>3 DEF Ledger!Return, Places, K
  <2>5. K \in SUBSET Keys
    BY DEF K
  <2> QED
    BY <2>4, <2>5 DEF Ledger!Next
<1> QED
  BY <1>2, <1>3, <1>4, <1>5, <1>6 DEF KeyStep

(* Every behaviour of the services is a behaviour of the ledger. *)
THEOREM ServicesImplementLedger == Spec => ImplementsLedger
<1>1. Init => Ledger!Init
  <2> SUFFICES ASSUME Init PROVE Ledger!Init
    OBVIOUS
  <2>1. \A k \in Keys : PlaceOf(keys[k]) = Ledger!Shelf
    BY ConstantsAssumption, PlacesOfKeys DEF Init
  <2> QED
    BY <2>1 DEF Ledger!Init
<1>2. KeyInv /\ KeyInv' /\ [Next]_vars => [Ledger!Next]_Places
  <2> SUFFICES ASSUME KeyInv, KeyInv', [Next]_vars PROVE Ledger!Next \/ Places' = Places
    OBVIOUS
  <2> QED
    BY ConstantsAssumption, NextIsKeyStep, KeyStepIsLedgerStep DEF KeyInv
<1>3. [Ledger!Next]_Places => [Ledger!Next]_([k \in Keys |-> PlaceOf(keys[k])])
  BY DEF Places
<1> QED
  BY <1>1, <1>2, <1>3, KeyInvariant, PTL DEF Spec, ImplementsLedger, Ledger!Spec

-----------------------------------------------------------------------------
(* What nothing comes back to                                              *)

(* The rows of NothingListed and of sessions that hold no order. *)
LEMMA EmptyRows ==
    /\ AbsentRow.status = "absent" /\ ~ AbsentRow.payId
    /\ Idle.pc = "idle" /\ Idle.order = NoOrder
    /\ \A o \in Orders : NothingListed[o] = AbsentRow
    /\ \A phase, o, row : /\ At(phase, o, row).pc = phase /\ At(phase, o, row).order = o
                          /\ At(phase, o, row).mem = row
    /\ \A s : /\ AfterIssue(s).pc \in {"idle", "recheck"} /\ AfterIssue(s).order = NoOrder
              /\ s # Worker => AfterIssue(s).pc = "idle"
BY DEF AbsentRow, Idle, NothingListed, At, AfterIssue

(* A row that is flushed as it was read leaves the database alone. *)
LEMMA FlushUnchanged ==
    ASSUME NEW db \in OrderRow, NEW row
    PROVE  Flush(db, row, row) = db
BY DEF Flush, OrderRow

(* Sessions that take up other orders leave a stranded one alone. *)
LEMMA StrandedKept ==
    ASSUME ConstantsAssumption, TypeOK, NEW o \in Orders, Stranded(o), orders'[o] = orders[o],
           listed'[o] = listed[o] \/ listed'[o].status = "absent",
           \A s \in Sessions : \/ sess'[s] = sess[s] \/ sess'[s].order # o
                               \/ /\ sess'[s].pc \in {"webhook", "issue"}
                                  /\ sess'[s].mem.status = "refunded"
    PROVE  Stranded(o)'
BY DEF Stranded

(* Every step does. *)
LEMMA StrandedStep ==
    ASSUME ConstantsAssumption, TypeOK, NEW o \in Orders, Stranded(o), [Next]_vars
    PROVE  Stranded(o)' /\ orders'[o].reserved = orders[o].reserved
<1>1. /\ sess \in [Sessions -> SessionRow] /\ orders \in [Orders -> OrderRow]
      /\ listed \in [Orders -> OrderRow]
      /\ Handlers \subseteq Sessions /\ Worker \in Sessions /\ o # NoOrder
      /\ orders[o].status = "refunded" /\ listed[o].status = "absent"
      /\ orders[o] \in OrderRow
  BY DEF TypeOK, SessionRow, Sessions, ConstantsAssumption, Stranded
<1> SUFFICES /\ orders'[o] = orders[o]
             /\ listed'[o] = listed[o] \/ listed'[o].status = "absent"
             /\ \A s \in Sessions : \/ sess'[s] = sess[s] \/ sess'[s].order # o
                                    \/ /\ sess'[s].pc \in {"webhook", "issue"}
                                       /\ sess'[s].mem.status = "refunded"
  BY StrandedKept
<1>2. ASSUME NEW s \in Handlers, NEW p \in Orders, CreateOrder(s, p) \/ Confirm(s, p)
      PROVE  /\ orders'[o] = orders[o] /\ listed' = listed
             /\ \A t \in Sessions : sess'[t] = sess[t] \/ sess'[t].order # o
  <2>1. p # o
    BY <1>1, <1>2 DEF CreateOrder, Confirm
  <2>2. PICK row, memory : /\ orders' = [orders EXCEPT ![p] = row] /\ listed' = listed
                           /\ sess' = [sess EXCEPT ![s] = memory] \/ sess' = sess
                           /\ memory.order = p
    <3>1. CASE CreateOrder(s, p)
      <4>1. PICK k \in OnShelf :
              LET row == [status |-> "created", reserved |-> k, issued |-> NoKey,
                          payId |-> FALSE, deadline |-> "set"]
              IN  /\ orders' = [orders EXCEPT ![p] = row]
                  /\ sess' = IF Provider = "fake"
                             THEN [sess EXCEPT ![s] = At("attach", p, row)] ELSE sess
        BY <3>1 DEF CreateOrder
      <4> DEFINE row == [status |-> "created", reserved |-> k, issued |-> NoKey,
                         payId |-> FALSE, deadline |-> "set"]
      <4>2. /\ orders' = [orders EXCEPT ![p] = row]
            /\ sess' = [sess EXCEPT ![s] = At("attach", p, row)] \/ sess' = sess
        BY <4>1
      <4>3. listed' = listed /\ At("attach", p, row).order = p
        BY <3>1, EmptyRows DEF CreateOrder
      <4> HIDE DEF row
      <4> QED
        BY <4>2, <4>3
    <3>2. CASE Confirm(s, p)
      <4> DEFINE row == [orders[p] EXCEPT !.status = "paid"]
      <4>1. /\ orders' = [orders EXCEPT ![p] = row]
            /\ sess' = [sess EXCEPT ![s] = At("issue", p, row)] /\ listed' = listed
        BY <3>2 DEF Confirm
      <4>2. At("issue", p, row).order = p
        BY EmptyRows
      <4> HIDE DEF row
      <4> QED
        BY <4>1, <4>2
    <3> QED
      BY <1>2, <3>1, <3>2
  <2> QED
    BY <1>1, <2>1, <2>2
<1>3. ASSUME NEW s \in Handlers, NEW e \in Events, ReceiveEvent(s, e)
      PROVE  /\ orders' = orders /\ listed' = listed
             /\ \A t \in Sessions : \/ sess'[t] = sess[t] \/ sess'[t].order # o
                                    \/ /\ sess'[t].pc \in {"webhook", "issue"}
                                       /\ sess'[t].mem.status = "refunded"
  <2>1. PICK memory : /\ sess' = [sess EXCEPT ![s] = memory] /\ memory.pc = "webhook"
                      /\ memory.order = e.order /\ memory.mem = orders[e.order]
    <3> DEFINE memory == [pc |-> "webhook", order |-> e.order, mem |-> orders[e.order],
                          event |-> e]
    <3>1. sess' = [sess EXCEPT ![s] = memory]
      BY <1>3 DEF ReceiveEvent
    <3>2. memory.pc = "webhook" /\ memory.order = e.order /\ memory.mem = orders[e.order]
      OBVIOUS
    <3> HIDE DEF memory
    <3> QED
      BY <3>1, <3>2
  <2>2. orders' = orders /\ listed' = listed
    BY <1>3 DEF ReceiveEvent
  <2> QED
    BY <1>1, <2>1, <2>2
<1>4. ASSUME NEW p \in Orders, Cancel(p) \/ Refund(p) \/ ReplaceKey(p) \/ PassDeadline(p)
      PROVE  orders'[o] = orders[o] /\ listed' = listed /\ sess' = sess
  <2>1. p # o
    BY <1>1, <1>4 DEF Cancel, Refund, ReplaceKey, PassDeadline, Unpaid, Issuable
  <2>2. \E row : orders' = [orders EXCEPT ![p] = row]
    BY <1>4 DEF Cancel, Refund, ReplaceKey, PassDeadline
  <2>3. listed' = listed /\ sess' = sess
    BY <1>4 DEF Cancel, Refund, ReplaceKey, PassDeadline
  <2> QED
    BY <1>1, <2>1, <2>2, <2>3
<1>5. ASSUME NEW s \in Sessions, Leave(s), orders' = orders
      PROVE  /\ orders'[o] = orders[o]
             /\ listed'[o] = listed[o] \/ listed'[o].status = "absent"
             /\ \A t \in Sessions : sess'[t] = sess[t] \/ sess'[t].order # o
  BY <1>1, <1>5, EmptyRows DEF Leave
<1>6. ASSUME NEW s \in Sessions, AttachPayment(s) \/ IssueKey(s) \/ MarkPaidButNotIssued(s)
      PROVE  /\ orders'[o] = orders[o] /\ listed' = listed
             /\ \A t \in Sessions : sess'[t] = sess[t] \/ sess'[t].order # o
  <2>1. sess[s].order # o
    BY <1>6 DEF Stranded, AttachPayment, IssueKey, MarkPaidButNotIssued, Issuable
  <2>2. /\ \E row : orders' = [orders EXCEPT ![sess[s].order] = row]
        /\ listed' = listed
        /\ sess' = [sess EXCEPT ![s] = Idle] \/ sess' = [sess EXCEPT ![s] = AfterIssue(s)]
    BY <1>6 DEF AttachPayment, IssueKey, MarkPaidButNotIssued
  <2> QED
    BY <1>1, <2>1, <2>2, EmptyRows
<1>7. ASSUME NEW s \in Sessions, ApplyEvent(s)
      PROVE  /\ orders'[o] = orders[o] /\ listed' = listed
             /\ \A t \in Sessions : \/ sess'[t] = sess[t] \/ sess'[t].order # o
                                    \/ /\ sess'[t].pc \in {"webhook", "issue"}
                                       /\ sess'[t].mem.status = "refunded"
  <2>1. PICK p, row, new, memory :
            /\ p = sess[s].order /\ row = sess[s].mem
            /\ new = AfterEvent(sess[s].event.status, row)
            /\ orders' = [orders EXCEPT ![p] = Flush(orders[p], row, new)]
            /\ sess' = [sess EXCEPT ![s] = memory]
            /\ memory = At("issue", p, new) \/ memory = Idle
            /\ listed' = listed
    BY <1>7 DEF ApplyEvent
  <2>2. CASE p # o
    BY <1>1, <2>1, <2>2, EmptyRows
  <2>3. CASE p = o
    <3>1. row.status = "refunded"
      BY <2>1, <2>3 DEF Stranded
    <3>2. new = row
      BY <2>1, <3>1 DEF AfterEvent, Unpaid
    <3>3. orders'[o] = orders[o]
      BY <1>1, <2>1, <2>3, <3>2, FlushUnchanged
    <3> QED
      BY <1>1, <2>1, <3>1, <3>2, <3>3, EmptyRows
  <2> QED
    BY <2>2, <2>3
<1>8. ASSUME ListExpired \/ ExpireReservations \/ ListStale \/ EndIteration
      PROVE  /\ orders'[o] = orders[o]
             /\ listed'[o] = listed[o] \/ listed'[o].status = "absent"
             /\ \A t \in Sessions : sess'[t] = sess[t] \/ sess'[t].order # o
  <2>1. /\ \E phase : sess' = [sess EXCEPT ![Worker] = At(phase, NoOrder, AbsentRow)]
                      \/ sess' = [sess EXCEPT ![Worker] = Idle]
    BY <1>8 DEF ListExpired, ExpireReservations, ListStale, EndIteration
  <2>2. \A t \in Sessions : sess'[t] = sess[t] \/ sess'[t].order # o
    BY <1>1, <2>1, EmptyRows
  <2>3. CASE ListExpired
    BY <1>1, <2>2, <2>3, EmptyRows DEF ListExpired, Expirable, Unpaid
  <2>4. CASE ExpireReservations
    <3>1. ~ Expirable(listed[o])
      BY <1>1 DEF Expirable, Unpaid
    <3>2. orders'[o] = orders[o] /\ listed' = NothingListed
      BY <2>4, <3>1 DEF ExpireReservations
    <3> QED
      BY <2>2, <3>2, EmptyRows
  <2>5. CASE ListStale
    <3>1. PICK old \in SUBSET {p \in Orders : orders[p].status = "pending_payment"} :
            listed' = [p \in Orders |->
                        IF /\ orders[p].payId
                           /\ p \in old \/ orders[p].status = "paid_but_not_issued"
                        THEN orders[p] ELSE AbsentRow]
      BY <2>5 DEF ListStale
    <3>2. listed'[o] = AbsentRow
      BY <1>1, <3>1
    <3> QED
      BY <2>2, <2>5, <3>2, EmptyRows DEF ListStale
  <2>6. CASE EndIteration
    BY <2>2, <2>6 DEF EndIteration
  <2> QED
    BY <1>8, <2>3, <2>4, <2>5, <2>6
<1>9. ASSUME NEW p \in Orders, RecheckOrder(p)
      PROVE  /\ orders'[o] = orders[o] /\ listed'[o] = listed[o]
             /\ \A t \in Sessions : sess'[t] = sess[t] \/ sess'[t].order # o
  <2>1. p # o
    BY <1>1, <1>9 DEF RecheckOrder
  <2>2. PICK row, new : /\ orders' = [orders EXCEPT ![p] = row]
                        /\ listed' = [listed EXCEPT ![p] = AbsentRow]
                        /\ sess' = [sess EXCEPT ![Worker] = At("issue", p, new)] \/ sess' = sess
    BY <1>9 DEF RecheckOrder
  <2> QED
    BY <1>1, <2>1, <2>2, EmptyRows
<1>10. CASE UNCHANGED vars
  BY <1>10 DEF vars
<1>11. ASSUME NEW s \in Sessions, Continue(s) \/ Crash(s)
       PROVE  \/ AttachPayment(s) \/ IssueKey(s) \/ MarkPaidButNotIssued(s) \/ ApplyEvent(s)
              \/ Leave(s) /\ orders' = orders
  BY <1>11 DEF Continue, RefuseToIssue, Crash
<1> QED
  BY <1>2, <1>3, <1>4, <1>5, <1>6, <1>7, <1>8, <1>9, <1>10, <1>11 DEF Next, WorkerStep

(* A refund that finds the key still reserved reserves it for good, once   *)
(* nobody works on the order with an older row; for any number of orders,  *)
(* sessions and events, and whatever crashes.                              *)
THEOREM RefundsStrandKeys == Spec => StrandedForever
<1>1. ASSUME KeyInv, [Next]_vars
      PROVE  [\A o \in Orders : Stranded(o) =>
                 Stranded(o)' /\ orders'[o].reserved = orders[o].reserved]_vars
  BY <1>1, ConstantsAssumption, StrandedStep DEF KeyInv
<1> QED
  BY <1>1, KeyInvariant, PTL DEF Spec, StrandedForever

(* With donate_stream no payment id is stored, and the loop finds nothing. *)
DonateInv ==
    /\ \A o \in Orders : ~ orders[o].payId
    /\ \A s \in Sessions : sess[s].pc # "attach"
    /\ sess[Worker].pc \in {"idle", "sweep", "swept", "recheck"}
    /\ sess[Worker].pc = "recheck" => listed = NothingListed

(* Only attaching a payment writes the id. *)
LEMMA PayIdKept ==
    ASSUME NEW row \in OrderRow, NEW db \in OrderRow, NEW status, NEW k
    PROVE  /\ [row EXCEPT !.status = status].payId = row.payId
           /\ [row EXCEPT !.status = status, !.reserved = NoKey].payId = row.payId
           /\ [row EXCEPT !.issued = k, !.reserved = NoKey].payId = row.payId
           /\ [row EXCEPT !.issued = k, !.reserved = NoKey, !.status = status].payId = row.payId
           /\ [row EXCEPT !.deadline = "past"].payId = row.payId
           /\ AfterEvent(status, row).payId = row.payId
           /\ AfterReport(status, row).payId = row.payId
BY DEF OrderRow, AfterEvent, AfterReport, WithoutReservation

(* A flush that does not change it leaves it as it is. *)
LEMMA PayIdFlushed ==
    ASSUME NEW db, NEW row, NEW new, new.payId = row.payId
    PROVE  Flush(db, row, new).payId = db.payId
BY DEF Flush

(* Every step keeps it so. *)
LEMMA DonateStep ==
    ASSUME ConstantsAssumption, Provider = "donate_stream", TypeOK, DonateInv, [Next]_vars
    PROVE  DonateInv'
<1>1. /\ sess \in [Sessions -> SessionRow] /\ orders \in [Orders -> OrderRow]
      /\ listed \in [Orders -> OrderRow] /\ \A s \in Sessions : sess[s].mem \in OrderRow
      /\ Handlers \subseteq Sessions /\ Worker \in Sessions /\ Worker \notin Handlers
  BY DEF TypeOK, SessionRow, Sessions, ConstantsAssumption
<1>2. ASSUME NEW p, NEW row, orders' = [orders EXCEPT ![p] = row],
             p \in Orders => ~ row.payId
      PROVE  \A o \in Orders : ~ orders'[o].payId
  BY <1>1, <1>2 DEF DonateInv
<1>3. ASSUME NEW s \in Handlers, NEW l, sess' = [sess EXCEPT ![s] = l], l.pc # "attach",
             listed' = listed
      PROVE  /\ \A t \in Sessions : sess'[t].pc # "attach"
             /\ sess'[Worker].pc \in {"idle", "sweep", "swept", "recheck"}
             /\ sess'[Worker].pc = "recheck" => listed' = NothingListed
  BY <1>1, <1>3 DEF DonateInv
<1>4. ASSUME NEW s \in Handlers, NEW o \in Orders, CreateOrder(s, o) PROVE DonateInv'
  <2>1. PICK k \in OnShelf :
          LET row == [status |-> "created", reserved |-> k, issued |-> NoKey,
                      payId |-> FALSE, deadline |-> "set"]
          IN  /\ orders' = [orders EXCEPT ![o] = row]
              /\ sess' = IF Provider = "fake"
                         THEN [sess EXCEPT ![s] = At("attach", o, row)] ELSE sess
    BY <1>4 DEF CreateOrder
  <2>2. sess' = sess /\ listed' = listed
    BY <1>4, <2>1 DEF CreateOrder
  <2> DEFINE row == [status |-> "created", reserved |-> k, issued |-> NoKey,
                     payId |-> FALSE, deadline |-> "set"]
  <2>3. orders' = [orders EXCEPT ![o] = row] /\ ~ row.payId
    BY <2>1
  <2> HIDE DEF row
  <2>4. \A q \in Orders : ~ orders'[q].payId
    BY <1>2, <2>3
  <2> QED
    BY <2>2, <2>4 DEF DonateInv
<1>5. ASSUME NEW s \in Handlers, NEW o \in Orders, Confirm(s, o) PROVE DonateInv'
  <2> DEFINE row == [orders[o] EXCEPT !.status = "paid"]
  <2>1. /\ orders' = [orders EXCEPT ![o] = row] /\ listed' = listed
        /\ sess' = [sess EXCEPT ![s] = At("issue", o, row)]
    BY <1>5 DEF Confirm
  <2>2. row.payId = orders[o].payId /\ ~ orders[o].payId
    BY <1>1, PayIdKept DEF DonateInv
  <2> HIDE DEF row
  <2>3. \A q \in Orders : ~ orders'[q].payId
    BY <1>2, <2>1, <2>2
  <2>4. At("issue", o, row).pc # "attach"
    BY EmptyRows
  <2> QED
    BY <1>3, <2>1, <2>3, <2>4 DEF DonateInv
<1>6. ASSUME NEW s \in Handlers, NEW e \in Events, ReceiveEvent(s, e) PROVE DonateInv'
  <2> DEFINE l == [pc |-> "webhook", order |-> e.order, mem |-> orders[e.order], event |-> e]
  <2>1. sess' = [sess EXCEPT ![s] = l] /\ orders' = orders /\ listed' = listed
    BY <1>6 DEF ReceiveEvent
  <2>2. l.pc # "attach"
    OBVIOUS
  <2> HIDE DEF l
  <2> QED
    BY <1>3, <2>1, <2>2 DEF DonateInv
<1>7. ASSUME NEW o \in Orders, Cancel(o) \/ Refund(o) \/ ReplaceKey(o) \/ PassDeadline(o)
      PROVE  DonateInv'
  <2>1. sess' = sess /\ listed' = listed
    BY <1>7 DEF Cancel, Refund, ReplaceKey, PassDeadline
  <2>2. PICK row : orders' = [orders EXCEPT ![o] = row] /\ row.payId = orders[o].payId
    <3>1. CASE Cancel(o) \/ Refund(o)
      <4>1. PICK row : /\ orders' = [orders EXCEPT ![o] = row]
                       /\ \/ row = [orders[o] EXCEPT !.status = "canceled", !.reserved = NoKey]
                          \/ row = [orders[o] EXCEPT !.status = "refunded"]
        BY <3>1 DEF Cancel, Refund
      <4>2. row.payId = orders[o].payId
        <5>1. orders[o] \in OrderRow
          BY <1>1
        <5> QED
          BY <4>1, <5>1 DEF OrderRow
      <4> QED
        BY <4>1, <4>2
    <3>2. CASE ReplaceKey(o)
      <4>1. PICK k, row : /\ orders' = [orders EXCEPT ![o] = row]
                          /\ row = [orders[o] EXCEPT !.issued = k, !.reserved = NoKey]
        BY <3>2 DEF ReplaceKey
      <4>2. row.payId = orders[o].payId
        BY <1>1, <4>1, PayIdKept
      <4> QED
        BY <4>1, <4>2
    <3>3. CASE PassDeadline(o)
      <4>1. PICK row : /\ orders' = [orders EXCEPT ![o] = row]
                       /\ row = [orders[o] EXCEPT !.deadline = "past"]
        BY <3>3 DEF PassDeadline
      <4>2. row.payId = orders[o].payId
        BY <1>1, <4>1, PayIdKept
      <4> QED
        BY <4>1, <4>2
    <3> QED
      BY <1>7, <3>1, <3>2, <3>3
  <2>3. \A q \in Orders : ~ orders'[q].payId
    BY <1>2, <2>2 DEF DonateInv
  <2> QED
    BY <2>1, <2>3 DEF DonateInv
<1>8. ASSUME NEW s \in Sessions, Continue(s) PROVE DonateInv'
  <2> DEFINE o == sess[s].order
             row == sess[s].mem
  <2>1. s \in Handlers /\ ~ AttachPayment(s)
    BY <1>8 DEF DonateInv, Sessions, Continue, AttachPayment, IssueKey, MarkPaidButNotIssued,
                RefuseToIssue, ApplyEvent
  <2>2. CASE RefuseToIssue(s)
    <3>1. sess' = [sess EXCEPT ![s] = Idle] /\ orders' = orders /\ listed' = listed
      BY <1>1, <2>1, <2>2 DEF RefuseToIssue, Leave
    <3> QED
      BY <1>3, <2>1, <3>1, EmptyRows DEF DonateInv
  <2>3. CASE IssueKey(s) \/ MarkPaidButNotIssued(s) \/ ApplyEvent(s)
    <3>1. PICK new, l : /\ orders' = [orders EXCEPT ![o] = Flush(orders[o], row, new)]
                        /\ new.payId = row.payId
                        /\ sess' = [sess EXCEPT ![s] = l] /\ l.pc # "attach"
                        /\ listed' = listed
      <4>1. row \in OrderRow
        BY <1>1
      <4>2. CASE IssueKey(s)
        <5>1. PICK k : orders' = [orders EXCEPT ![o] = Flush(orders[o], row,
                          [row EXCEPT !.issued = k, !.reserved = NoKey, !.status = "issued"])]
          BY <4>2 DEF IssueKey
        <5>2. /\ sess' = [sess EXCEPT ![s] = AfterIssue(s)] /\ listed' = listed
              /\ AfterIssue(s).pc # "attach"
          BY <4>2, EmptyRows DEF IssueKey
        <5>3. PICK new : new = [row EXCEPT !.issued = k, !.reserved = NoKey, !.status = "issued"]
          OBVIOUS
        <5>4. new.payId = row.payId
          BY <4>1, <5>3, PayIdKept
        <5> QED
          BY <5>1, <5>2, <5>3, <5>4
      <4>3. CASE MarkPaidButNotIssued(s)
        <5>1. orders' = [orders EXCEPT ![o] = Flush(orders[o], row,
                          [row EXCEPT !.status = "paid_but_not_issued"])]
          BY <4>3 DEF MarkPaidButNotIssued
        <5>2. /\ sess' = [sess EXCEPT ![s] = AfterIssue(s)] /\ listed' = listed
              /\ AfterIssue(s).pc # "attach"
          BY <4>3, EmptyRows DEF MarkPaidButNotIssued
        <5>3. PICK new : new = [row EXCEPT !.status = "paid_but_not_issued"]
          OBVIOUS
        <5>4. new.payId = row.payId
          BY <4>1, <5>3, PayIdKept
        <5> QED
          BY <5>1, <5>2, <5>3, <5>4
      <4>4. CASE ApplyEvent(s)
        <5>1. PICK status : /\ status = sess[s].event.status
                            /\ orders' = [orders EXCEPT ![o] =
                                  Flush(orders[o], row, AfterEvent(status, row))]
                            /\ sess' = [sess EXCEPT ![s] =
                                  IF status = "succeeded"
                                  THEN At("issue", o, AfterEvent(status, row)) ELSE Idle]
                            /\ listed' = listed
          BY <4>4 DEF ApplyEvent
        <5>2. PICK new : new = AfterEvent(status, row) /\ new.payId = row.payId
          BY <4>1, PayIdKept
        <5>3. PICK l : /\ l = IF status = "succeeded" THEN At("issue", o, new) ELSE Idle
                       /\ l.pc # "attach"
          BY EmptyRows
        <5> QED
          BY <5>1, <5>2, <5>3
      <4> QED
        BY <2>3, <4>2, <4>3, <4>4
    <3>2. o \in Orders => ~ Flush(orders[o], row, new).payId
      BY <3>1, PayIdFlushed DEF DonateInv
    <3>3. \A q \in Orders : ~ orders'[q].payId
      BY <1>2, <3>1, <3>2
    <3> QED
      BY <1>3, <2>1, <3>1, <3>3 DEF DonateInv
  <2> QED
    BY <1>8, <2>1, <2>2, <2>3 DEF Continue
<1>9. ASSUME NEW s \in Sessions, Crash(s) PROVE DonateInv'
  <2>1. /\ sess' = [sess EXCEPT ![s] = Idle] /\ orders' = orders
        /\ listed' = listed \/ s = Worker
    BY <1>9 DEF Crash, Leave
  <2> QED
    BY <1>1, <2>1, EmptyRows DEF DonateInv
<1>10. ASSUME NEW phase \in {"sweep", "swept", "recheck"},
              sess' = [sess EXCEPT ![Worker] = At(phase, NoOrder, AbsentRow)],
              phase = "recheck" => listed' = NothingListed,
              \A o \in Orders : orders'[o].payId = orders[o].payId
       PROVE  DonateInv'
  BY <1>1, <1>10, EmptyRows DEF DonateInv
<1>11. CASE ListExpired
  <2>1. sess' = [sess EXCEPT ![Worker] = At("sweep", NoOrder, AbsentRow)] /\ orders' = orders
    BY <1>11 DEF ListExpired
  <2> QED
    BY <1>10, <2>1
<1>12. CASE ExpireReservations
  <2>1. sess' = [sess EXCEPT ![Worker] = At("swept", NoOrder, AbsentRow)]
    BY <1>12 DEF ExpireReservations
  <2>2. ASSUME NEW o \in Orders PROVE orders'[o].payId = orders[o].payId
    <3>1. PICK new : new = [listed[o] EXCEPT !.status = "expired_reservation", !.reserved = NoKey]
      OBVIOUS
    <3>2. new.payId = listed[o].payId
      BY <1>1, <3>1, PayIdKept
    <3>3. orders'[o] = orders[o] \/ orders'[o] = Flush(orders[o], listed[o], new)
      BY <1>12, <3>1 DEF ExpireReservations
    <3> QED
      BY <3>2, <3>3, PayIdFlushed
  <2> QED
    BY <1>10, <2>1, <2>2
<1>13. CASE ListStale
  <2>1. sess' = [sess EXCEPT ![Worker] = At("recheck", NoOrder, AbsentRow)] /\ orders' = orders
    BY <1>13 DEF ListStale
  <2>2. PICK old \in SUBSET {p \in Orders : orders[p].status = "pending_payment"} :
          listed' = [p \in Orders |->
                      IF /\ orders[p].payId
                         /\ p \in old \/ orders[p].status = "paid_but_not_issued"
                      THEN orders[p] ELSE AbsentRow]
    BY <1>13 DEF ListStale
  <2>3. listed' = NothingListed
    BY <2>2 DEF DonateInv, NothingListed
  <2> QED
    BY <1>10, <2>1, <2>3
<1>14. CASE \E o \in Orders : RecheckOrder(o)
  <2>1. PICK o \in Orders : sess[Worker].pc = "recheck" /\ listed[o].status # "absent"
    BY <1>14 DEF RecheckOrder
  <2> QED
    BY <2>1, EmptyRows DEF DonateInv
<1>15. CASE EndIteration
  BY <1>1, <1>15, EmptyRows DEF EndIteration, DonateInv
<1>16. CASE UNCHANGED vars
  BY <1>16 DEF vars, DonateInv
<1> QED
  BY <1>4, <1>5, <1>6, <1>7, <1>8, <1>9, <1>11, <1>12, <1>13, <1>14, <1>15, <1>16
     DEF Next, WorkerStep

(* With donate_stream reconciliation never takes up an order: a shortfall  *)
(* is left to the operator, however often the loop runs.                   *)
THEOREM DonateIsNeverReconciled == Spec => []DonateNeverReconciled
<1>1. Init => (Provider = "donate_stream" => DonateInv)
  <2> SUFFICES ASSUME Init PROVE DonateInv
    OBVIOUS
  <2> QED
    BY EmptyRows DEF Init, DonateInv, Sessions
<1>2. TypeOK /\ (Provider = "donate_stream" => DonateInv) /\ [Next]_vars
        => (Provider = "donate_stream" => DonateInv)'
  BY ConstantsAssumption, DonateStep
<1>3. (Provider = "donate_stream" => DonateInv) => DonateNeverReconciled
  BY DEF DonateInv, DonateNeverReconciled
<1> QED
  BY <1>1, <1>2, <1>3, TypeCorrect, PTL DEF Spec

(* While providers answer pending, the loop does not come to issue a key.  *)
LoopPhases == {"idle", "sweep", "swept", "recheck"}
LoopWaits == ReportedStatuses \subseteq {"pending"} => sess[Worker].pc \in LoopPhases

(* A step changes nothing of the loop's, or the loop does not write unless *)
(* it sweeps.                                                              *)
QuietLoop ==
    /\ sess'[Worker].pc \in LoopPhases
    /\ \/ sess'[Worker] = sess[Worker] /\ listed' = listed
       \/ sess[Worker].pc = "sweep"
       \/ UNCHANGED <<orders, keys, jobs, confirmed>>

(* That is every step there is, by its actor.                              *)
LEMMA PendingStep ==
    ASSUME ConstantsAssumption, ReportedStatuses \subseteq {"pending"}, TypeOK, LoopWaits,
           [Next]_vars
    PROVE  QuietLoop
<1>1. /\ sess \in [Sessions -> SessionRow] /\ orders \in [Orders -> OrderRow]
      /\ listed \in [Orders -> OrderRow]
      /\ Handlers \subseteq Sessions /\ Worker \in Sessions /\ Worker \notin Handlers
      /\ sess[Worker].pc \in LoopPhases
  BY DEF TypeOK, SessionRow, Sessions, ConstantsAssumption, LoopWaits
<1>2. ASSUME sess'[Worker] = sess[Worker], listed' = listed PROVE QuietLoop
  BY <1>1, <1>2 DEF QuietLoop
<1>3. ASSUME NEW s \in Handlers, NEW o \in Orders, CreateOrder(s, o) \/ Confirm(s, o)
      PROVE  QuietLoop
  BY <1>1, <1>2, <1>3 DEF CreateOrder, Confirm
<1>4. ASSUME NEW s \in Handlers, NEW e \in Events, ReceiveEvent(s, e) PROVE QuietLoop
  BY <1>1, <1>2, <1>4 DEF ReceiveEvent
<1>5. ASSUME NEW o \in Orders, Cancel(o) \/ Refund(o) \/ ReplaceKey(o) \/ PassDeadline(o)
      PROVE  QuietLoop
  BY <1>2, <1>5 DEF Cancel, Refund, ReplaceKey, PassDeadline
<1>6. ASSUME NEW s \in Sessions, Continue(s) PROVE QuietLoop
  <2>1. s # Worker
    BY <1>1, <1>6 DEF Continue, AttachPayment, IssueKey, MarkPaidButNotIssued, RefuseToIssue,
                      ApplyEvent, LoopPhases
  <2>2. sess'[Worker] = sess[Worker] /\ listed' = listed
    BY <1>1, <1>6, <2>1 DEF Continue, AttachPayment, IssueKey, MarkPaidButNotIssued,
                            RefuseToIssue, ApplyEvent, Leave
  <2> QED
    BY <1>2, <2>2
<1>7. ASSUME NEW s \in Sessions, Crash(s) PROVE QuietLoop
  <2>1. /\ sess' = [sess EXCEPT ![s] = Idle] /\ orders' = orders /\ keys' = keys
        /\ jobs' = jobs /\ confirmed' = confirmed
    BY <1>7 DEF Crash, Leave
  <2>2. sess'[Worker] = sess[Worker] \/ sess'[Worker] = Idle
    BY <1>1, <2>1
  <2> QED
    BY <1>1, <2>1, <2>2 DEF QuietLoop, Idle, LoopPhases
<1>8. ASSUME NEW phase \in LoopPhases,
             sess' = [sess EXCEPT ![Worker] = At(phase, NoOrder, AbsentRow)],
             \/ sess[Worker].pc = "sweep"
             \/ UNCHANGED <<orders, keys, jobs, confirmed>>
      PROVE  QuietLoop
  BY <1>1, <1>8 DEF QuietLoop, At
<1>9. CASE ListExpired \/ ExpireReservations \/ ListStale
  BY <1>8, <1>9 DEF ListExpired, ExpireReservations, ListStale, LoopPhases
<1>10. ASSUME NEW o \in Orders, RecheckOrder(o) PROVE QuietLoop
  <2>1. PICK status \in ReportedStatuses :
          LET row == listed[o]
              new == AfterReport(status, row)
          IN  /\ orders' = [orders EXCEPT ![o] = Flush(orders[o], row, new)]
              /\ keys' = KeysAfter(o, row, new)
              /\ confirmed' = IF status = "succeeded" THEN confirmed \cup {o} ELSE confirmed
              /\ sess' = IF status = "succeeded"
                         THEN [sess EXCEPT ![Worker] = At("issue", o, new)]
                         ELSE sess
    BY <1>10 DEF RecheckOrder
  <2>2. status = "pending" /\ AfterReport(status, listed[o]) = listed[o]
    BY DEF AfterReport
  <2>3. orders' = orders
    BY <1>1, <2>1, <2>2, FlushUnchanged
  <2>4. keys' = keys /\ confirmed' = confirmed /\ sess' = sess
    BY <2>1, <2>2 DEF KeysAfter
  <2> QED
    BY <1>1, <1>10, <2>3, <2>4 DEF RecheckOrder, QuietLoop
<1>11. CASE EndIteration
  BY <1>1, <1>11 DEF EndIteration, QuietLoop, Idle, LoopPhases
<1>12. CASE UNCHANGED vars
  BY <1>2, <1>12 DEF vars
<1> QED
  BY <1>3, <1>4, <1>5, <1>6, <1>7, <1>9, <1>10, <1>11, <1>12 DEF Next, WorkerStep

(* With providers that answer pending, as both in the repository do, the   *)
(* loop writes nothing but the expiries of its sweep, whatever it has      *)
(* listed and whoever changed it since: reconciliation harms no order and  *)
(* recovers none.                                                          *)
THEOREM PendingAnswersChangeNothing == Spec => PendingLeavesAlone
<1>1. Init => LoopWaits
  BY DEF Init, Idle, LoopWaits, LoopPhases, Sessions
<1>2. ASSUME TypeOK, LoopWaits, [Next]_vars
      PROVE  /\ LoopWaits'
             /\ [/\ ReportedStatuses \subseteq {"pending"}
                 /\ sess'[Worker] # sess[Worker] \/ listed' # listed
                 /\ sess[Worker].pc # "sweep"
                 => UNCHANGED <<orders, keys, jobs, confirmed>>]_vars
  BY <1>2, ConstantsAssumption, PendingStep DEF LoopWaits, QuietLoop
<1> QED
  BY <1>1, <1>2, TypeCorrect, PTL DEF Spec, PendingLeavesAlone

-----------------------------------------------------------------------------
(* When one order gets one key                                             *)

(* The live key of an order is the one its row shows, and whoever works on *)
(* an order that has one knows it, as long as orders are taken up one at a *)
(* time.                                                                   *)
Served == {"issued", "refunded"}

OneKey ==
    /\ \A j \in jobs : keys[j[2]].status = "issued" => orders[j[1]].issued = j[2]
    /\ \A o \in Orders : orders[o].issued # NoKey => orders[o].status \in Served
    /\ \A o \in Orders, s \in Sessions : sess[s].order = o /\ orders[o].issued # NoKey =>
         sess[s].mem.status \in Served /\ sess[s].pc # "attach"
    /\ \A o \in Orders : listed[o].status # "absent" => orders[o].issued = NoKey

(* A step that sells nothing leaves the keys that orders show alone. *)
LEMMA NothingSold ==
    ASSUME ConstantsAssumption, KeyInv, OneKey, KeyStep, jobs' = jobs
    PROVE  /\ \A o \in Orders : orders'[o].issued = orders[o].issued
           /\ \A j \in jobs' : keys'[j[2]].status = "issued" => orders'[j[1]].issued = j[2]
<1> USE KindsOfKeys
<1>1. /\ keys \in [Keys -> KeyRow] /\ NoKey \notin Keys /\ jobs \in SUBSET (Orders \X Keys)
      /\ \A j \in jobs : keys[j[2]].status \in {"issued", "broken"}
      /\ \A p \in Orders : orders[p].reserved # NoKey => keys[orders[p].reserved] = ReservedKey(p)
  BY DEF KeyInv, TypeOK, KeyOrderLink, SaleIsQueued, ConstantsAssumption
<1>2. ASSUME NEW o \in Orders, NEW k \in Keys, Sells(o, k) \/ Replaces(o, k) PROVE FALSE
  <2>1. jobs' = jobs \cup {<<o, k>>} /\ \A j \in jobs : j[2] # k
    BY <1>2, NewSale
  <2>2. <<o, k>> \in jobs
    BY <2>1
  <2>3. <<o, k>>[2] = k
    OBVIOUS
  <2> QED
    BY <2>1, <2>2, <2>3
<1>3. ASSUME NEW o \in Orders, NEW k \in Keys, Reserves(o, k)
      PROVE  /\ \A p \in Orders : orders'[p].issued = orders[p].issued
             /\ \A q \in Keys : keys'[q].status = "issued" => keys[q].status = "issued"
  <2>1. orders[o].issued = NoKey
    BY <1>3 DEF OneKey, Served, Reserves
  <2> QED
    BY <1>1, <1>3, <2>1 DEF Reserves, SameBut
<1>4. ASSUME NEW O \in SUBSET Orders, Releases(O)
      PROVE  /\ \A p \in Orders : orders'[p].issued = orders[p].issued
             /\ \A q \in Keys : keys'[q].status = "issued" => keys[q].status = "issued"
  BY <1>1, <1>4 DEF Releases, SameBut
<1>5. ASSUME Quiet
      PROVE  /\ \A p \in Orders : orders'[p].issued = orders[p].issued
             /\ \A q \in Keys : keys'[q].status = "issued" => keys[q].status = "issued"
  BY <1>5 DEF Quiet, SameBut
<1>6. /\ \A p \in Orders : orders'[p].issued = orders[p].issued
      /\ \A q \in Keys : keys'[q].status = "issued" => keys[q].status = "issued"
  BY <1>2, <1>3, <1>4, <1>5 DEF KeyStep
<1> QED
  BY <1>1, <1>6 DEF OneKey

(* Such a step also lets an order that has a key, and whoever works on it, *)
(* be.                                                                     *)
LeavesServed ==
    /\ jobs' = jobs
    /\ \A o \in Orders : orders[o].issued # NoKey =>
         orders'[o].status = orders[o].status \/ orders'[o].status \in Served
    /\ \A s \in Sessions, o \in Orders : sess'[s].order = o /\ orders[o].issued # NoKey =>
         sess'[s] = sess[s] \/ (sess'[s].mem.status \in Served /\ sess'[s].pc # "attach")
    /\ \A o \in Orders :
         listed'[o] = listed[o] \/ listed'[o].status = "absent" \/ orders[o].issued = NoKey

LEMMA OneKeyKept ==
    ASSUME ConstantsAssumption, KeyInv, OneKey, KeyStep, LeavesServed
    PROVE  OneKey'
<1>1. /\ \A o \in Orders : orders'[o].issued = orders[o].issued
      /\ \A j \in jobs' : keys'[j[2]].status = "issued" => orders'[j[1]].issued = j[2]
  BY NothingSold DEF LeavesServed
<1>2. \A o \in Orders : orders'[o].issued # NoKey => orders'[o].status \in Served
  BY <1>1 DEF OneKey, LeavesServed
<1>3. ASSUME NEW o \in Orders, NEW s \in Sessions, sess'[s].order = o, orders'[o].issued # NoKey
      PROVE  sess'[s].mem.status \in Served /\ sess'[s].pc # "attach"
  BY <1>1, <1>3 DEF OneKey, LeavesServed
<1>4. \A o \in Orders : listed'[o].status # "absent" => orders'[o].issued = NoKey
  BY <1>1 DEF OneKey, LeavesServed
<1> QED
  BY <1>1, <1>2, <1>3, <1>4 DEF OneKey

(* A step on one order that has no key does. *)
LEMMA WorkOnUnserved ==
    ASSUME ConstantsAssumption, NEW p \in Orders, orders[p].issued = NoKey, jobs' = jobs,
           \A q \in Orders \ {p} : orders'[q] = orders[q],
           \A t \in Sessions : sess'[t] = sess[t] \/ sess'[t].order \in {p, NoOrder},
           \A q \in Orders : listed'[q] = listed[q] \/ listed'[q].status = "absent"
    PROVE  LeavesServed
BY DEF LeavesServed, ConstantsAssumption

(* One that only lets go of orders does. *)
LEMMA LettingGo ==
    ASSUME ConstantsAssumption, jobs' = jobs,
           \A q \in Orders : orders'[q] = orders[q] \/ orders[q].issued = NoKey,
           \A t \in Sessions : sess'[t] = sess[t] \/ sess'[t].order = NoOrder,
           \A q \in Orders :
              listed'[q] = listed[q] \/ listed'[q].status = "absent" \/ orders[q].issued = NoKey
    PROVE  LeavesServed
BY DEF LeavesServed, ConstantsAssumption

(* A key that was not sold before is shown by the order it is sold to, and *)
(* it has no other.                                                        *)
LEMMA ShownWhenSold ==
    ASSUME KeyInv, OneKey, NEW o \in Orders, NEW k \in Keys,
           keys[k].status \notin {"issued", "broken"}, jobs' = jobs \cup {<<o, k>>},
           orders'[o].issued = k,
           \A p \in Orders \ {o} : orders'[p] = orders[p],
           \A q \in Keys \ {k} : keys'[q].status = "issued" =>
              keys[q].status = "issued" /\ q # orders[o].issued
    PROVE  \A j \in jobs' : keys'[j[2]].status = "issued" => orders'[j[1]].issued = j[2]
<1>1. jobs \in SUBSET (Orders \X Keys) /\ \A j \in jobs : keys[j[2]].status \in {"issued", "broken"}
  BY DEF KeyInv, TypeOK, SaleIsQueued
<1> SUFFICES ASSUME NEW j \in jobs, keys'[j[2]].status = "issued"
             PROVE  orders'[j[1]].issued = j[2]
  OBVIOUS
<1>2. j[2] \in Keys \ {k} /\ j[1] \in Orders
  BY <1>1
<1>3. orders[j[1]].issued = j[2] /\ j[2] # orders[o].issued
  BY <1>2 DEF OneKey
<1> QED
  BY <1>2, <1>3

(* A session issues a key. *)
LEMMA OneKeyIssued ==
    ASSUME ConstantsAssumption, KeyInv, OneKey, OneAtATime, NEW s \in Sessions, IssueKey(s)
    PROVE  OneKey'
<1> DEFINE o == sess[s].order
           row == sess[s].mem
<1>1. /\ o \in Orders /\ row \in OrderRow /\ orders \in [Orders -> OrderRow]
      /\ keys \in [Keys -> KeyRow] /\ sess \in [Sessions -> SessionRow]
      /\ row.issued # NoKey => keys[row.issued].status \in {"issued", "broken"}
      /\ orders[o].issued # NoKey => keys[orders[o].issued].status = "issued"
      /\ row.status \in Issuable
  BY DEF IssueKey, KeyInv, Remembered, FaithfulMemory, SaleIsQueued, TypeOK, SessionRow
<1>2. orders[o].issued = NoKey
  BY <1>1 DEF OneKey, Served, Issuable
<1>3. PICK k \in KeysToIssue(o, row) :
        /\ keys' = [keys EXCEPT ![k] = IssuedKey(BuyerOf[o])]
        /\ orders' = [orders EXCEPT ![o] = Flush(orders[o], row,
              [row EXCEPT !.issued = k, !.reserved = NoKey, !.status = "issued"])]
        /\ jobs' = jobs \cup {<<o, k>>}
        /\ sess' = [sess EXCEPT ![s] = AfterIssue(s)] /\ listed' = listed
  BY DEF IssueKey
<1>4. k \in Keys /\ keys[k].status \in {"available", "reserved"}
  BY <1>1, <1>3, KindsOfKeys DEF KeysToIssue, ReservedFor, OnShelf, OrderRow
<1>5. row.issued # k
  BY <1>1, <1>4, ConstantsAssumption DEF ConstantsAssumption
<1>6. orders'[o].issued = k /\ orders'[o].status = "issued"
  <2>1. PICK new : new = [row EXCEPT !.issued = k, !.reserved = NoKey, !.status = "issued"]
    OBVIOUS
  <2>2. new.issued = k /\ new.status = "issued"
    BY <1>1, <2>1 DEF OrderRow
  <2>3. row.status # "issued"
    BY <1>1 DEF Issuable
  <2>4. orders'[o] = Flush(orders[o], row, new)
    BY <1>1, <1>3, <2>1
  <2> QED
    BY <1>5, <2>2, <2>3, <2>4 DEF Flush
<1>7. \A p \in Orders \ {o} : orders'[p] = orders[p]
  BY <1>1, <1>3
<1> HIDE DEF o, row
<1>8. \A j \in jobs' : keys'[j[2]].status = "issued" => orders'[j[1]].issued = j[2]
  <2>1. \A q \in Keys \ {k} : keys'[q] = keys[q]
    BY <1>1, <1>3
  <2>2. \A q \in Keys : q # orders[o].issued
    BY <1>2 DEF ConstantsAssumption
  <2> QED
    BY <1>1, <1>3, <1>4, <1>6, <1>7, <2>1, <2>2, ShownWhenSold
<1>9. \A p \in Orders : orders'[p].issued # NoKey => orders'[p].status \in Served
  BY <1>6, <1>7 DEF OneKey, Served
<1>10. \A t \in Sessions : \/ t # s /\ sess'[t] = sess[t] /\ sess[t].order # o
                           \/ sess'[t].order = NoOrder
  <2>1. \A t \in Sessions : sess'[t] = IF t = s THEN AfterIssue(s) ELSE sess[t]
    BY <1>1, <1>3
  <2>2. \A t \in Sessions \ {s} : sess[t].order # o
    BY <1>1 DEF OneAtATime, o
  <2> QED
    BY <2>1, <2>2, EmptyRows
<1>11. \A p \in Orders, t \in Sessions : sess'[t].order = p /\ orders'[p].issued # NoKey =>
          sess'[t].mem.status \in Served /\ sess'[t].pc # "attach"
  BY <1>7, <1>10, ConstantsAssumption DEF OneKey, ConstantsAssumption
<1>12. \A p \in Orders : listed'[p].status # "absent" => orders'[p].issued = NoKey
  <2>1. listed[o].status = "absent"
    BY <1>1 DEF OneAtATime, o
  <2> QED
    BY <1>3, <1>7, <2>1 DEF OneKey
<1> QED
  BY <1>8, <1>9, <1>11, <1>12 DEF OneKey

(* An operator replaces one. *)
LEMMA OneKeyReplaced ==
    ASSUME ConstantsAssumption, KeyInv, OneKey, NEW o \in Orders, ReplaceKey(o)
    PROVE  OneKey'
<1>1. /\ orders \in [Orders -> OrderRow] /\ keys \in [Keys -> KeyRow]
      /\ orders[o].issued # NoKey /\ orders[o].issued \in Keys /\ orders[o].status = "issued"
      /\ keys[orders[o].issued].status = "issued"
  BY DEF ReplaceKey, KeyInv, TypeOK, OrderRow, SaleIsQueued
<1>2. PICK k \in OnShelf :
        /\ keys' = [keys EXCEPT ![k] = IssuedKey(BuyerOf[o]),
                                ![orders[o].issued] = [@ EXCEPT !.status = "broken"]]
        /\ orders' = [orders EXCEPT ![o] = [@ EXCEPT !.issued = k, !.reserved = NoKey]]
        /\ jobs' = jobs \cup {<<o, k>>}
        /\ sess' = sess /\ listed' = listed
  BY DEF ReplaceKey
<1>3. k \in Keys /\ keys[k].status = "available" /\ k # orders[o].issued
  BY <1>1, <1>2 DEF OnShelf
<1>4. /\ orders'[o].issued = k /\ orders'[o].status = "issued"
      /\ \A p \in Orders \ {o} : orders'[p] = orders[p]
  BY <1>1, <1>2 DEF OrderRow
<1>5. /\ keys'[orders[o].issued].status = "broken"
      /\ \A q \in Keys \ {k, orders[o].issued} : keys'[q] = keys[q]
  BY <1>1, <1>2, <1>3 DEF KeyRow
<1>6. \A j \in jobs' : keys'[j[2]].status = "issued" => orders'[j[1]].issued = j[2]
  <2>1. \A q \in Keys \ {k} : keys'[q].status = "issued" =>
          keys[q].status = "issued" /\ q # orders[o].issued
    BY <1>5
  <2>2. keys[k].status \notin {"issued", "broken"}
    BY <1>3
  <2> QED
    BY <1>2, <1>3, <1>4, <2>1, <2>2, ShownWhenSold
<1>7. \A p \in Orders : orders'[p].issued # NoKey => orders'[p].status \in Served
  BY <1>4 DEF OneKey, Served
<1>8. \A p \in Orders, t \in Sessions : sess'[t].order = p /\ orders'[p].issued # NoKey =>
          sess'[t].mem.status \in Served /\ sess'[t].pc # "attach"
  BY <1>1, <1>2, <1>4 DEF OneKey
<1>9. \A p \in Orders : listed'[p].status # "absent" => orders'[p].issued = NoKey
  BY <1>1, <1>2, <1>4 DEF OneKey
<1> QED
  BY <1>6, <1>7, <1>8, <1>9 DEF OneKey

(* Every step. *)
LEMMA OneKeyStep ==
    ASSUME ConstantsAssumption, KeyInv, OneKey, OneAtATime, [Next]_vars
    PROVE  OneKey'
<1>1. /\ sess \in [Sessions -> SessionRow] /\ orders \in [Orders -> OrderRow]
      /\ listed \in [Orders -> OrderRow]
      /\ Handlers \subseteq Sessions /\ Worker \in Sessions
      /\ \A s \in Sessions : sess[s].pc \in {"attach", "issue", "webhook"} =>
            sess[s].order \in Orders
      /\ \A o \in Orders : orders[o].status \notin Served => orders[o].issued = NoKey
  BY DEF KeyInv, TypeOK, SessionRow, Sessions, Remembered, OneKey
<1>2. KeyStep
  BY NextIsKeyStep
<1>3. ASSUME UNCHANGED vars PROVE LeavesServed
  BY <1>3 DEF vars, LeavesServed
<1>4. ASSUME NEW s \in Handlers, NEW p \in Orders, CreateOrder(s, p) \/ Confirm(s, p)
      PROVE  LeavesServed
  <2>1. orders[p].issued = NoKey
    BY <1>1, <1>4 DEF CreateOrder, Confirm, Served
  <2>2. PICK row, memory : /\ orders' = [orders EXCEPT ![p] = row] /\ listed' = listed
                           /\ sess' = [sess EXCEPT ![s] = memory] \/ sess' = sess
                           /\ memory.order = p /\ jobs' = jobs
    <3>1. CASE CreateOrder(s, p)
      <4>1. PICK k \in OnShelf :
              LET row == [status |-> "created", reserved |-> k, issued |-> NoKey,
                          payId |-> FALSE, deadline |-> "set"]
              IN  /\ orders' = [orders EXCEPT ![p] = row]
                  /\ sess' = IF Provider = "fake"
                             THEN [sess EXCEPT ![s] = At("attach", p, row)] ELSE sess
        BY <3>1 DEF CreateOrder
      <4> DEFINE row == [status |-> "created", reserved |-> k, issued |-> NoKey,
                         payId |-> FALSE, deadline |-> "set"]
      <4>2. /\ orders' = [orders EXCEPT ![p] = row]
            /\ sess' = [sess EXCEPT ![s] = At("attach", p, row)] \/ sess' = sess
        BY <4>1
      <4>3. listed' = listed /\ jobs' = jobs /\ At("attach", p, row).order = p
        BY <3>1, EmptyRows DEF CreateOrder
      <4> HIDE DEF row
      <4> QED
        BY <4>2, <4>3
    <3>2. CASE Confirm(s, p)
      <4> DEFINE row == [orders[p] EXCEPT !.status = "paid"]
      <4>1. /\ orders' = [orders EXCEPT ![p] = row] /\ jobs' = jobs
            /\ sess' = [sess EXCEPT ![s] = At("issue", p, row)] /\ listed' = listed
        BY <3>2 DEF Confirm
      <4>2. At("issue", p, row).order = p
        BY EmptyRows
      <4> HIDE DEF row
      <4> QED
        BY <4>1, <4>2
    <3> QED
      BY <1>4, <3>1, <3>2
  <2>3. /\ \A q \in Orders \ {p} : orders'[q] = orders[q]
        /\ \A t \in Sessions : sess'[t] = sess[t] \/ sess'[t].order \in {p, NoOrder}
    BY <1>1, <2>2
  <2> QED
    BY <2>1, <2>2, <2>3, WorkOnUnserved
<1>5. ASSUME NEW s \in Handlers, NEW e \in Events, ReceiveEvent(s, e) PROVE LeavesServed
  <2>1. PICK memory : /\ sess' = [sess EXCEPT ![s] = memory] /\ memory.pc = "webhook"
                      /\ memory.order = e.order /\ memory.mem = orders[e.order]
    <3> DEFINE memory == [pc |-> "webhook", order |-> e.order, mem |-> orders[e.order],
                          event |-> e]
    <3>1. sess' = [sess EXCEPT ![s] = memory]
      BY <1>5 DEF ReceiveEvent
    <3>2. memory.pc = "webhook" /\ memory.order = e.order /\ memory.mem = orders[e.order]
      OBVIOUS
    <3> HIDE DEF memory
    <3> QED
      BY <3>1, <3>2
  <2>2. orders' = orders /\ listed' = listed /\ jobs' = jobs
    BY <1>5 DEF ReceiveEvent
  <2>3. \A t \in Sessions : sess'[t] = sess[t] \/ sess'[t] = memory
    BY <1>1, <2>1
  <2> QED
    BY <1>1, <2>1, <2>2, <2>3 DEF LeavesServed
<1>6. ASSUME NEW p \in Orders, Cancel(p) \/ Refund(p) \/ PassDeadline(p) PROVE LeavesServed
  <2>1. listed' = listed /\ sess' = sess /\ jobs' = jobs
    BY <1>6 DEF Cancel, Refund, PassDeadline
  <2>2. \E row : orders' = [orders EXCEPT ![p] = row]
    BY <1>6 DEF Cancel, Refund, PassDeadline
  <2>3. \A q \in Orders \ {p} : orders'[q] = orders[q]
    BY <1>1, <2>2
  <2>4. orders[p].issued = NoKey \/ orders'[p].status \in Served
    <3>1. CASE Cancel(p) \/ PassDeadline(p)
      BY <1>1, <3>1 DEF Cancel, PassDeadline, Served, Unpaid
    <3>2. CASE Refund(p)
      <4>1. orders' = [orders EXCEPT ![p] = [orders[p] EXCEPT !.status = "refunded"]]
        BY <3>2 DEF Refund
      <4>2. orders'[p].status = "refunded"
        BY <1>1, <4>1 DEF OrderRow
      <4> QED
        BY <4>2 DEF Served
    <3> QED
      BY <1>6, <3>1, <3>2
  <2> QED
    BY <2>1, <2>3, <2>4 DEF LeavesServed
<1>7. ASSUME NEW s \in Sessions, Leave(s), orders' = orders, jobs' = jobs PROVE LeavesServed
  <2>1. /\ \A t \in Sessions : sess'[t] = sess[t] \/ sess'[t].order = NoOrder
        /\ \A q \in Orders : listed'[q] = listed[q] \/ listed'[q].status = "absent"
    BY <1>1, <1>7, EmptyRows DEF Leave
  <2> QED
    BY <1>7, <2>1, LettingGo
<1>8. ASSUME NEW s \in Sessions, AttachPayment(s) \/ MarkPaidButNotIssued(s) PROVE LeavesServed
  <2>1. sess[s].order \in Orders
    BY <1>1, <1>8 DEF AttachPayment, MarkPaidButNotIssued
  <2>2. orders[sess[s].order].issued = NoKey
    BY <1>8, <2>1 DEF OneKey, AttachPayment, MarkPaidButNotIssued, Served, Issuable
  <2>3. /\ \E row : orders' = [orders EXCEPT ![sess[s].order] = row]
        /\ listed' = listed /\ jobs' = jobs
        /\ sess' = [sess EXCEPT ![s] = Idle] \/ sess' = [sess EXCEPT ![s] = AfterIssue(s)]
    BY <1>8 DEF AttachPayment, MarkPaidButNotIssued
  <2>4. /\ \A q \in Orders \ {sess[s].order} : orders'[q] = orders[q]
        /\ \A t \in Sessions : sess'[t] = sess[t] \/ sess'[t].order = NoOrder
    BY <1>1, <2>3, EmptyRows
  <2> QED
    BY <2>1, <2>2, <2>3, <2>4, WorkOnUnserved
<1>9. ASSUME NEW s \in Sessions, ApplyEvent(s) PROVE LeavesServed
  <2>1. PICK p, row, new, memory :
            /\ p = sess[s].order /\ row = sess[s].mem
            /\ new = AfterEvent(sess[s].event.status, row)
            /\ orders' = [orders EXCEPT ![p] = Flush(orders[p], row, new)]
            /\ sess' = [sess EXCEPT ![s] = memory]
            /\ memory = At("issue", p, new) \/ memory = Idle
            /\ listed' = listed /\ jobs' = jobs
    BY <1>9 DEF ApplyEvent
  <2>2. p \in Orders /\ memory.order \in {p, NoOrder}
    BY <1>1, <1>9, <2>1, EmptyRows DEF ApplyEvent
  <2>3. /\ \A q \in Orders \ {p} : orders'[q] = orders[q]
        /\ \A t \in Sessions : sess'[t] = sess[t] \/ sess'[t] = memory
    BY <1>1, <2>1
  <2>4. CASE orders[p].issued = NoKey
    BY <2>1, <2>2, <2>3, <2>4, WorkOnUnserved
  <2>5. CASE orders[p].issued # NoKey
    <3>1. row.status \in Served
      BY <2>1, <2>2, <2>5 DEF OneKey
    <3>2. new = row
      BY <2>1, <3>1 DEF AfterEvent, Unpaid, Served
    <3>3. orders'[p] = orders[p]
      BY <1>1, <2>1, <2>2, <3>2, FlushUnchanged
    <3>4. memory.order = NoOrder \/ (memory.mem.status \in Served /\ memory.pc # "attach")
      BY <2>1, <3>1, <3>2, EmptyRows
    <3> QED
      BY <2>1, <2>3, <3>3, <3>4, ConstantsAssumption DEF LeavesServed, ConstantsAssumption
  <2> QED
    BY <2>4, <2>5
<1>10. ASSUME ListExpired \/ ExpireReservations \/ ListStale \/ EndIteration
       PROVE  LeavesServed
  <2>1. /\ \E phase : sess' = [sess EXCEPT ![Worker] = At(phase, NoOrder, AbsentRow)]
                       \/ sess' = [sess EXCEPT ![Worker] = Idle]
        /\ jobs' = jobs
    BY <1>10 DEF ListExpired, ExpireReservations, ListStale, EndIteration
  <2>2. \A t \in Sessions : sess'[t] = sess[t] \/ sess'[t].order = NoOrder
    BY <1>1, <2>1, EmptyRows
  <2>3. /\ \A q \in Orders : orders'[q] = orders[q] \/ orders[q].issued = NoKey
        /\ \A q \in Orders : \/ listed'[q] = listed[q] \/ listed'[q].status = "absent"
                              \/ orders[q].issued = NoKey
    <3>1. CASE ListExpired
      <4>1. \A q \in Orders : Expirable(orders[q]) => orders[q].issued = NoKey
        BY <1>1 DEF Expirable, Unpaid, Served
      <4> QED
        BY <3>1, <4>1, EmptyRows DEF ListExpired
    <3>2. CASE ExpireReservations
      <4>1. \A q \in Orders : Expirable(listed[q]) => orders[q].issued = NoKey
        BY DEF Expirable, Unpaid, OneKey
      <4>2. \A q \in Orders : orders'[q] = orders[q] \/ Expirable(listed[q])
        BY <3>2 DEF ExpireReservations
      <4>3. \A q \in Orders : listed'[q].status = "absent"
        BY <3>2, EmptyRows DEF ExpireReservations
      <4> QED
        BY <4>1, <4>2, <4>3
    <3>3. CASE ListStale
      <4>1. PICK old \in SUBSET {p \in Orders : orders[p].status = "pending_payment"} :
              listed' = [p \in Orders |->
                          IF /\ orders[p].payId
                             /\ p \in old \/ orders[p].status = "paid_but_not_issued"
                          THEN orders[p] ELSE AbsentRow]
        BY <3>3 DEF ListStale
      <4>2. ASSUME NEW q \in Orders
            PROVE  listed'[q].status = "absent" \/ orders[q].issued = NoKey
        <5>1. CASE orders[q].status \in {"pending_payment", "paid_but_not_issued"}
          BY <1>1, <5>1 DEF Served
        <5>2. CASE orders[q].status \notin {"pending_payment", "paid_but_not_issued"}
          BY <4>1, <5>2, EmptyRows
        <5> QED
          BY <5>1, <5>2
      <4> QED
        BY <3>3, <4>2 DEF ListStale
    <3>4. CASE EndIteration
      BY <3>4 DEF EndIteration
    <3> QED
      BY <1>10, <3>1, <3>2, <3>3, <3>4
  <2> QED
    BY <2>1, <2>2, <2>3, LettingGo
<1>11. ASSUME NEW p \in Orders, RecheckOrder(p) PROVE LeavesServed
  <2>1. orders[p].issued = NoKey
    BY <1>11 DEF RecheckOrder, OneKey
  <2>2. PICK new, row : /\ orders' = [orders EXCEPT ![p] = new]
                        /\ sess' = [sess EXCEPT ![Worker] = At("issue", p, row)] \/ sess' = sess
                        /\ listed' = [listed EXCEPT ![p] = AbsentRow] /\ jobs' = jobs
    BY <1>11 DEF RecheckOrder
  <2>3. /\ \A q \in Orders \ {p} : orders'[q] = orders[q]
        /\ \A t \in Sessions : sess'[t] = sess[t] \/ sess'[t].order \in {p, NoOrder}
        /\ \A q \in Orders : listed'[q] = listed[q] \/ listed'[q].status = "absent"
    BY <1>1, <2>2, EmptyRows
  <2> QED
    BY <2>1, <2>2, <2>3, WorkOnUnserved
<1>12. ASSUME NEW s \in Sessions, Continue(s) \/ Crash(s) PROVE LeavesServed \/ IssueKey(s)
  <2>1. CASE RefuseToIssue(s) \/ Crash(s)
    BY <1>7, <2>1 DEF RefuseToIssue, Crash
  <2> QED
    BY <1>8, <1>9, <1>12, <2>1 DEF Continue
<1>13. \/ LeavesServed
       \/ \E s \in Sessions : IssueKey(s)
       \/ \E o \in Orders : ReplaceKey(o)
  <2>1. CASE UNCHANGED vars
    BY <1>3, <2>1
  <2>2. CASE Next
    BY <1>4, <1>5, <1>6, <1>10, <1>11, <1>12, <2>2 DEF Next, WorkerStep
  <2> QED
    BY <2>1, <2>2
<1> QED
  BY <1>2, <1>13, OneKeyKept, OneKeyIssued, OneKeyReplaced

(* Nothing in the code keeps two sessions off one order, and finding 1 is  *)
(* what comes of it.  It is all that does: as long as orders are taken up  *)
(* one at a time, no order ever has two live keys (_finalize_order_issue,  *)
(* replace_access_for_issued_order, whichever events, sweeps, refunds,     *)
(* crashes and replacements there are).                                    *)
THEOREM OneKeyUnlessOverlap == Spec /\ []OneAtATime => []OneLiveKeyPerOrder
<1>1. Init => OneKey
  <2> SUFFICES ASSUME Init PROVE OneKey
    OBVIOUS
  <2>1. jobs = {} /\ \A o \in Orders : orders[o].issued = NoKey
    BY DEF Init, AbsentRow
  <2>2. \A o \in Orders : orders[o].issued # NoKey => orders[o].status \in Served
    BY <2>1
  <2>3. \A o \in Orders, s \in Sessions : sess[s].order = o /\ orders[o].issued # NoKey =>
          sess[s].mem.status \in Served /\ sess[s].pc # "attach"
    BY <2>1
  <2> QED
    BY <2>1, <2>2, <2>3 DEF OneKey
<1>2. KeyInv /\ OneKey /\ OneAtATime /\ [Next]_vars => OneKey'
  BY ConstantsAssumption, OneKeyStep
<1>3. KeyInv /\ OneKey => OneLiveKeyPerOrder
  <2> SUFFICES ASSUME KeyInv, OneKey, NEW j1 \in jobs, NEW j2 \in jobs, j1[1] = j2[1],
                      keys[j1[2]].status = "issued", keys[j2[2]].status = "issued"
               PROVE  j1 = j2
    BY DEF OneLiveKeyPerOrder
  <2>1. j1[2] = j2[2]
    BY DEF OneKey
  <2> QED
    BY <2>1 DEF KeyInv, SoldOnce
<1> QED
  BY <1>1, <1>2, <1>3, KeyInvariant, PTL DEF Spec

-----------------------------------------------------------------------------
(* When payments do not expire and only ready orders are issued            *)

(* What a step does to the statuses of orders, to who works on them and to *)
(* the list of the loop: a flush writes the status if it changed.          *)
Written(p, old, x) == orders'[p].status = IF x # old THEN x ELSE orders[p].status

Paid(status, unpaid) == IF status \in unpaid THEN "paid" ELSE status

Alone(p, s) ==
    /\ \A q \in Orders \ {p} : orders'[q].status = orders[q].status
    /\ \A t \in Sessions \ {s} : sess'[t] = sess[t]

Holds(s, phase, p, x) ==
    sess'[s].pc = phase /\ sess'[s].order = p /\ sess'[s].mem.status = x

LetsGo(s) == sess'[s].pc \in {"idle", "recheck"} /\ sess'[s].order = NoOrder

Created(s, p) ==
    /\ orders[p].status = "absent" /\ orders'[p].status = "created"
    /\ Holds(s, "attach", p, "created") \/ sess'[s] = sess[s]
    /\ confirmed' = confirmed /\ listed' = listed /\ Alone(p, s)

Confirmed(s, p) ==
    /\ orders[p].status # "absent" /\ orders'[p].status = "paid"
    /\ Holds(s, "issue", p, "paid")
    /\ confirmed' = confirmed \cup {p} /\ listed' = listed /\ Alone(p, s)

Received(s, p) ==
    /\ orders[p].status # "absent" /\ orders'[p].status = orders[p].status
    /\ Holds(s, "webhook", p, orders[p].status)
    /\ confirmed' = confirmed /\ listed' = listed /\ Alone(p, s)

Operated(p) ==
    /\ \/ orders'[p].status = orders[p].status
       \/ Cancel(p) /\ orders'[p].status = "canceled"
       \/ Refund(p) /\ orders'[p].status = "refunded"
    /\ \A q \in Orders \ {p} : orders'[q].status = orders[q].status
    /\ confirmed' = confirmed /\ listed' = listed /\ sess' = sess

Worked(s, p) ==
    /\ sess[s].order = p
    /\ \/ /\ sess[s].pc = "attach"
          /\ orders'[p].status \in {orders[p].status, "pending_payment"}
       \/ /\ sess[s].pc = "issue" /\ sess[s].mem.status \in Issuable
          /\ orders'[p].status \in {orders[p].status, "issued", "paid_but_not_issued"}
    /\ LetsGo(s)
    /\ confirmed' = confirmed /\ listed' = listed /\ Alone(p, s)

Applied(s, p) ==
    /\ sess[s].pc = "webhook" /\ sess[s].order = p
    /\ \/ /\ Written(p, sess[s].mem.status,
                     Paid(sess[s].mem.status, Unpaid \cup {"payment_failed"}))
          /\ Holds(s, "issue", p, Paid(sess[s].mem.status, Unpaid \cup {"payment_failed"}))
          /\ confirmed' = confirmed \cup {p}
       \/ /\ orders'[p].status \in {orders[p].status, "canceled", "payment_failed"}
          /\ LetsGo(s) /\ confirmed' = confirmed
    /\ listed' = listed /\ Alone(p, s)

Rechecked(p) ==
    /\ sess[Worker].pc = "recheck" /\ listed[p].status # "absent"
    /\ \/ /\ Written(p, listed[p].status, Paid(listed[p].status, {"pending_payment"}))
          /\ Holds(Worker, "issue", p, Paid(listed[p].status, {"pending_payment"}))
          /\ confirmed' = confirmed \cup {p}
       \/ /\ orders'[p].status \in {orders[p].status, "payment_failed"}
          /\ sess'[Worker] = sess[Worker] /\ confirmed' = confirmed
    /\ listed'[p].status = "absent" /\ Alone(p, Worker)
    /\ \A q \in Orders \ {p} : listed'[q] = listed[q]

(* The steps that take up no order: the loop lists some, expires the ones  *)
(* it listed, or a session ends.                                           *)
Waiting == {"pending_payment", "paid_but_not_issued"}

LoopListed(phase, statuses) ==
    /\ sess'[Worker].pc = phase
    /\ \A q \in Orders : orders'[q].status = orders[q].status
    /\ \A q \in Orders : \/ listed'[q].status = "absent"
                          \/ /\ listed'[q].status = orders[q].status
                             /\ orders[q].status \in statuses

Swept ==
    /\ sess[Worker].pc = "sweep" /\ sess'[Worker].pc = "swept"
    /\ \A q \in Orders : listed'[q].status = "absent"
    /\ \A q \in Orders :
         \/ orders'[q].status = orders[q].status
         \/ listed[q].status \in Unpaid /\ orders'[q].status = "expired_reservation"

Ended(s) ==
    /\ LetsGo(s)
    /\ \A q \in Orders : orders'[q].status = orders[q].status
    /\ \/ \A q \in Orders : listed'[q].status = "absent"
       \/ s # Worker /\ listed' = listed

AnySession(s) ==
    /\ sess'[s].order = NoOrder /\ confirmed' = confirmed
    /\ \A t \in Sessions \ {s} : sess'[t] = sess[t]

StatusStep ==
    \/ /\ confirmed' = confirmed /\ listed' = listed /\ sess' = sess
       /\ \A q \in Orders : orders'[q].status = orders[q].status
    \/ \E s \in Handlers, p \in Orders : Created(s, p) \/ Confirmed(s, p) \/ Received(s, p)
    \/ \E s \in Sessions, p \in Orders : Worked(s, p) \/ Applied(s, p)
    \/ \E p \in Orders : Operated(p) \/ Rechecked(p)
    \/ /\ AnySession(Worker)
       /\ LoopListed("sweep", Unpaid) \/ LoopListed("recheck", Waiting) \/ Swept
    \/ \E s \in Sessions : AnySession(s) /\ Ended(s)

(* What an event or a report makes of a status. *)
LEMMA StatusAfter ==
    ASSUME NEW row \in OrderRow, NEW status
    PROVE  /\ status = "succeeded" => AfterEvent(status, row).status =
                Paid(row.status, Unpaid \cup {"payment_failed"})
           /\ status # "succeeded" =>
                AfterEvent(status, row).status \in {row.status, "canceled", "payment_failed"}
           /\ status = "succeeded" => AfterReport(status, row).status =
                Paid(row.status, {"pending_payment"})
           /\ status # "succeeded" =>
                AfterReport(status, row).status \in {row.status, "payment_failed"}
<1>1. WithoutReservation(row) \in OrderRow
  BY DEF WithoutReservation, OrderRow
<1> QED
  BY <1>1 DEF AfterEvent, AfterReport, Paid, Unpaid, OrderRow

(* Every step is one of these. *)
LEMMA NextIsStatusStep ==
    ASSUME ConstantsAssumption, KeyInv, [Next]_vars
    PROVE  StatusStep
<1>1. /\ sess \in [Sessions -> SessionRow] /\ orders \in [Orders -> OrderRow]
      /\ listed \in [Orders -> OrderRow]
      /\ \A s \in Sessions : sess[s].mem \in OrderRow
      /\ Handlers \subseteq Sessions /\ Worker \in Sessions
      /\ \A s \in Sessions : sess[s].pc \in {"attach", "issue", "webhook"} =>
            sess[s].order \in Orders
      /\ \A e \in Events : e.order \in Orders
  BY DEF KeyInv, TypeOK, SessionRow, Sessions, Remembered, ConstantsAssumption
(* The two halves of Alone, and what a flush writes. *)
<1>2. ASSUME NEW p \in Orders, NEW row, orders' = [orders EXCEPT ![p] = row]
      PROVE  /\ orders'[p] = row
             /\ \A q \in Orders \ {p} : orders'[q].status = orders[q].status
  BY <1>1, <1>2
<1>3. ASSUME NEW s \in Sessions, NEW memory, sess' = [sess EXCEPT ![s] = memory]
      PROVE  sess'[s] = memory /\ \A t \in Sessions \ {s} : sess'[t] = sess[t]
  BY <1>1, <1>3
<1>4. \A p, db, old, new : orders'[p] = Flush(orders[p], old, new) =>
          Written(p, old.status, new.status)
  BY DEF Flush, Written
<1>5. ASSUME NEW s \in Handlers, NEW p \in Orders, CreateOrder(s, p) PROVE Created(s, p)
  <2>1. PICK k \in OnShelf :
          LET row == [status |-> "created", reserved |-> k, issued |-> NoKey,
                      payId |-> FALSE, deadline |-> "set"]
          IN  /\ orders' = [orders EXCEPT ![p] = row]
              /\ sess' = IF Provider = "fake"
                         THEN [sess EXCEPT ![s] = At("attach", p, row)] ELSE sess
    BY <1>5 DEF CreateOrder
  <2> DEFINE row == [status |-> "created", reserved |-> k, issued |-> NoKey,
                     payId |-> FALSE, deadline |-> "set"]
  <2>2. row.status = "created"
    OBVIOUS
  <2>3. /\ orders' = [orders EXCEPT ![p] = row]
        /\ sess' = [sess EXCEPT ![s] = At("attach", p, row)] \/ sess' = sess
    BY <2>1
  <2>4. orders[p].status = "absent" /\ confirmed' = confirmed /\ listed' = listed
    BY <1>5 DEF CreateOrder
  <2> HIDE DEF row
  <2>5. orders'[p].status = "created" /\ \A q \in Orders \ {p} : orders'[q].status = orders[q].status
    BY <1>2, <2>2, <2>3
  <2>6. /\ Holds(s, "attach", p, "created") \/ sess'[s] = sess[s]
        /\ \A t \in Sessions \ {s} : sess'[t] = sess[t]
    BY <1>1, <1>3, <2>2, <2>3, EmptyRows DEF Holds
  <2> QED
    BY <2>4, <2>5, <2>6 DEF Created, Alone
<1>6. ASSUME NEW s \in Handlers, NEW p \in Orders, Confirm(s, p) PROVE Confirmed(s, p)
  <2>1. PICK row : row = [orders[p] EXCEPT !.status = "paid"]
    OBVIOUS
  <2>2. /\ orders' = [orders EXCEPT ![p] = row] /\ confirmed' = confirmed \cup {p}
        /\ sess' = [sess EXCEPT ![s] = At("issue", p, row)] /\ listed' = listed
        /\ orders[p].status # "absent"
    BY <1>6, <2>1 DEF Confirm
  <2>3. row.status = "paid"
    BY <1>1, <2>1, UpdatedColumns
  <2>4. Holds(s, "issue", p, "paid") /\ \A t \in Sessions \ {s} : sess'[t] = sess[t]
    BY <1>1, <1>3, <2>2, <2>3, EmptyRows DEF Holds
  <2> QED
    BY <1>2, <2>2, <2>3, <2>4 DEF Confirmed, Alone
<1>7. ASSUME NEW s \in Handlers, NEW e \in Events, ReceiveEvent(s, e)
      PROVE  Received(s, e.order)
  <2>1. PICK memory : memory = [pc |-> "webhook", order |-> e.order, mem |-> orders[e.order],
                                event |-> e]
    OBVIOUS
  <2>2. /\ sess' = [sess EXCEPT ![s] = memory] /\ orders[e.order].status # "absent"
        /\ orders' = orders /\ confirmed' = confirmed /\ listed' = listed
    BY <1>7, <2>1 DEF ReceiveEvent
  <2>3. memory.pc = "webhook" /\ memory.order = e.order /\ memory.mem = orders[e.order]
    BY <2>1
  <2>4. /\ Holds(s, "webhook", e.order, orders[e.order].status)
        /\ \A t \in Sessions \ {s} : sess'[t] = sess[t]
    BY <1>1, <1>3, <2>2, <2>3 DEF Holds
  <2> QED
    BY <2>2, <2>4 DEF Received, Alone
<1>8. ASSUME NEW p \in Orders, Cancel(p) \/ Refund(p) \/ ReplaceKey(p) \/ PassDeadline(p)
      PROVE  Operated(p)
  <2>1. confirmed' = confirmed /\ listed' = listed /\ sess' = sess
    BY <1>8 DEF Cancel, Refund, ReplaceKey, PassDeadline
  <2>2. PICK row : /\ orders' = [orders EXCEPT ![p] = row]
                   /\ \/ row.status = orders[p].status
                      \/ Cancel(p) /\ row.status = "canceled"
                      \/ Refund(p) /\ row.status = "refunded"
    <3>1. CASE Cancel(p)
      <4>1. PICK row : row = [orders[p] EXCEPT !.status = "canceled", !.reserved = NoKey]
        OBVIOUS
      <4>2. orders' = [orders EXCEPT ![p] = row]
        BY <3>1, <4>1 DEF Cancel
      <4>3. row.status = "canceled"
        BY <1>1, <4>1, UpdatedColumns
      <4> QED
        BY <3>1, <4>2, <4>3
    <3>2. CASE Refund(p)
      <4>1. PICK row : row = [orders[p] EXCEPT !.status = "refunded"]
        OBVIOUS
      <4>2. orders' = [orders EXCEPT ![p] = row]
        BY <3>2, <4>1 DEF Refund
      <4>3. row.status = "refunded"
        BY <1>1, <4>1, UpdatedColumns
      <4> QED
        BY <3>2, <4>2, <4>3
    <3>3. CASE ReplaceKey(p)
      <4>1. PICK k \in OnShelf :
              orders' = [orders EXCEPT ![p] = [orders[p] EXCEPT !.issued = k, !.reserved = NoKey]]
        BY <3>3 DEF ReplaceKey
      <4>2. [orders[p] EXCEPT !.issued = k, !.reserved = NoKey].status = orders[p].status
        BY <1>1, UpdatedColumns
      <4> QED
        BY <4>1, <4>2
    <3>4. CASE PassDeadline(p)
      <4>1. orders' = [orders EXCEPT ![p] = [orders[p] EXCEPT !.deadline = "past"]]
        BY <3>4 DEF PassDeadline
      <4> QED
        BY <1>1, <4>1, UpdatedColumns
    <3> QED
      BY <1>8, <3>1, <3>2, <3>3, <3>4
  <2> QED
    BY <1>2, <2>1, <2>2 DEF Operated
<1>9. ASSUME NEW s \in Sessions, AttachPayment(s) \/ IssueKey(s) \/ MarkPaidButNotIssued(s)
      PROVE  Worked(s, sess[s].order)
  <2>1. sess[s].order \in Orders
    BY <1>1, <1>9 DEF AttachPayment, IssueKey, MarkPaidButNotIssued
  <2>2. confirmed' = confirmed /\ listed' = listed
    BY <1>9 DEF AttachPayment, IssueKey, MarkPaidButNotIssued
  <2>3. PICK new :
          /\ orders' = [orders EXCEPT ![sess[s].order] =
                          Flush(orders[sess[s].order], sess[s].mem, new)]
          /\ \/ sess[s].pc = "attach" /\ new.status = "pending_payment"
             \/ /\ sess[s].pc = "issue" /\ sess[s].mem.status \in Issuable
                /\ new.status \in {"issued", "paid_but_not_issued"}
    <3>1. CASE AttachPayment(s)
      <4>1. PICK new : new = [sess[s].mem EXCEPT !.payId = TRUE, !.status = "pending_payment"]
        OBVIOUS
      <4>2. new.status = "pending_payment"
        BY <1>1, <4>1 DEF OrderRow
      <4> QED
        BY <3>1, <4>1, <4>2 DEF AttachPayment
    <3>2. CASE IssueKey(s)
      <4>1. PICK k \in KeysToIssue(sess[s].order, sess[s].mem) :
              orders' = [orders EXCEPT ![sess[s].order] =
                          Flush(orders[sess[s].order], sess[s].mem,
                            [sess[s].mem EXCEPT !.issued = k, !.reserved = NoKey,
                                                !.status = "issued"])]
        BY <3>2 DEF IssueKey
      <4>2. [sess[s].mem EXCEPT !.issued = k, !.reserved = NoKey, !.status = "issued"].status
              = "issued"
        BY <1>1, UpdatedColumns
      <4> QED
        BY <3>2, <4>1, <4>2 DEF IssueKey
    <3>3. CASE MarkPaidButNotIssued(s)
      <4>1. PICK new : new = [sess[s].mem EXCEPT !.status = "paid_but_not_issued"]
        OBVIOUS
      <4>2. new.status = "paid_but_not_issued"
        BY <1>1, <4>1, UpdatedColumns
      <4> QED
        BY <3>3, <4>1, <4>2 DEF MarkPaidButNotIssued
    <3> QED
      BY <1>9, <3>1, <3>2, <3>3
  <2>4. orders'[sess[s].order].status \in {orders[sess[s].order].status, new.status}
    BY <1>2, <2>1, <2>3, FlushedStatus
  <2>5. LetsGo(s) /\ \A t \in Sessions \ {s} : sess'[t] = sess[t]
    <3>1. sess' = [sess EXCEPT ![s] = Idle] \/ sess' = [sess EXCEPT ![s] = AfterIssue(s)]
      BY <1>9 DEF AttachPayment, IssueKey, MarkPaidButNotIssued
    <3> QED
      BY <1>3, <3>1, EmptyRows DEF LetsGo
  <2>6. \A q \in Orders \ {sess[s].order} : orders'[q].status = orders[q].status
    BY <1>2, <2>1, <2>3
  <2> QED
    BY <2>2, <2>3, <2>4, <2>5, <2>6 DEF Worked, Alone
<1>10. ASSUME NEW s \in Sessions, ApplyEvent(s) PROVE Applied(s, sess[s].order)
  <2>1. PICK p, row, new, memory, status :
            /\ p = sess[s].order /\ row = sess[s].mem /\ status = sess[s].event.status
            /\ new = AfterEvent(status, row)
            /\ orders' = [orders EXCEPT ![p] = Flush(orders[p], row, new)]
            /\ sess' = [sess EXCEPT ![s] = memory]
            /\ memory = IF status = "succeeded" THEN At("issue", p, new) ELSE Idle
            /\ confirmed' = IF status = "succeeded" THEN confirmed \cup {p} ELSE confirmed
    BY <1>10 DEF ApplyEvent
  <2>2. p \in Orders /\ sess[s].pc = "webhook" /\ listed' = listed
    BY <1>1, <1>10, <2>1 DEF ApplyEvent
  <2>3. Written(p, row.status, new.status) /\ Alone(p, s)
    <3>1. /\ orders'[p] = Flush(orders[p], row, new)
          /\ \A q \in Orders \ {p} : orders'[q].status = orders[q].status
      BY <1>2, <2>1, <2>2
    <3>2. \A t \in Sessions \ {s} : sess'[t] = sess[t]
      BY <1>3, <2>1
    <3> QED
      BY <1>4, <3>1, <3>2 DEF Alone
  <2>4. CASE status = "succeeded"
    <3>1. new.status = Paid(row.status, Unpaid \cup {"payment_failed"})
      BY <1>1, <2>1, <2>4, StatusAfter
    <3>2. sess'[s] = At("issue", p, new) /\ confirmed' = confirmed \cup {p}
      BY <1>3, <2>1, <2>4
    <3>3. Holds(s, "issue", p, new.status)
      BY <3>2, EmptyRows DEF Holds
    <3> QED
      BY <2>1, <2>2, <2>3, <3>1, <3>2, <3>3 DEF Applied
  <2>5. CASE status # "succeeded"
    <3>1. /\ new.status \in {row.status, "canceled", "payment_failed"}
          /\ LetsGo(s) /\ confirmed' = confirmed
      BY <1>1, <1>3, <2>1, <2>5, EmptyRows, StatusAfter DEF LetsGo
    <3>2. orders'[p].status \in {orders[p].status, "canceled", "payment_failed"}
      BY <2>3, <3>1 DEF Written
    <3> QED
      BY <2>1, <2>2, <2>3, <3>1, <3>2 DEF Applied
  <2> QED
    BY <2>4, <2>5
<1>11. ASSUME NEW p \in Orders, RecheckOrder(p) PROVE Rechecked(p)
  <2>1. PICK status \in ReportedStatuses :
          LET row == listed[p]
              new == AfterReport(status, row)
          IN  /\ orders' = [orders EXCEPT ![p] = Flush(orders[p], row, new)]
              /\ confirmed' = IF status = "succeeded" THEN confirmed \cup {p} ELSE confirmed
              /\ sess' = IF status = "succeeded"
                         THEN [sess EXCEPT ![Worker] = At("issue", p, new)] ELSE sess
    BY <1>11 DEF RecheckOrder
  <2>2. PICK new : new = AfterReport(status, listed[p])
    OBVIOUS
  <2>3. /\ sess[Worker].pc = "recheck" /\ listed[p].status # "absent"
        /\ listed' = [listed EXCEPT ![p] = AbsentRow]
    BY <1>11 DEF RecheckOrder
  <2>4. /\ listed'[p].status = "absent"
        /\ \A q \in Orders \ {p} : listed'[q] = listed[q]
    BY <1>1, <2>3, EmptyRows
  <2>5. /\ Written(p, listed[p].status, new.status)
        /\ \A q \in Orders \ {p} : orders'[q].status = orders[q].status
    BY <1>2, <1>4, <2>1, <2>2
  <2>6. CASE status = "succeeded"
    <3>1. sess' = [sess EXCEPT ![Worker] = At("issue", p, new)] /\ confirmed' = confirmed \cup {p}
      BY <2>1, <2>2, <2>6
    <3>2. Holds(Worker, "issue", p, new.status) /\ \A t \in Sessions \ {Worker} : sess'[t] = sess[t]
      BY <1>1, <1>3, <3>1, EmptyRows DEF Holds
    <3>3. new.status = Paid(listed[p].status, {"pending_payment"})
      BY <1>1, <2>2, <2>6, StatusAfter
    <3> QED
      BY <2>3, <2>4, <2>5, <3>1, <3>2, <3>3 DEF Rechecked, Alone
  <2>7. CASE status # "succeeded"
    <3>1. new.status \in {listed[p].status, "payment_failed"}
      BY <1>1, <2>2, <2>7, StatusAfter
    <3>2. sess' = sess /\ confirmed' = confirmed
      BY <2>1, <2>7
    <3>3. orders'[p].status \in {orders[p].status, "payment_failed"}
      BY <2>5, <3>1 DEF Written
    <3> QED
      BY <2>3, <2>4, <2>5, <3>2, <3>3 DEF Rechecked, Alone
  <2> QED
    BY <2>6, <2>7
<1>12. ASSUME ListExpired
       PROVE  AnySession(Worker) /\ LoopListed("sweep", Unpaid)
  <2>1. AnySession(Worker) /\ sess'[Worker].pc = "sweep"
    BY <1>1, <1>12, EmptyRows DEF ListExpired, AnySession
  <2>2. orders' = orders
        /\ \A q \in Orders : listed'[q] = IF Expirable(orders[q]) THEN orders[q] ELSE AbsentRow
    BY <1>12 DEF ListExpired
  <2> QED
    BY <2>1, <2>2, EmptyRows DEF LoopListed, Expirable
<1>13. ASSUME ExpireReservations PROVE AnySession(Worker) /\ Swept
  <2>1. AnySession(Worker) /\ sess[Worker].pc = "sweep" /\ sess'[Worker].pc = "swept"
    <3>1. /\ sess' = [sess EXCEPT ![Worker] = At("swept", NoOrder, AbsentRow)]
          /\ sess[Worker].pc = "sweep" /\ confirmed' = confirmed
      BY <1>13 DEF ExpireReservations
    <3> QED
      BY <1>1, <1>3, <3>1, EmptyRows DEF AnySession
  <2>2. \A q \in Orders : listed'[q].status = "absent"
    BY <1>13, EmptyRows DEF ExpireReservations
  <2>3. ASSUME NEW q \in Orders
        PROVE  \/ orders'[q].status = orders[q].status
               \/ listed[q].status \in Unpaid /\ orders'[q].status = "expired_reservation"
    <3>1. PICK new : new = [listed[q] EXCEPT !.status = "expired_reservation", !.reserved = NoKey]
      OBVIOUS
    <3>2. new.status = "expired_reservation"
      BY <1>1, <3>1, UpdatedColumns
    <3>3. orders'[q] = IF Expirable(listed[q]) THEN Flush(orders[q], listed[q], new) ELSE orders[q]
      BY <1>13, <3>1 DEF ExpireReservations
    <3> QED
      BY <3>2, <3>3, FlushedStatus DEF Expirable
  <2> QED
    BY <2>1, <2>2, <2>3 DEF Swept
<1>14. ASSUME ListStale PROVE AnySession(Worker) /\ LoopListed("recheck", Waiting)
  <2>1. AnySession(Worker) /\ sess'[Worker].pc = "recheck" /\ orders' = orders
    BY <1>1, <1>14, EmptyRows DEF ListStale, AnySession
  <2>2. PICK old \in SUBSET {p \in Orders : orders[p].status = "pending_payment"} :
          listed' = [p \in Orders |->
                      IF /\ orders[p].payId
                         /\ p \in old \/ orders[p].status = "paid_but_not_issued"
                      THEN orders[p] ELSE AbsentRow]
    BY <1>14 DEF ListStale
  <2>3. ASSUME NEW q \in Orders
        PROVE  \/ listed'[q].status = "absent"
               \/ listed'[q] = orders[q] /\ orders[q].status \in Waiting
    BY <2>2, EmptyRows DEF Waiting
  <2> QED
    BY <2>1, <2>3 DEF LoopListed
<1>15. ASSUME EndIteration PROVE AnySession(Worker) /\ Ended(Worker)
  BY <1>1, <1>15, EmptyRows DEF EndIteration, AnySession, Ended, LetsGo
<1>16. ASSUME NEW s \in Sessions, RefuseToIssue(s) \/ Crash(s)
       PROVE  AnySession(s) /\ Ended(s)
  <2>1. Leave(s) /\ orders' = orders /\ confirmed' = confirmed
    BY <1>16 DEF RefuseToIssue, Crash
  <2> QED
    BY <1>1, <2>1, EmptyRows DEF Leave, AnySession, Ended, LetsGo
<1>17. CASE UNCHANGED vars
  BY <1>17 DEF vars, StatusStep
<1>18. ASSUME NEW s \in Sessions, Continue(s) \/ Crash(s) PROVE StatusStep
  <2>1. CASE AttachPayment(s) \/ IssueKey(s) \/ MarkPaidButNotIssued(s)
    <3>1. sess[s].order \in Orders
      BY <1>1, <2>1 DEF AttachPayment, IssueKey, MarkPaidButNotIssued
    <3> QED
      BY <1>9, <2>1, <3>1 DEF StatusStep
  <2>2. CASE ApplyEvent(s)
    <3>1. sess[s].order \in Orders
      BY <1>1, <2>2 DEF ApplyEvent
    <3> QED
      BY <1>10, <2>2, <3>1 DEF StatusStep
  <2>3. CASE RefuseToIssue(s) \/ Crash(s)
    BY <1>16, <2>3 DEF StatusStep
  <2> QED
    BY <1>18, <2>1, <2>2, <2>3 DEF Continue
<1>19. ASSUME WorkerStep PROVE StatusStep
  BY <1>1, <1>11, <1>12, <1>13, <1>14, <1>15, <1>19 DEF WorkerStep, StatusStep
<1>20. ASSUME NEW s \in Handlers, NEW p \in Orders, CreateOrder(s, p) \/ Confirm(s, p)
       PROVE  StatusStep
  BY <1>1, <1>5, <1>6, <1>20 DEF StatusStep
<1>21. ASSUME NEW s \in Handlers, NEW e \in Events, ReceiveEvent(s, e) PROVE StatusStep
  BY <1>1, <1>7, <1>21 DEF StatusStep
<1>22. ASSUME NEW p \in Orders, Cancel(p) \/ Refund(p) \/ ReplaceKey(p) \/ PassDeadline(p)
       PROVE  StatusStep
  BY <1>8, <1>22 DEF StatusStep
<1> QED
  BY <1>17, <1>18, <1>19, <1>20, <1>21, <1>22 DEF Next

(* An order whose payment was confirmed is not unpaid, nobody attaches a   *)
(* payment to it and the sweep has not listed it; and a row read before    *)
(* that says otherwise of no order.                                        *)
UnpaidRow(o) ==
    /\ o \in confirmed =>
         /\ orders[o].status \notin Unpaid \cup {"absent"}
         /\ sess[Worker].pc = "sweep" => listed[o].status = "absent"
    /\ \A s \in Sessions : sess[s].order = o =>
         /\ sess[s].pc = "attach" => o \notin confirmed
         /\ sess[s].pc = "webhook" /\ orders[o].status \in Unpaid => sess[s].mem.status \in Unpaid
    /\ listed[o].status # "absent" /\ orders[o].status \in Unpaid => listed[o].status \in Unpaid
    /\ sess[Worker].pc # "sweep" => listed[o].status # "created"

UnpaidRows == \A o \in Orders : UnpaidRow(o)

(* Every step keeps it, if orders are taken up one at a time. *)
LEMMA UnpaidStep ==
    ASSUME ConstantsAssumption, KeyInv, UnpaidRows, OneAtATime, OneAtATime', [Next]_vars
    PROVE  UnpaidRows'
<1>1. /\ Worker \in Sessions /\ Handlers \subseteq Sessions /\ Worker \notin Handlers
      /\ \A o \in Orders : orders[o].status = "absent" =>
            /\ listed[o].status = "absent" /\ o \notin confirmed
            /\ \A s \in Sessions : sess[s].order = o =>
                  sess[s].pc \notin {"attach", "issue", "webhook"}
      /\ NoOrder \notin Orders
  BY DEF KeyInv, Sessions, Remembered, FaithfulMemory, UnpaidRows, UnpaidRow, ConstantsAssumption
<1>2. StatusStep
  BY NextIsStatusStep
<1> SUFFICES ASSUME NEW o \in Orders PROVE UnpaidRow(o)'
  BY DEF UnpaidRows
<1>3. UnpaidRow(o)
  BY DEF UnpaidRows
<1>4. ASSUME NEW s \in Handlers, NEW p \in Orders, Created(s, p) PROVE UnpaidRow(o)'
  <2>1. CASE o = p
    BY <1>1, <1>3, <1>4, <2>1 DEF UnpaidRow, Created, Holds, Alone, Unpaid
  <2>2. CASE o # p
    BY <1>1, <1>3, <1>4, <2>2 DEF UnpaidRow, Created, Holds, Alone
  <2> QED
    BY <2>1, <2>2
<1>5. ASSUME NEW s \in Handlers, NEW p \in Orders, Confirmed(s, p) PROVE UnpaidRow(o)'
  <2>1. CASE o = p
    BY <1>1, <1>3, <1>5, <2>1 DEF UnpaidRow, Confirmed, Holds, Alone, Unpaid, OneAtATime
  <2>2. CASE o # p
    BY <1>1, <1>3, <1>5, <2>2 DEF UnpaidRow, Confirmed, Holds, Alone
  <2> QED
    BY <2>1, <2>2
<1>6. ASSUME NEW s \in Handlers, NEW p \in Orders, Received(s, p) PROVE UnpaidRow(o)'
  BY <1>1, <1>3, <1>6 DEF UnpaidRow, Received, Holds, Alone
<1>7. ASSUME NEW p \in Orders, Operated(p) PROVE UnpaidRow(o)'
  BY <1>3, <1>7 DEF UnpaidRow, Operated, Unpaid
<1>8. ASSUME NEW s \in Sessions, NEW p \in Orders, Worked(s, p) PROVE UnpaidRow(o)'
  <2>1. CASE o = p
    BY <1>1, <1>3, <1>8, <2>1
    DEF UnpaidRow, Worked, LetsGo, Written, Alone, Unpaid, Issuable, OneAtATime
  <2>2. CASE o # p
    BY <1>1, <1>3, <1>8, <2>2 DEF UnpaidRow, Worked, LetsGo, Alone
  <2> QED
    BY <2>1, <2>2
<1>9. ASSUME NEW s \in Sessions, NEW p \in Orders, Applied(s, p) PROVE UnpaidRow(o)'
  <2>1. /\ sess[s].pc = "webhook" /\ sess[s].order = p /\ listed' = listed
        /\ listed[p].status = "absent" /\ orders[p].status # "absent"
        /\ \A t \in Sessions \ {s} : sess'[t] = sess[t] /\ sess[t].order # p
        /\ \A q \in Orders \ {p} : orders'[q].status = orders[q].status
    BY <1>1, <1>9 DEF Applied, Alone, OneAtATime
  <2>2. sess'[s].pc \in {"issue", "idle", "recheck"} /\ sess'[s].order \in {p, NoOrder}
    BY <1>9 DEF Applied, Holds, LetsGo
  <2>3. sess'[Worker].pc = "sweep" <=> sess[Worker].pc = "sweep"
    BY <1>1, <2>1, <2>2
  <2>4. CASE o # p
    <3>1. o \in confirmed' <=> o \in confirmed
      BY <1>9, <2>4 DEF Applied
    <3> QED
      BY <1>1, <1>3, <2>1, <2>2, <2>3, <2>4, <3>1 DEF UnpaidRow
  <2>5. CASE o = p
    <3>1. o \in confirmed' => orders'[o].status \notin Unpaid \cup {"absent"}
      <4>1. /\ o \in confirmed => orders[o].status \notin Unpaid \cup {"absent"}
            /\ orders[o].status \in Unpaid => sess[s].mem.status \in Unpaid
        BY <1>3, <2>1, <2>5 DEF UnpaidRow
      <4>2. \/ /\ orders[o].status # "absent"
               /\ orders'[o].status = IF sess[s].mem.status \in Unpaid \cup {"payment_failed"}
                                      THEN "paid" ELSE orders[o].status
            \/ /\ confirmed' = confirmed
               /\ orders'[o].status \in {orders[o].status, "canceled", "payment_failed"}
        BY <1>9, <2>1, <2>5 DEF Applied, Written, Paid, Unpaid
      <4> QED
        BY <4>1, <4>2 DEF Unpaid
    <3>2. \A t \in Sessions : sess'[t].order = o => sess'[t].pc \notin {"attach", "webhook"}
      BY <2>1, <2>2, <2>5
    <3> QED
      BY <2>1, <2>5, <3>1, <3>2 DEF UnpaidRow
  <2> QED
    BY <2>4, <2>5
<1>10. ASSUME NEW p \in Orders, Rechecked(p) PROVE UnpaidRow(o)'
  <2>1. /\ sess[Worker].pc = "recheck" /\ listed[p].status # "absent" /\ listed'[p].status = "absent"
        /\ \A q \in Orders \ {p} : listed'[q] = listed[q]
        /\ orders[p].status # "absent" /\ \A t \in Sessions : sess[t].order # p
        /\ \A t \in Sessions \ {Worker} : sess'[t] = sess[t]
        /\ \A q \in Orders \ {p} : orders'[q].status = orders[q].status
    BY <1>1, <1>10 DEF Rechecked, Alone, OneAtATime
  <2>2. sess'[Worker] = sess[Worker] \/ (sess'[Worker].pc = "issue" /\ sess'[Worker].order = p)
    BY <1>10 DEF Rechecked, Holds
  <2>3. sess'[Worker].pc # "sweep" /\ listed[o].status # "created"
    BY <1>3, <2>1, <2>2 DEF UnpaidRow
  <2>4. CASE o # p
    <3>1. o \in confirmed' <=> o \in confirmed
      BY <1>10, <2>4 DEF Rechecked
    <3> QED
      BY <1>1, <1>3, <2>1, <2>2, <2>3, <2>4, <3>1 DEF UnpaidRow
  <2>5. CASE o = p
    <3>1. o \in confirmed' => orders'[o].status \notin Unpaid \cup {"absent"}
      <4>1. /\ o \in confirmed => orders[o].status \notin Unpaid \cup {"absent"}
            /\ orders[o].status \in Unpaid => listed[o].status = "pending_payment"
        BY <1>3, <2>1, <2>3, <2>5 DEF UnpaidRow, Unpaid
      <4>2. \/ orders'[o].status = IF listed[o].status = "pending_payment"
                                   THEN "paid" ELSE orders[o].status
            \/ /\ confirmed' = confirmed
               /\ orders'[o].status \in {orders[o].status, "payment_failed"}
        BY <1>10, <2>5 DEF Rechecked, Written, Paid
      <4> QED
        BY <2>1, <2>5, <4>1, <4>2 DEF Unpaid
    <3>2. \A t \in Sessions : sess'[t].order = o => sess'[t].pc \notin {"attach", "webhook"}
      BY <2>1, <2>2, <2>5
    <3> QED
      BY <2>1, <2>3, <2>5, <3>1, <3>2 DEF UnpaidRow
  <2> QED
    BY <2>4, <2>5
<1>11. ASSUME AnySession(Worker),
              LoopListed("sweep", Unpaid) \/ LoopListed("recheck", Waiting) \/ Swept
       PROVE  UnpaidRow(o)'
  BY <1>1, <1>3, <1>11 DEF UnpaidRow, AnySession, LoopListed, Swept, Unpaid, Waiting
<1>12. ASSUME NEW s \in Sessions, AnySession(s), Ended(s) PROVE UnpaidRow(o)'
  BY <1>1, <1>3, <1>12 DEF UnpaidRow, AnySession, Ended, LetsGo
<1>13. ASSUME confirmed' = confirmed, listed' = listed, sess' = sess,
              \A q \in Orders : orders'[q].status = orders[q].status
       PROVE  UnpaidRow(o)'
  BY <1>3, <1>13 DEF UnpaidRow
<1> QED
  BY <1>2, <1>4, <1>5, <1>6, <1>7, <1>8, <1>9, <1>10, <1>11, <1>12, <1>13 DEF StatusStep

(* Only the sweep writes that an order expired, and only an issue that it  *)
(* is issued: an event changes an issued row in no way.                    *)
LEMMA WhoWrites ==
    ASSUME NEW o \in Orders, StatusStep, orders'[o].status # orders[o].status
    PROVE  /\ orders'[o].status = "issued" =>
                \E s \in Sessions : /\ sess[s].order = o /\ sess[s].pc = "issue"
                                    /\ sess[s].mem.status \in Issuable
           /\ orders'[o].status = "expired_reservation" =>
                sess[Worker].pc = "sweep" /\ listed[o].status \in Unpaid
<1>1. ASSUME NEW s \in Handlers, NEW p \in Orders, Created(s, p) \/ Confirmed(s, p) \/ Received(s, p)
      PROVE  orders'[o].status \in {orders[o].status, "created", "paid"}
  BY <1>1 DEF Created, Confirmed, Received, Alone
<1>2. ASSUME NEW s \in Sessions, NEW p \in Orders, Worked(s, p)
      PROVE  \/ orders'[o].status \in {orders[o].status, "pending_payment", "paid_but_not_issued"}
             \/ /\ p = o /\ sess[s].order = p /\ sess[s].pc = "issue"
                /\ sess[s].mem.status \in Issuable /\ orders'[o].status = "issued"
  BY <1>2 DEF Worked, Alone, Written
<1>3. ASSUME NEW s \in Sessions, NEW p \in Orders, Applied(s, p)
      PROVE  orders'[o].status \in {orders[o].status, "paid", "canceled", "payment_failed"}
  BY <1>3 DEF Applied, Alone, Written, Paid
<1>4. ASSUME NEW p \in Orders, Operated(p) \/ Rechecked(p)
      PROVE  orders'[o].status \in {orders[o].status, "paid", "canceled", "refunded", "payment_failed"}
  BY <1>4 DEF Operated, Rechecked, Alone, Written, Paid
<1>5. ASSUME LoopListed("sweep", Unpaid) \/ LoopListed("recheck", Waiting) \/ Swept
      PROVE  \/ orders'[o].status = orders[o].status
             \/ /\ orders'[o].status = "expired_reservation"
                /\ sess[Worker].pc = "sweep" /\ listed[o].status \in Unpaid
  BY <1>5 DEF LoopListed, Swept
<1>6. ASSUME NEW s \in Sessions, Ended(s) PROVE orders'[o].status = orders[o].status
  BY <1>6 DEF Ended
<1> QED
  BY <1>1, <1>2, <1>3, <1>4, <1>5, <1>6 DEF StatusStep

(* Finding 3 also takes an overlap: as long as orders are taken up one at  *)
(* a time, an order whose payment was confirmed does not expire            *)
(* (cleanup_expired_reservations), although the sweep lists first and      *)
(* writes later and events come in any order.                              *)
THEOREM NoExpiryUnlessOverlap == Spec /\ []OneAtATime => ExpiresOnlyUnconfirmed
<1>1. Init => UnpaidRows
  <2> SUFFICES ASSUME Init, NEW o \in Orders PROVE UnpaidRow(o)
    BY DEF UnpaidRows
  <2>1. /\ confirmed = {} /\ listed[o].status = "absent"
        /\ \A s \in Sessions : sess[s].pc = "idle"
    BY EmptyRows DEF Init
  <2> QED
    BY <2>1 DEF UnpaidRow
<1>2. KeyInv /\ UnpaidRows /\ OneAtATime /\ OneAtATime' /\ [Next]_vars => UnpaidRows'
  BY ConstantsAssumption, UnpaidStep
<1>3. ASSUME KeyInv, UnpaidRows, [Next]_vars
      PROVE  [\A o \in Orders :
                 (orders[o].status # "expired_reservation" /\ orders'[o].status = "expired_reservation")
                     => o \notin confirmed]_vars
  <2> SUFFICES ASSUME NEW o \in Orders, orders[o].status # "expired_reservation",
                      orders'[o].status = "expired_reservation"
               PROVE  o \notin confirmed
    OBVIOUS
  <2>1. sess[Worker].pc = "sweep" /\ listed[o].status \in Unpaid
    BY <1>3, ConstantsAssumption, NextIsStatusStep, WhoWrites
  <2> QED
    BY <1>3, <2>1 DEF UnpaidRows, UnpaidRow, Unpaid
<1> QED
  BY <1>1, <1>2, <1>3, KeyInvariant, PTL DEF Spec, ExpiresOnlyUnconfirmed

(* What a session remembers of a status is what the database says.         *)
ExactRow(o) ==
    /\ \A s \in Sessions : sess[s].order = o /\ sess[s].pc \in Recalling =>
         sess[s].mem.status = orders[o].status
    /\ listed[o].status # "absent" => listed[o].status = orders[o].status

ExactRows == \A o \in Orders : ExactRow(o)

OperatorsWaited ==
    \A o \in Orders : Cancel(o) \/ Refund(o) =>
        listed[o].status = "absent" /\ \A s \in Sessions : sess[s].order # o

(* It stays so, if operators wait as well. *)
LEMMA ExactStep ==
    ASSUME ConstantsAssumption, KeyInv, ExactRows, OneAtATime, OneAtATime', OperatorsWaited,
           [Next]_vars
    PROVE  ExactRows'
<1>1. /\ Worker \in Sessions /\ Handlers \subseteq Sessions
      /\ \A o \in Orders : orders[o].status = "absent" =>
            /\ listed[o].status = "absent"
            /\ \A s \in Sessions : sess[s].order = o => sess[s].pc \notin Recalling
      /\ NoOrder \notin Orders
  BY DEF KeyInv, Sessions, Remembered, Recalling, FaithfulMemory, ConstantsAssumption
<1>2. StatusStep
  BY NextIsStatusStep
<1> SUFFICES ASSUME NEW o \in Orders PROVE ExactRow(o)'
  BY DEF ExactRows
<1>3. ExactRow(o)
  BY DEF ExactRows
<1>4. ASSUME NEW s \in Handlers, NEW p \in Orders, Created(s, p) PROVE ExactRow(o)'
  <2>1. CASE o = p
    BY <1>1, <1>3, <1>4, <2>1 DEF ExactRow, Created, Holds, Alone
  <2>2. CASE o # p
    BY <1>1, <1>3, <1>4, <2>2 DEF ExactRow, Created, Holds, Alone
  <2> QED
    BY <2>1, <2>2
<1>5. ASSUME NEW s \in Handlers, NEW p \in Orders, Confirmed(s, p) \/ Received(s, p)
      PROVE  ExactRow(o)'
  <2>1. CASE o = p
    BY <1>1, <1>3, <1>5, <2>1 DEF ExactRow, Confirmed, Received, Holds, Alone, OneAtATime
  <2>2. CASE o # p
    BY <1>1, <1>3, <1>5, <2>2 DEF ExactRow, Confirmed, Received, Holds, Alone
  <2> QED
    BY <2>1, <2>2
<1>6. ASSUME NEW p \in Orders, Operated(p) PROVE ExactRow(o)'
  BY <1>3, <1>6 DEF ExactRow, Operated, OperatorsWaited
<1>7. ASSUME NEW s \in Sessions, NEW p \in Orders, Worked(s, p) PROVE ExactRow(o)'
  BY <1>1, <1>3, <1>7 DEF Recalling, ExactRow, Worked, LetsGo, Alone, OneAtATime
<1>8. ASSUME NEW s \in Sessions, NEW p \in Orders, Applied(s, p) PROVE ExactRow(o)'
  <2>1. CASE o = p
    BY <1>1, <1>3, <1>8, <2>1
    DEF ExactRow, Applied, LetsGo, Holds, Written, Alone, OneAtATime, Recalling
  <2>2. CASE o # p
    BY <1>1, <1>3, <1>8, <2>2 DEF ExactRow, Applied, LetsGo, Holds, Alone
  <2> QED
    BY <2>1, <2>2
<1>9. ASSUME NEW p \in Orders, Rechecked(p) PROVE ExactRow(o)'
  <2>1. CASE o = p
    BY <1>1, <1>3, <1>9, <2>1 DEF ExactRow, Rechecked, Holds, Written, Alone, OneAtATime
  <2>2. CASE o # p
    BY <1>1, <1>3, <1>9, <2>2 DEF ExactRow, Rechecked, Holds, Alone
  <2> QED
    BY <2>1, <2>2
<1>10. ASSUME AnySession(Worker),
              LoopListed("sweep", Unpaid) \/ LoopListed("recheck", Waiting) \/ Swept
       PROVE  ExactRow(o)'
  BY <1>1, <1>3, <1>10 DEF ExactRow, AnySession, LoopListed, Swept, Unpaid, OneAtATime
<1>11. ASSUME NEW s \in Sessions, AnySession(s), Ended(s) PROVE ExactRow(o)'
  BY <1>1, <1>3, <1>11 DEF ExactRow, AnySession, Ended
<1>12. ASSUME confirmed' = confirmed, listed' = listed, sess' = sess,
              \A q \in Orders : orders'[q].status = orders[q].status
       PROVE  ExactRow(o)'
  BY <1>3, <1>12 DEF ExactRow
<1> QED
  BY <1>2, <1>4, <1>5, <1>6, <1>7, <1>8, <1>9, <1>10, <1>11, <1>12 DEF StatusStep

(* Finding 4 takes an overlap too, of sessions or of a session and an      *)
(* operator: when neither happens, an issue replaces only the status paid  *)
(* or paid_but_not_issued, as issue_key_for_paid_order tests on the row it *)
(* holds.                                                                  *)
THEOREM ReadyUnlessOverlap ==
    Spec /\ []OneAtATime /\ OperatorsWait => IssuesOnlyReadyOrders
<1>1. Init => ExactRows
  <2> SUFFICES ASSUME Init, NEW o \in Orders PROVE ExactRow(o)
    BY DEF ExactRows
  <2>1. /\ listed[o].status = "absent" /\ \A s \in Sessions : sess[s].order = NoOrder
    BY EmptyRows DEF Init
  <2> QED
    BY <2>1, ConstantsAssumption DEF ExactRow, ConstantsAssumption
<1>2. /\ KeyInv /\ ExactRows /\ OneAtATime /\ OneAtATime' /\ [Next]_vars /\ [OperatorsWaited]_vars
         => ExactRows'
  <2> SUFFICES ASSUME KeyInv, ExactRows, OneAtATime, OneAtATime', [Next]_vars, [OperatorsWaited]_vars
               PROVE  ExactRows'
    OBVIOUS
  <2>1. CASE UNCHANGED vars
    BY <2>1 DEF vars, ExactRows, ExactRow
  <2>2. CASE OperatorsWaited
    BY <2>2, ConstantsAssumption, ExactStep
  <2> QED
    BY <2>1, <2>2
<1>3. ASSUME KeyInv, ExactRows, [Next]_vars
      PROVE  [\A o \in Orders :
                 (orders[o].status # "issued" /\ orders'[o].status = "issued")
                     => orders[o].status \in Issuable]_vars
  <2> SUFFICES ASSUME NEW o \in Orders, orders[o].status # "issued", orders'[o].status = "issued"
               PROVE  orders[o].status \in Issuable
    OBVIOUS
  <2>1. PICK s \in Sessions : /\ sess[s].order = o /\ sess[s].pc = "issue"
                             /\ sess[s].mem.status \in Issuable
    BY <1>3, ConstantsAssumption, NextIsStatusStep, WhoWrites
  <2> QED
    BY <1>3, <2>1 DEF ExactRows, ExactRow, Recalling
<1>4. OperatorsWait => [][OperatorsWaited]_vars
  BY PTL DEF OperatorsWait, OperatorsWaited
<1> QED
  BY <1>1, <1>2, <1>3, <1>4, KeyInvariant, PTL DEF Spec, IssuesOnlyReadyOrders

=============================================================================
