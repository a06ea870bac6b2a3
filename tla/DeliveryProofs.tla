--------------------------- MODULE DeliveryProofs ---------------------------
(* Proofs about Delivery, for every value of its constants: any number of  *)
(* orders, jobs and sessions, any limits, and every fault.                 *)
EXTENDS Delivery, FiniteSetTheorems, TLAPS

(***************************************************************************)
(* Types                                                                   *)
(***************************************************************************)

(* The values a session and a job start with have the right types.         *)
LEMMA IdleType == Idle \in WorkRow /\ AbsentJob \in JobRow
BY DeliveryAssumption DEF Idle, NothingHeld, HeldRow, Phase, WorkRow, AbsentJob, JobRow

(* The object of an order that a session holds has the columns' types.     *)
LEMMA HeldType ==
    ASSUME TypeOK, NEW s \in Sessions, NEW o \in Orders
    PROVE  Held(s, o) \in HeldRow
BY DEF TypeOK, Held, HeldRow, OrderRow, WorkRow

(* Assigning a delivery_status keeps the types of the order's columns.     *)
LEMMA ShownType ==
    ASSUME TypeOK, NEW s \in Sessions, NEW o \in Orders, NEW status \in DeliveryJobStatus
    PROVE  Shown(s, o, status) \in OrderRow
BY DEF TypeOK, Shown, OrderRow, DeliveryJobStatus

(* What a failed attempt changes of a job, column by column.               *)
LEMMA AfterFailureColumns ==
    ASSUME NEW job \in JobRow, NEW permanent \in BOOLEAN
    PROVE  LET after == AfterFailure(job, permanent)
           IN  /\ after.order = job.order /\ after.key = job.key
               /\ after.attempts = job.attempts + 1
               /\ \/ after.status = "failed"
                  \/ after.status = "retry" /\ after.attempts < MaxAttempts
<1> DEFINE given == [job EXCEPT !.status = "failed", !.attempts = @ + 1]
           again == [job EXCEPT !.status = "retry", !.attempts = @ + 1, !.due = FALSE]
<1>1. job.attempts \in Nat
  BY DEF JobRow
<1>2. /\ given.status = "failed" /\ given.order = job.order /\ given.key = job.key
      /\ given.attempts = job.attempts + 1
  BY DEF JobRow
<1>3. /\ again.status = "retry" /\ again.order = job.order /\ again.key = job.key
      /\ again.attempts = job.attempts + 1
  BY DEF JobRow
<1>4. AfterFailure(job, permanent) = IF permanent \/ job.attempts + 1 >= MaxAttempts
                                     THEN given ELSE again
  BY DEF AfterFailure
<1> HIDE DEF given, again
<1>5. ~ (permanent \/ job.attempts + 1 >= MaxAttempts) => job.attempts + 1 < MaxAttempts
  BY <1>1, DeliveryAssumption
<1>6. CASE permanent \/ job.attempts + 1 >= MaxAttempts
  BY <1>2, <1>4, <1>6
<1>7. CASE ~ (permanent \/ job.attempts + 1 >= MaxAttempts)
  BY <1>3, <1>4, <1>5, <1>7
<1> QED
  BY <1>6, <1>7

(* Assigning the local variables of a session, as its steps do.            *)
LEMMA PhaseUpdate ==
    ASSUME NEW row \in WorkRow, NEW pc \in Phase
    PROVE  [row EXCEPT !.pc = pc] \in WorkRow
BY DEF WorkRow

(* A session that claimed its batch.                                       *)
LEMMA ClaimUpdate ==
    ASSUME NEW row \in WorkRow, NEW batch \in SUBSET Jobs
    PROVE  [row EXCEPT !.pc = "next", !.batch = batch] \in WorkRow
BY DEF WorkRow, Phase

(* A session that loaded a job's order and key.                            *)
LEMMA LoadUpdate ==
    ASSUME NEW row \in WorkRow, NEW j \in Jobs, NEW k \in 0..MaxKeys, NEW held \in HeldRow
    PROVE  [row EXCEPT !.pc = "send", !.job = j, !.batch = @ \ {j}, !.key = k, !.held = held]
               \in WorkRow
<1>1. row.batch \ {j} \in SUBSET Jobs
  BY DEF WorkRow
<1> QED
  BY <1>1 DEF WorkRow, Phase

(* A session that could not load a job of its batch.                       *)
LEMMA LoadFailsUpdate ==
    ASSUME NEW row \in WorkRow, NEW j \in Jobs, NEW flag \in BOOLEAN
    PROVE  [row EXCEPT !.pc = "fail", !.job = j, !.batch = @ \ {j}, !.held = NothingHeld,
                       !.expired = TRUE, !.permanent = flag] \in WorkRow
<1>1. row.batch \ {j} \in SUBSET Jobs /\ NothingHeld \in HeldRow
  BY DEF WorkRow, NothingHeld, HeldRow
<1> QED
  BY <1>1 DEF WorkRow, Phase

(* A session whose last transaction failed.                                *)
LEMMA MarkFailsUpdate ==
    ASSUME NEW row \in WorkRow
    PROVE  [row EXCEPT !.pc = "fail", !.held = NothingHeld, !.expired = TRUE] \in WorkRow
<1>1. NothingHeld \in HeldRow
  BY DEF NothingHeld, HeldRow
<1> QED
  BY <1>1 DEF WorkRow, Phase

(* A session that is done with a job.                                      *)
LEMMA DoneUpdate ==
    ASSUME NEW row \in WorkRow, NEW held \in HeldRow
    PROVE  /\ [row EXCEPT !.pc = "next", !.job = NoJob, !.key = 0, !.held = held] \in WorkRow
           /\ [row EXCEPT !.pc = "next", !.job = NoJob, !.key = 0, !.permanent = FALSE,
                          !.held = held] \in WorkRow
<1>1. 0 \in 0..MaxKeys
  BY DeliveryAssumption
<1> QED
  BY <1>1 DEF WorkRow, Phase

(* A session goes on with such a row. *)
LEMMA GoesOn ==
    ASSUME work \in [Sessions -> WorkRow], NEW s \in Sessions, NEW row \in WorkRow
    PROVE  [work EXCEPT ![s] = row] \in [Sessions -> WorkRow]
OBVIOUS

(* A failed job that may be tried again, or may not. *)
LEMMA AfterFailureType ==
    ASSUME NEW job \in JobRow, job.attempts < MaxAttempts, NEW permanent \in BOOLEAN
    PROVE  /\ AfterFailure(job, permanent) \in JobRow
           /\ AfterFailure(job, permanent).status \in {"failed", "retry"}
<1>1. job.attempts + 1 \in 0..MaxAttempts
  BY DeliveryAssumption DEF JobRow
<1>2. /\ [job EXCEPT !.status = "failed", !.attempts = @ + 1] \in JobRow
      /\ [job EXCEPT !.status = "retry", !.attempts = @ + 1, !.due = FALSE] \in JobRow
  BY <1>1 DEF JobRow, DeliveryJobStatus
<1> QED
  BY <1>2 DEF AfterFailure, JobRow

(***************************************************************************)
(* The inductive invariant                                                 *)
(***************************************************************************)

InSend == {"send", "mark", "fail"}
Active == {"pending", "processing", "retry"}

(* A job that exists belongs to an order, whose present key is the one the *)
(* job was queued for or a later one, and can be tried once more if it is  *)
(* not finished.                                                           *)
JobsBelong ==
    \A j \in Jobs :
        /\ jobs[j].status # "absent" =>
              /\ jobs[j].order \in Orders
              /\ jobs[j].key \in 1..orders[jobs[j].order].key
        /\ jobs[j].status \in Active => jobs[j].attempts < MaxAttempts

KeysAreIssued ==
    \A o \in Orders : orders[o].status = "unissued" <=> orders[o].key = 0

(* A session has a job exactly while it sends and marks it; what it sends  *)
(* is the key the job was queued for, or a later one, and what it marks as *)
(* delivered has reached the buyer.                                        *)
PhasesFit ==
    \A s \in Sessions :
        /\ work[s].pc \in InSend <=> work[s].job # NoJob
        /\ work[s].pc \in {"idle", "claim"} => work[s].batch = {} /\ work[s].held = NothingHeld
        /\ work[s].job \notin work[s].batch
        /\ work[s].pc \in {"send", "mark"} => work[s].key >= jobs[work[s].job].key
        /\ work[s].pc = "mark" => <<jobs[work[s].job].order, work[s].key>> \in reached

(* Every message is an attempt: the one being made, or one that was counted. *)
SendsAccounted ==
    /\ \A j \in Jobs :
        /\ jobs[j].status = "absent" => sends[j] = 0
        /\ jobs[j].status \in {"pending", "retry", "failed"} => sends[j] <= jobs[j].attempts
        /\ jobs[j].status = "processing" => sends[j] <= jobs[j].attempts + 1
        /\ jobs[j].status = "delivered" => sends[j] <= MaxAttempts
    /\ \A s \in Sessions :
        /\ \A j \in work[s].batch : sends[j] <= jobs[j].attempts
        /\ work[s].pc = "send" => sends[work[s].job] <= jobs[work[s].job].attempts

(* A session's object of order o is not what the table says. *)
Stale(s, o) == work[s].held.order = o /\ work[s].held.shown # orders[o].shown

(* An order shown as pending or to be retried has an unfinished job, and   *)
(* not in the hands of a session whose object is stale: such a session may *)
(* finish its jobs and leave the order as it is shown.                     *)
Earned ==
    \A o \in Orders :
        /\ orders[o].shown \in {"pending", "retry"} =>
              \E j \in Jobs : /\ jobs[j].order = o
                              /\ jobs[j].status \in Active
                              /\ \A s \in Sessions : Stale(s, o) => j \notin InHand(s)
        /\ orders[o].shown = "delivered" =>
              \E j \in Jobs : jobs[j].order = o /\ jobs[j].status = "delivered"

QueueInv ==
    /\ TypeOK
    /\ OneHand
    /\ JobsBelong
    /\ KeysAreIssued
    /\ PhasesFit
    /\ SendsAccounted
    /\ DeliveredReached
    /\ Earned

(* The invariant holds in the empty queue. *)
LEMMA QueueInit == Init => QueueInv
<1> SUFFICES ASSUME Init PROVE QueueInv
  OBVIOUS
<1> USE DeliveryAssumption DEF Init
<1>1. TypeOK
  <2>1. 0 \in 0..MaxKeys
    OBVIOUS
  <2>2. [status |-> "unissued", key |-> 0, shown |-> "none"] \in OrderRow
    BY <2>1 DEF OrderRow
  <2> QED
    BY <2>2, IdleType DEF TypeOK
<1>2. OneHand /\ PhasesFit
  BY DEF OneHand, PhasesFit, InHand, Idle, InSend
<1>3. JobsBelong /\ KeysAreIssued /\ SendsAccounted /\ DeliveredReached
  BY DEF JobsBelong, KeysAreIssued, SendsAccounted, DeliveredReached, AbsentJob, Active, Idle
<1>4. Earned
  BY DEF Earned
<1> QED
  BY <1>1, <1>2, <1>3, <1>4 DEF QueueInv

(* Every column and every local variable keeps its type. *)
LEMMA TypeNext ==
    ASSUME QueueInv, [Next]_vars
    PROVE  TypeOK'
<1> USE DeliveryAssumption
<1>1. /\ orders \in [Orders -> OrderRow] /\ jobs \in [Jobs -> JobRow]
      /\ work \in [Sessions -> WorkRow] /\ reached \subseteq Orders \X (1..MaxKeys)
      /\ sends \in [Jobs -> Nat]
  BY DEF QueueInv, TypeOK
<1>2. ASSUME NEW o \in Orders, NEW k \in 1..MaxKeys, Finalize(o, k)
      PROVE  orders' \in [Orders -> OrderRow] /\ jobs' \in [Jobs -> JobRow]
  BY <1>1, <1>2 DEF Finalize, Enqueue, OrderRow, JobRow, DeliveryJobStatus
<1>3. \A o \in Orders : orders[o].key \in 0..MaxKeys
  BY <1>1 DEF OrderRow
<1>4. \A s \in Sessions, pc \in Phase : [work EXCEPT ![s].pc = pc] \in [Sessions -> WorkRow]
  BY <1>1 DEF WorkRow
<1>5. \A s \in Sessions : [work EXCEPT ![s] = Idle] \in [Sessions -> WorkRow]
  BY <1>1, IdleType
<1>6. ASSUME NEW o \in Orders, Issue(o) PROVE TypeOK'
  BY <1>1, <1>2, <1>6 DEF Issue, TypeOK
<1>7. ASSUME NEW o \in Orders, Resend(o) PROVE TypeOK'
  <2>1. orders' \in [Orders -> OrderRow] /\ jobs' \in [Jobs -> JobRow]
    BY <1>1, <1>3, <1>7 DEF Resend, Enqueue, OrderRow, JobRow, DeliveryJobStatus
  <2> QED
    BY <1>1, <1>7, <2>1 DEF Resend, TypeOK
<1>8. ASSUME NEW o \in Orders, Refund(o) PROVE TypeOK'
  <2>1. orders' \in [Orders -> OrderRow]
    BY <1>1, <1>8 DEF Refund, OrderRow
  <2> QED
    BY <1>1, <1>8, <2>1 DEF Refund, TypeOK
<1>9. ASSUME NEW s \in Handlers, NEW o \in Orders, Confirm(s, o) PROVE TypeOK'
  <2>1. work' \in [Sessions -> WorkRow]
    BY <1>4, <1>9 DEF Confirm, Sessions, Phase
  <2>2. orders' \in [Orders -> OrderRow] /\ jobs' \in [Jobs -> JobRow]
    BY <1>1, <1>2, <1>9 DEF Confirm
  <2> QED
    BY <1>1, <1>9, <2>1, <2>2 DEF Confirm, TypeOK
<1>10. ASSUME NEW s \in Handlers, NEW o \in Orders, Replace(s, o) PROVE TypeOK'
  <2>1. work' \in [Sessions -> WorkRow]
    BY <1>4, <1>10 DEF Replace, Sessions, Phase
  <2>2. orders[o].key + 1 \in 1..MaxKeys /\ Finalize(o, orders[o].key + 1)
    BY <1>3, <1>10 DEF Replace, Finalize
  <2> QED
    BY <1>1, <1>2, <1>10, <2>1, <2>2 DEF Replace, TypeOK
<1>11. ASSUME NEW s \in Sessions, Claim(s) PROVE TypeOK'
  <2>1. PICK batch \in Batches : /\ jobs' = Claimed(batch)
                                 /\ work' = [work EXCEPT ![s].pc = "next", ![s].batch = batch]
    BY <1>11 DEF Claim
  <2>2. batch \in SUBSET Jobs
    BY <2>1 DEF Batches, Due
  <2>3. jobs' \in [Jobs -> JobRow]
    BY <1>1, <2>1 DEF Claimed, JobRow, DeliveryJobStatus
  <2>4. work' \in [Sessions -> WorkRow]
    <3>1. work' = [work EXCEPT ![s] = [@ EXCEPT !.pc = "next", !.batch = batch]]
      BY <1>1, <2>1
    <3>2. [work[s] EXCEPT !.pc = "next", !.batch = batch] \in WorkRow
      BY <1>1, <2>2, ClaimUpdate
    <3> QED
      BY <1>1, <3>1, <3>2, GoesOn
  <2> QED
    BY <1>1, <1>11, <2>3, <2>4 DEF Claim, TypeOK
<1>12. ASSUME NEW s \in Sessions, NEW j \in Jobs, Load(s, j) PROVE TypeOK'
  <2>1. jobs[j].order \in Orders
    BY <1>1, <1>12 DEF Load, QueueInv, OneHand, InHand, JobsBelong
  <2>2. orders[jobs[j].order].key \in 0..MaxKeys /\ Held(s, jobs[j].order) \in HeldRow
    BY <1>3, <2>1, HeldType DEF QueueInv
  <2>3. work' \in [Sessions -> WorkRow]
    <3> DEFINE key == orders[jobs[j].order].key
               held == Held(s, jobs[j].order)
               row == [work[s] EXCEPT !.pc = "send", !.job = j, !.batch = work[s].batch \ {j}, !.key = key,
                                      !.held = held]
    <3>1. work' = [work EXCEPT ![s] = row]
      BY <1>1, <1>12 DEF Load
    <3> HIDE DEF key, held
    <3>2. row \in WorkRow
      BY <1>1, <2>2, LoadUpdate DEF key, held
    <3> HIDE DEF row
    <3> QED
      BY <1>1, <3>1, <3>2, GoesOn
  <2> QED
    BY <1>1, <1>12, <2>3 DEF Load, TypeOK
<1>13. ASSUME NEW s \in Sessions, NEW j \in Jobs, LoadFails(s, j) PROVE TypeOK'
  <2>1. work' \in [Sessions -> WorkRow]
    <3>1. PICK flag \in BOOLEAN : work' = [work EXCEPT ![s] =
              [@ EXCEPT !.pc = "fail", !.job = j, !.batch = work[s].batch \ {j}, !.held = NothingHeld,
                        !.expired = TRUE, !.permanent = flag]]
      BY <1>13 DEF LoadFails
    <3> DEFINE row == [work[s] EXCEPT !.pc = "fail", !.job = j, !.batch = work[s].batch \ {j},
                         !.held = NothingHeld, !.expired = TRUE, !.permanent = flag]
    <3>2. row \in WorkRow
      BY <1>1, LoadFailsUpdate
    <3>3. work' = [work EXCEPT ![s] = row]
      BY <1>1, <3>1
    <3> HIDE DEF row
    <3> QED
      BY <1>1, <3>2, <3>3, GoesOn
  <2> QED
    BY <1>1, <1>13, <2>1 DEF LoadFails, TypeOK
<1>14. ASSUME NEW s \in Sessions, Send(s) PROVE TypeOK'
  <2> DEFINE j == work[s].job
  <2>1. /\ j \in Jobs /\ jobs[j].order \in Orders /\ jobs[j].key >= 1
        /\ work[s].key \in 1..MaxKeys
    <3>1. work[s].pc = "send" /\ work[s] \in WorkRow
      BY <1>1, <1>14 DEF Send
    <3>2. work[s].job # NoJob /\ work[s].key >= jobs[j].key
      BY <3>1 DEF QueueInv, PhasesFit, InSend
    <3>3. j \in Jobs /\ j \in InHand(s) /\ work[s].key \in 0..MaxKeys
      BY <3>1, <3>2 DEF WorkRow, InHand
    <3>4. jobs[j].status = "processing"
      BY <3>3 DEF QueueInv, OneHand
    <3>5. jobs[j].order \in Orders /\ jobs[j].key \in 1..orders[jobs[j].order].key
      BY <3>3, <3>4 DEF QueueInv, JobsBelong
    <3> QED
      BY <3>2, <3>3, <3>5, <1>3
  <2>2. work' \in [Sessions -> WorkRow]
    BY <1>4, <1>14 DEF Send, Phase, AfterSending
  <2>3. reached' \subseteq Orders \X (1..MaxKeys) /\ sends' \in [Jobs -> Nat]
    BY <1>1, <1>14, <2>1 DEF Send
  <2> QED
    BY <1>1, <1>14, <2>2, <2>3 DEF Send, TypeOK
<1>15. ASSUME NEW s \in Sessions, MarkDelivered(s) PROVE TypeOK'
  <2> DEFINE j == work[s].job
             o == jobs[j].order
  <2>1. j \in Jobs /\ o \in Orders
    BY <1>1, <1>15 DEF MarkDelivered, QueueInv, OneHand, InHand, JobsBelong, PhasesFit, InSend, WorkRow
  <2>2. Shown(s, o, "delivered") \in OrderRow /\ [order |-> o, shown |-> "delivered"] \in HeldRow
    BY <2>1, ShownType DEF QueueInv, HeldRow, DeliveryJobStatus
  <2>3. work' \in [Sessions -> WorkRow]
    <3> DEFINE held == [order |-> o, shown |-> "delivered"]
               row == [work[s] EXCEPT !.pc = "next", !.job = NoJob, !.key = 0, !.held = held]
    <3>1. work' = [work EXCEPT ![s] = row]
      BY <1>15 DEF MarkDelivered
    <3>2. held \in HeldRow
      BY <2>2
    <3> HIDE DEF held
    <3>3. row \in WorkRow
      BY <1>1, <3>2, DoneUpdate
    <3> HIDE DEF row
    <3> QED
      BY <1>1, <3>1, <3>3, GoesOn
  <2>4. jobs' \in [Jobs -> JobRow] /\ orders' \in [Orders -> OrderRow]
    BY <1>1, <1>15, <2>1, <2>2 DEF MarkDelivered, JobRow, DeliveryJobStatus
  <2> QED
    BY <1>1, <1>15, <2>3, <2>4 DEF MarkDelivered, TypeOK
<1>16. ASSUME NEW s \in Sessions, MarkFails(s) PROVE TypeOK'
  <2> DEFINE row == [work[s] EXCEPT !.pc = "fail", !.held = NothingHeld, !.expired = TRUE]
  <2>1. row \in WorkRow /\ work' = [work EXCEPT ![s] = row]
    BY <1>1, <1>16, MarkFailsUpdate DEF MarkFails
  <2> HIDE DEF row
  <2>2. work' \in [Sessions -> WorkRow]
    BY <1>1, <2>1, GoesOn
  <2> QED
    BY <1>1, <1>16, <2>2 DEF MarkFails, TypeOK
<1>17. ASSUME NEW s \in Sessions, Fail(s) PROVE TypeOK'
  <2> DEFINE j == work[s].job
             o == jobs[j].order
             after == AfterFailure(jobs[j], work[s].permanent)
  <2>1. j \in Jobs /\ o \in Orders /\ jobs[j].attempts < MaxAttempts
    BY <1>1, <1>17 DEF Fail, QueueInv, OneHand, InHand, JobsBelong, PhasesFit, InSend, WorkRow,
                       Active
  <2>2. after \in JobRow /\ after.status \in {"failed", "retry"}
    BY <1>1, <2>1, AfterFailureType DEF WorkRow
  <2>3. Shown(s, o, after.status) \in OrderRow /\ [order |-> o, shown |-> after.status] \in HeldRow
    BY <2>1, <2>2, ShownType DEF QueueInv, HeldRow, DeliveryJobStatus
  <2>4. jobs' = [jobs EXCEPT ![j] = after] /\ orders' = [orders EXCEPT ![o] = Shown(s, o, after.status)]
    BY <1>17 DEF Fail
  <2>5. work' \in [Sessions -> WorkRow]
    <3> DEFINE held == [order |-> o, shown |-> after.status]
               row == [work[s] EXCEPT !.pc = "next", !.job = NoJob, !.key = 0,
                                      !.permanent = FALSE, !.held = held]
    <3>1. \/ work' = [work EXCEPT ![s] = Idle]
          \/ work' = [work EXCEPT ![s] = row]
      BY <1>17 DEF Fail
    <3>2. held \in HeldRow
      BY <2>3
    <3> HIDE DEF held
    <3>3. row \in WorkRow
      BY <1>1, <3>2, DoneUpdate
    <3> HIDE DEF row
    <3> QED
      BY <1>1, <3>1, <3>3, GoesOn, IdleType
  <2> HIDE DEF after, o, j
  <2>6. jobs' \in [Jobs -> JobRow] /\ orders' \in [Orders -> OrderRow]
    BY <1>1, <2>1, <2>2, <2>3, <2>4
  <2> QED
    BY <1>1, <1>17, <2>5, <2>6 DEF Fail, TypeOK
<1>18. ASSUME NEW s \in Sessions, Finish(s) \/ Crash(s) PROVE TypeOK'
  BY <1>1, <1>5, <1>18 DEF Finish, Crash, TypeOK
<1>19. ASSUME NEW j \in Jobs, RetryDue(j) PROVE TypeOK'
  <2>1. jobs' \in [Jobs -> JobRow]
    BY <1>1, <1>19 DEF RetryDue, JobRow
  <2> QED
    BY <1>1, <1>19, <2>1 DEF RetryDue, TypeOK
<1>20. CASE UNCHANGED vars
  BY <1>1, <1>20 DEF vars, TypeOK
<1> QED
  BY <1>6, <1>7, <1>8, <1>9, <1>10, <1>11, <1>12, <1>13, <1>14, <1>15, <1>16, <1>17, <1>18,
     <1>19, <1>20 DEF Next, Process

(***************************************************************************)
(* What the steps do, column by column                                     *)
(***************************************************************************)

(* A new job for key k of order o, which becomes or stays its present key. *)
NewJob(o, k, j) ==
    /\ jobs[j].status = "absent"
    /\ jobs'[j].status = "pending" /\ jobs'[j].order = o /\ jobs'[j].key = k
    /\ jobs'[j].attempts = 0
    /\ \A i \in Jobs \ {j} : jobs'[i] = jobs[i]
    /\ k \in 1..MaxKeys /\ k >= orders[o].key
    /\ orders'[o].status = "issued" /\ orders'[o].key = k /\ orders'[o].shown = "pending"
    /\ \A p \in Orders \ {o} : orders'[p] = orders[p]

(* Jobs and orders stay, but for an order that is refunded. *)
NoJobs ==
    /\ jobs' = jobs
    /\ \A p \in Orders : /\ orders'[p].key = orders[p].key /\ orders'[p].shown = orders[p].shown
                         /\ (orders'[p].status = "unissued") <=> (orders[p].status = "unissued")

(* The session of an operator may turn to the queue. *)
HandsKept ==
    \A s \in Sessions :
        /\ work'[s].batch = work[s].batch /\ work'[s].job = work[s].job
        /\ work'[s].key = work[s].key /\ work'[s].held = work[s].held
        /\ \/ work'[s].pc = work[s].pc
           \/ work[s].pc = "idle" /\ work'[s].pc = "claim"

(* The steps of the producers. *)
Produces ==
    /\ HandsKept
    /\ UNCHANGED <<reached, sends>>
    /\ NoJobs \/ \E o \in Orders, k \in 1..MaxKeys, j \in Jobs : NewJob(o, k, j)

(* Finalising an issue queues one new job for the key.                     *)
LEMMA FinalizeFacts ==
    ASSUME TypeOK, NEW o \in Orders, NEW k \in 1..MaxKeys, k >= orders[o].key, Finalize(o, k)
    PROVE  \E j \in Jobs : NewJob(o, k, j)
<1>1. PICK j \in Jobs :
        /\ jobs[j].status = "absent"
        /\ jobs' = [jobs EXCEPT ![j] = [status |-> "pending", order |-> o, key |-> k,
                                        attempts |-> 0, due |-> TRUE]]
  BY DEF Finalize, Enqueue
<1> QED
  BY <1>1 DEF Finalize, NewJob, TypeOK

(* A session that starts a call has nothing in its hands yet.              *)
LEMMA BeginsFacts ==
    ASSUME TypeOK, NEW s \in Sessions, work[s].pc = "idle",
           work' = [work EXCEPT ![s].pc = "claim"]
    PROVE  HandsKept
BY DEF TypeOK, WorkRow, HandsKept

(* Issues, replacements, resends and refunds, as the columns show them.    *)
LEMMA ProducersProduce ==
    ASSUME QueueInv,
           \/ \E o \in Orders : Issue(o) \/ Resend(o) \/ Refund(o)
           \/ \E s \in Handlers, o \in Orders : Confirm(s, o) \/ Replace(s, o)
    PROVE  Produces
<1> USE DeliveryAssumption
<1>1. TypeOK /\ Handlers \subseteq Sessions /\ \A o \in Orders : orders[o].key \in 0..MaxKeys
  BY DEF QueueInv, TypeOK, OrderRow, Sessions
<1>2. work' = work => HandsKept
  BY DEF HandsKept
<1>3. jobs' = jobs /\ orders' = orders => NoJobs
  BY DEF NoJobs
<1>4. ASSUME NEW o \in Orders, Issue(o) PROVE Produces
  <2>1. orders[o].key = 0
    BY <1>4 DEF Issue, QueueInv, KeysAreIssued
  <2> QED
    BY <1>1, <1>2, <1>4, <2>1, FinalizeFacts DEF Issue, Produces
<1>5. ASSUME NEW o \in Orders, Resend(o) PROVE Produces
  <2>1. orders[o].key \in 1..MaxKeys
    BY <1>1, <1>5 DEF Resend, QueueInv, KeysAreIssued
  <2>2. PICK j \in Jobs :
        /\ jobs[j].status = "absent"
        /\ jobs' = [jobs EXCEPT ![j] = [status |-> "pending", order |-> o, key |-> orders[o].key,
                                        attempts |-> 0, due |-> TRUE]]
    BY <1>5 DEF Resend, Enqueue
  <2>3. NewJob(o, orders[o].key, j)
    BY <1>1, <1>5, <2>1, <2>2 DEF Resend, NewJob, TypeOK, OrderRow
  <2> QED
    BY <1>2, <1>5, <2>1, <2>3 DEF Resend, Produces
<1>6. ASSUME NEW o \in Orders, Refund(o) PROVE Produces
  <2>1. NoJobs
    BY <1>1, <1>6 DEF Refund, NoJobs, TypeOK, OrderRow
  <2> QED
    BY <1>2, <1>6, <2>1 DEF Refund, Produces
<1>7. ASSUME NEW s \in Handlers, NEW o \in Orders, Confirm(s, o) PROVE Produces
  <2>1. HandsKept
    BY <1>1, <1>7, BeginsFacts DEF Confirm
  <2>2. CASE orders[o].status = "unissued" /\ Finalize(o, 1)
    <3>1. orders[o].key = 0
      BY <2>2 DEF QueueInv, KeysAreIssued
    <3> QED
      BY <1>1, <1>7, <2>1, <2>2, <3>1, FinalizeFacts DEF Confirm, Produces
  <2>3. CASE UNCHANGED <<orders, jobs>>
    BY <1>3, <1>7, <2>1, <2>3 DEF Confirm, Produces
  <2> QED
    BY <1>7, <2>2, <2>3 DEF Confirm
<1>8. ASSUME NEW s \in Handlers, NEW o \in Orders, Replace(s, o) PROVE Produces
  <2>1. HandsKept
    BY <1>1, <1>8, BeginsFacts DEF Replace
  <2>2. orders[o].key + 1 \in 1..MaxKeys /\ Finalize(o, orders[o].key + 1)
    BY <1>1, <1>8 DEF Replace, Finalize
  <2> QED
    BY <1>1, <1>8, <2>1, <2>2, FinalizeFacts DEF Replace, Produces
<1> QED
  BY <1>4, <1>5, <1>6, <1>7, <1>8

(* A step of one session leaves the others alone. *)
Others(s) == \A t \in Sessions \ {s} : work'[t] = work[t]

(* A claim takes due jobs nobody holds and marks them processing.          *)
LEMMA ClaimFacts ==
    ASSUME QueueInv, NEW s \in Sessions, Claim(s)
    PROVE  /\ Others(s) /\ UNCHANGED <<orders, reached, sends>>
           /\ work[s].job = NoJob /\ work[s].batch = {} /\ work[s].held = NothingHeld
           /\ work'[s].pc = "next" /\ work'[s].job = NoJob /\ work'[s].held = NothingHeld
           /\ work'[s].batch \in SUBSET Due
           /\ \A j \in Jobs : /\ jobs'[j].order = jobs[j].order /\ jobs'[j].key = jobs[j].key
                              /\ jobs'[j].attempts = jobs[j].attempts
                              /\ jobs'[j].status = IF j \in work'[s].batch THEN "processing"
                                                   ELSE jobs[j].status
<1>1. PICK batch \in Batches : /\ jobs' = Claimed(batch)
                               /\ work' = [work EXCEPT ![s].pc = "next", ![s].batch = batch]
  BY DEF Claim
<1>2. work[s].pc \in {"idle", "claim"} /\ work \in [Sessions -> WorkRow] /\ jobs \in [Jobs -> JobRow]
  BY DEF Claim, Starts, QueueInv, TypeOK
<1>3. work[s].job = NoJob /\ work[s].batch = {} /\ work[s].held = NothingHeld
  BY <1>2 DEF QueueInv, PhasesFit, InSend
<1>4. /\ Others(s) /\ work'[s].pc = "next" /\ work'[s].batch = batch
      /\ work'[s].job = work[s].job /\ work'[s].held = work[s].held
  BY <1>1, <1>2 DEF Others, WorkRow
<1>5. batch \in SUBSET Due
  BY <1>1 DEF Batches
<1>6. \A j \in Jobs : /\ jobs'[j].order = jobs[j].order /\ jobs'[j].key = jobs[j].key
                      /\ jobs'[j].attempts = jobs[j].attempts
                      /\ jobs'[j].status = IF j \in batch THEN "processing" ELSE jobs[j].status
  BY <1>1, <1>2 DEF Claimed, JobRow
<1> QED
  BY <1>3, <1>4, <1>5, <1>6 DEF Claim

(* Loading a job changes nothing but what the session holds.               *)
LEMMA LoadFacts ==
    ASSUME QueueInv, NEW s \in Sessions, NEW j \in Jobs, Load(s, j)
    PROVE  /\ Others(s) /\ UNCHANGED <<orders, jobs, reached, sends>>
           /\ work[s].pc = "next" /\ work[s].job = NoJob /\ j \in work[s].batch
           /\ work'[s].pc = "send" /\ work'[s].job = j /\ work'[s].batch = work[s].batch \ {j}
           /\ work'[s].key = orders[jobs[j].order].key
           /\ work'[s].held = Held(s, jobs[j].order)
<1>1. work[s].pc = "next" /\ j \in work[s].batch /\ work \in [Sessions -> WorkRow]
  BY DEF Load, QueueInv, TypeOK
<1>2. work[s].job = NoJob
  BY <1>1 DEF QueueInv, PhasesFit, InSend
<1> QED
  BY <1>1, <1>2 DEF Load, Others, WorkRow

(* Neither does a load that fails; the job is in the session's hands.      *)
LEMMA LoadFailsFacts ==
    ASSUME QueueInv, NEW s \in Sessions, NEW j \in Jobs, LoadFails(s, j)
    PROVE  /\ Others(s) /\ UNCHANGED <<orders, jobs, reached, sends>>
           /\ work[s].pc = "next" /\ work[s].job = NoJob /\ j \in work[s].batch
           /\ work'[s].pc = "fail" /\ work'[s].job = j /\ work'[s].batch = work[s].batch \ {j}
           /\ work'[s].held = NothingHeld
<1>1. work[s].pc = "next" /\ j \in work[s].batch /\ work \in [Sessions -> WorkRow]
  BY DEF LoadFails, QueueInv, TypeOK
<1>2. work[s].job = NoJob
  BY <1>1 DEF QueueInv, PhasesFit, InSend
<1> QED
  BY <1>1, <1>2 DEF LoadFails, Others, WorkRow

(* The job a session sends or marks is its own, and being processed. *)
LEMMA JobInHand ==
    ASSUME QueueInv, NEW s \in Sessions, work[s].pc \in InSend
    PROVE  /\ work[s].job \in Jobs /\ work[s].job \in InHand(s) /\ work[s].job \notin work[s].batch
           /\ jobs[work[s].job].status = "processing" /\ jobs[work[s].job].order \in Orders
           /\ jobs[work[s].job].attempts \in Nat
           /\ jobs[work[s].job].attempts < MaxAttempts
<1>1. work[s].job # NoJob /\ work[s] \in WorkRow /\ work[s].job \notin work[s].batch
  BY DEF QueueInv, PhasesFit, TypeOK
<1>2. work[s].job \in Jobs /\ work[s].job \in InHand(s)
  BY <1>1 DEF WorkRow, InHand
<1>3. jobs[work[s].job].status = "processing" /\ jobs[work[s].job] \in JobRow
  BY <1>2 DEF QueueInv, OneHand, TypeOK
<1> QED
  BY <1>1, <1>2, <1>3, DeliveryAssumption DEF QueueInv, JobsBelong, Active, JobRow

(* A message goes out at most once for the attempt being made.             *)
LEMMA SendFacts ==
    ASSUME QueueInv, NEW s \in Sessions, Send(s)
    PROVE  /\ Others(s) /\ UNCHANGED <<orders, jobs>>
           /\ work[s].pc = "send" /\ work[s].job \in Jobs
           /\ work'[s].pc \in {"mark", "fail"} /\ work'[s].job = work[s].job
           /\ work'[s].batch = work[s].batch
           /\ work'[s].key = work[s].key /\ work'[s].held = work[s].held
           /\ \/ UNCHANGED <<reached, sends>> /\ work'[s].pc = "fail"
              \/ /\ reached' = reached \cup {<<jobs[work[s].job].order, work[s].key>>}
                 /\ sends'[work[s].job] = sends[work[s].job] + 1
                 /\ \A i \in Jobs \ {work[s].job} : sends'[i] = sends[i]
<1>1. /\ work[s].pc = "send" /\ work \in [Sessions -> WorkRow] /\ sends \in [Jobs -> Nat]
      /\ work[s].job \in Jobs
  BY JobInHand DEF Send, QueueInv, TypeOK, InSend
<1>2. PICK outcome \in {"ok", "unsent", "sent"} :
        /\ IF outcome = "unsent"
           THEN UNCHANGED <<reached, sends>>
           ELSE /\ reached' = reached \cup {<<jobs[work[s].job].order, work[s].key>>}
                /\ sends' = [sends EXCEPT ![work[s].job] = @ + 1]
        /\ work' = [work EXCEPT ![s].pc = IF outcome = "ok" THEN "mark" ELSE "fail"]
  BY DEF Send, AfterSending
<1> QED
  BY <1>1, <1>2 DEF Send, Others, WorkRow

(* When the last transaction fails, the tables stay as they were.          *)
LEMMA MarkFailsFacts ==
    ASSUME QueueInv, NEW s \in Sessions, MarkFails(s)
    PROVE  /\ Others(s) /\ UNCHANGED <<orders, jobs, reached, sends>>
           /\ work[s].pc = "mark" /\ work'[s].pc = "fail" /\ work'[s].job = work[s].job
           /\ work'[s].batch = work[s].batch /\ work'[s].held = NothingHeld
<1>1. work \in [Sessions -> WorkRow]
  BY DEF QueueInv, TypeOK
<1> QED
  BY <1>1 DEF MarkFails, Others, WorkRow

(* The order shows the status now, unless the session's object has it. *)
ShownAs(s, o, status) ==
    \/ orders'[o].shown = status
    \/ Held(s, o).shown = status /\ orders'[o] = orders[o]

(* How a session ends its job: the job's row gets a status that is not     *)
(* processing, the order shows it unless the session's object does, and    *)
(* the session goes on to the next job or drops the rest of its batch.     *)
Ends(s, status) ==
    LET j == work[s].job
        o == jobs[j].order
    IN  /\ Others(s) /\ UNCHANGED <<reached, sends>>
        /\ jobs'[j].status = status /\ jobs'[j].order = o /\ jobs'[j].key = jobs[j].key
        /\ \A i \in Jobs \ {j} : jobs'[i] = jobs[i]
        /\ \A p \in Orders : orders'[p].key = orders[p].key /\ orders'[p].status = orders[p].status
        /\ \A p \in Orders \ {o} : orders'[p] = orders[p]
        /\ ShownAs(s, o, status)
        /\ work'[s].job = NoJob
        /\ \/ work'[s].pc = "idle" /\ work'[s].batch = {} /\ work'[s].held = NothingHeld
           \/ /\ work'[s].pc = "next" /\ work'[s].batch = work[s].batch
              /\ work'[s].held = [order |-> o, shown |-> status]

(* An order shows a new delivery_status or, held stale, the one it had.    *)
LEMMA ShownFacts ==
    ASSUME TypeOK, NEW s \in Sessions, NEW o \in Orders, NEW status \in DeliveryJobStatus,
           orders' = [orders EXCEPT ![o] = Shown(s, o, status)]
    PROVE  /\ \A p \in Orders : orders'[p].key = orders[p].key /\ orders'[p].status = orders[p].status
           /\ \A p \in Orders \ {o} : orders'[p] = orders[p]
           /\ ShownAs(s, o, status)
<1>1. orders \in [Orders -> OrderRow]
  BY DEF TypeOK
<1>2. orders'[o] = Shown(s, o, status) /\ \A p \in Orders \ {o} : orders'[p] = orders[p]
  BY <1>1
<1>3. \/ Held(s, o).shown = status /\ orders'[o] = orders[o]
      \/ orders'[o] = [orders[o] EXCEPT !.shown = status]
  BY <1>2 DEF Shown
<1>4. orders'[o].key = orders[o].key /\ orders'[o].status = orders[o].status
  BY <1>1, <1>3 DEF OrderRow
<1>5. \/ orders'[o].shown = status
      \/ Held(s, o).shown = status /\ orders'[o] = orders[o]
  BY <1>1, <1>3 DEF OrderRow
<1> QED
  BY <1>2, <1>4, <1>5 DEF ShownAs

(* Marking a job delivered touches that job and what its order shows.      *)
LEMMA MarkFacts ==
    ASSUME QueueInv, NEW s \in Sessions, MarkDelivered(s)
    PROVE  /\ work[s].pc = "mark" /\ Ends(s, "delivered")
           /\ jobs'[work[s].job].attempts = jobs[work[s].job].attempts
<1> DEFINE j == work[s].job
           o == jobs[j].order
<1>1. /\ work[s].pc = "mark" /\ TypeOK
      /\ j \in Jobs /\ o \in Orders
  BY JobInHand DEF MarkDelivered, QueueInv, InSend
<1>2. /\ \A p \in Orders : orders'[p].key = orders[p].key /\ orders'[p].status = orders[p].status
      /\ \A p \in Orders \ {o} : orders'[p] = orders[p]
      /\ ShownAs(s, o, "delivered")
  <2>1. orders' = [orders EXCEPT ![o] = Shown(s, o, "delivered")]
    BY DEF MarkDelivered
  <2> HIDE DEF o
  <2> QED
    BY <1>1, <2>1, ShownFacts DEF DeliveryJobStatus
<1>3. /\ Others(s) /\ work'[s].job = NoJob /\ work'[s].pc = "next"
      /\ work'[s].batch = work[s].batch
      /\ work'[s].held = [order |-> jobs[work[s].job].order, shown |-> "delivered"]
  BY <1>1 DEF MarkDelivered, Others, TypeOK, WorkRow
<1>4. /\ jobs'[work[s].job].status = "delivered"
      /\ jobs'[work[s].job].order = jobs[work[s].job].order
      /\ jobs'[work[s].job].key = jobs[work[s].job].key
      /\ jobs'[work[s].job].attempts = jobs[work[s].job].attempts
      /\ \A i \in Jobs \ {work[s].job} : jobs'[i] = jobs[i]
  BY <1>1 DEF MarkDelivered, TypeOK, JobRow
<1>5. UNCHANGED <<reached, sends>>
  BY DEF MarkDelivered
<1> QED
  BY <1>1, <1>2, <1>3, <1>4, <1>5 DEF Ends

(* A failed attempt is counted; the job waits for a retry or is given up.  *)
LEMMA FailFacts ==
    ASSUME QueueInv, NEW s \in Sessions, Fail(s)
    PROVE  /\ work[s].pc = "fail"
           /\ jobs'[work[s].job].attempts = jobs[work[s].job].attempts + 1
           /\ \/ Ends(s, "failed")
              \/ /\ Ends(s, "retry")
                 /\ jobs'[work[s].job].attempts < MaxAttempts
<1> DEFINE j == work[s].job
           o == jobs[j].order
           after == AfterFailure(jobs[j], work[s].permanent)
<1>1. /\ work[s].pc = "fail" /\ TypeOK /\ j \in Jobs /\ o \in Orders
      /\ jobs[j].attempts \in Nat
  BY JobInHand DEF Fail, QueueInv, InSend
<1>2. /\ after.order = o /\ after.key = jobs[j].key /\ after.attempts = jobs[j].attempts + 1
      /\ \/ after.status = "failed"
         \/ after.status = "retry" /\ after.attempts < MaxAttempts
  BY <1>1, AfterFailureColumns DEF TypeOK, WorkRow
<1>3. /\ jobs' = [jobs EXCEPT ![j] = after]
      /\ orders' = [orders EXCEPT ![o] = Shown(s, o, after.status)]
      /\ UNCHANGED <<reached, sends>>
      /\ \/ work' = [work EXCEPT ![s] = Idle]
         \/ work' = [work EXCEPT ![s] =
                       [@ EXCEPT !.pc = "next", !.job = NoJob, !.key = 0, !.permanent = FALSE,
                                 !.held = [order |-> o, shown |-> after.status]]]
  BY DEF Fail
<1> HIDE DEF after
<1> DEFINE held == [order |-> o, shown |-> after.status]
<1>4. /\ Others(s) /\ work'[s].job = NoJob
      /\ \/ work'[s].pc = "idle" /\ work'[s].batch = {} /\ work'[s].held = NothingHeld
         \/ /\ work'[s].pc = "next" /\ work'[s].batch = work[s].batch
            /\ work'[s].held = held
  <2>1. \/ work' = [work EXCEPT ![s] = Idle]
        \/ work' = [work EXCEPT ![s] =
                      [@ EXCEPT !.pc = "next", !.job = NoJob, !.key = 0, !.permanent = FALSE,
                                !.held = held]]
    BY <1>3
  <2> HIDE DEF held
  <2>2. work \in [Sessions -> WorkRow]
    BY <1>1 DEF TypeOK
  <2>3. CASE work' = [work EXCEPT ![s] = Idle]
    BY <2>2, <2>3 DEF Others, Idle
  <2>4. CASE work' = [work EXCEPT ![s] =
                        [@ EXCEPT !.pc = "next", !.job = NoJob, !.key = 0, !.permanent = FALSE,
                                  !.held = held]]
    BY <2>2, <2>4 DEF Others, WorkRow
  <2> QED
    BY <2>1, <2>3, <2>4
<1>5. jobs'[j] = after /\ \A i \in Jobs \ {j} : jobs'[i] = jobs[i]
  BY <1>1, <1>3 DEF TypeOK
<1>6. /\ \A p \in Orders : orders'[p].key = orders[p].key /\ orders'[p].status = orders[p].status
      /\ \A p \in Orders \ {o} : orders'[p] = orders[p]
      /\ ShownAs(s, o, after.status)
  <2>1. orders' = [orders EXCEPT ![o] = Shown(s, o, after.status)]
    BY <1>3
  <2>2. ASSUME NEW p \in Orders, NEW status \in DeliveryJobStatus,
               orders' = [orders EXCEPT ![p] = Shown(s, p, status)]
        PROVE  /\ \A q \in Orders : orders'[q].key = orders[q].key /\ orders'[q].status = orders[q].status
               /\ \A q \in Orders \ {p} : orders'[q] = orders[q]
               /\ ShownAs(s, p, status)
    BY <1>1, <2>2, ShownFacts
  <2>3. after.status \in DeliveryJobStatus
    BY <1>2 DEF DeliveryJobStatus
  <2> HIDE DEF o
  <2> QED
    BY <1>1, <2>1, <2>2, <2>3
<1>7. Ends(s, after.status)
  BY <1>2, <1>3, <1>4, <1>5, <1>6 DEF Ends
<1> QED
  BY <1>1, <1>2, <1>5, <1>7

(* The end of a call and a stop of a session leave the tables alone.       *)
LEMMA DropFacts ==
    ASSUME QueueInv, NEW s \in Sessions, Finish(s) \/ Crash(s)
    PROVE  /\ Others(s) /\ UNCHANGED <<orders, jobs, reached, sends>>
           /\ work'[s] = Idle
BY DEF Finish, Crash, Others, QueueInv, TypeOK

(* The passing of a retry delay changes nothing else.                      *)
LEMMA RetryDueFacts ==
    ASSUME QueueInv, NEW j \in Jobs, RetryDue(j)
    PROVE  /\ UNCHANGED <<orders, work, reached, sends>>
           /\ \A i \in Jobs : /\ jobs'[i].status = jobs[i].status /\ jobs'[i].order = jobs[i].order
                              /\ jobs'[i].key = jobs[i].key /\ jobs'[i].attempts = jobs[i].attempts
BY DEF RetryDue, QueueInv, TypeOK, JobRow

(***************************************************************************)
(* The invariant holds after every step                                    *)
(***************************************************************************)

(* A job stays in one session's hands until that session is done with it.  *)
LEMMA OneHandNext ==
    ASSUME QueueInv, Next
    PROVE  OneHand'
<1> USE DEF OneHand, InHand
<1>0. /\ OneHand /\ TypeOK
      /\ \A s \in Sessions : work[s].batch \in SUBSET Jobs /\ work[s].job \in Jobs \cup {NoJob}
  BY DEF QueueInv, TypeOK, WorkRow
<1>1. CASE \/ \E o \in Orders : Issue(o) \/ Resend(o) \/ Refund(o)
           \/ \E s \in Handlers, o \in Orders : Confirm(s, o) \/ Replace(s, o)
  <2>1. Produces
    BY <1>1, ProducersProduce
  <2>2. \A s \in Sessions : InHand(s)' = InHand(s)
    BY <2>1 DEF Produces, HandsKept
  <2>3. \A j \in Jobs : jobs[j].status = "processing" => jobs'[j] = jobs[j]
    BY <2>1 DEF Produces, NoJobs, NewJob
  <2> QED
    BY <1>0, <2>2, <2>3
<1>2. ASSUME NEW s \in Sessions, Claim(s) PROVE OneHand'
  <2>1. InHand(s)' \in SUBSET Due /\ \A t \in Sessions \ {s} : InHand(t)' = InHand(t)
    BY <1>2, ClaimFacts DEF Others
  <2>2. \A j \in Jobs : jobs'[j].status = IF j \in InHand(s)' THEN "processing" ELSE jobs[j].status
    BY <1>2, ClaimFacts
  <2>3. \A t \in Sessions : InHand(t) \in SUBSET Jobs /\ InHand(t) \cap Due = {}
    BY <1>0 DEF Due
  <2>4. \A t, u \in Sessions : t # u => InHand(t) \cap InHand(u) = {}
    BY <1>0
  <2>5. \A t \in Sessions : \A j \in InHand(t) : j \in Jobs /\ jobs[j].status = "processing"
    BY <1>0
  <2>6. Due \in SUBSET Jobs
    BY DEF Due
  <2> HIDE DEF InHand
  <2>7. \A t \in Sessions : \A j \in InHand(t)' : jobs'[j].status = "processing"
    BY <2>1, <2>2, <2>5, <2>6
  <2>8. \A t, u \in Sessions : t # u => InHand(t)' \cap InHand(u)' = {}
    BY <2>1, <2>3, <2>4
  <2> QED
    BY <2>7, <2>8
<1>3. ASSUME NEW s \in Sessions, NEW j \in Jobs, Load(s, j) \/ LoadFails(s, j) PROVE OneHand'
  <2>1. InHand(s)' = InHand(s) /\ jobs' = jobs
    BY <1>3, LoadFacts, LoadFailsFacts, DeliveryAssumption
  <2>2. \A t \in Sessions \ {s} : InHand(t)' = InHand(t)
    BY <1>3, LoadFacts, LoadFailsFacts DEF Others
  <2> QED
    BY <1>0, <2>1, <2>2
<1>4. ASSUME NEW s \in Sessions, Send(s) \/ MarkFails(s) PROVE OneHand'
  <2>1. InHand(s)' = InHand(s) /\ jobs' = jobs
    BY <1>4, SendFacts, MarkFailsFacts
  <2>2. \A t \in Sessions \ {s} : InHand(t)' = InHand(t)
    BY <1>4, SendFacts, MarkFailsFacts DEF Others
  <2> QED
    BY <1>0, <2>1, <2>2
<1>5. ASSUME NEW s \in Sessions, NEW status, Ends(s, status), work[s].pc \in InSend PROVE OneHand'
  <2>1. work[s].job \in InHand(s) /\ work[s].job \notin work[s].batch
    BY <1>5, JobInHand
  <2>2. InHand(s)' \in SUBSET (InHand(s) \ {work[s].job})
    BY <1>0, <1>5, <2>1 DEF Ends
  <2>3. \A t \in Sessions \ {s} : InHand(t)' = InHand(t)
    BY <1>5 DEF Ends, Others
  <2>4. \A i \in Jobs \ {work[s].job} : jobs'[i] = jobs[i]
    BY <1>5 DEF Ends
  <2> QED
    BY <1>0, <2>1, <2>2, <2>3, <2>4
<1>6. ASSUME NEW s \in Sessions, MarkDelivered(s) PROVE OneHand'
  BY <1>5, <1>6, MarkFacts DEF InSend
<1>7. ASSUME NEW s \in Sessions, Fail(s) PROVE OneHand'
  BY <1>5, <1>7, FailFacts DEF InSend
<1>8. ASSUME NEW s \in Sessions, Finish(s) \/ Crash(s) PROVE OneHand'
  BY <1>0, <1>8, DropFacts DEF Others, Idle
<1>9. ASSUME NEW j \in Jobs, RetryDue(j) PROVE OneHand'
  <2>1. work' = work /\ \A i \in Jobs : jobs'[i].status = jobs[i].status
    BY <1>9, RetryDueFacts
  <2> QED
    BY <1>0, <2>1
<1> QED
  BY <1>1, <1>2, <1>3, <1>4, <1>6, <1>7, <1>8, <1>9 DEF Next, Process

(* The order of an existing job never falls behind the key it was queued   *)
(* for, and only jobs with attempts left are tried.                        *)
LEMMA BelongNext ==
    ASSUME QueueInv, Next
    PROVE  JobsBelong' /\ KeysAreIssued'
<1> USE DeliveryAssumption DEF JobsBelong, KeysAreIssued, Active
<1>0. /\ JobsBelong /\ KeysAreIssued /\ TypeOK
      /\ \A o \in Orders : orders[o].key \in 0..MaxKeys
  BY DEF QueueInv, TypeOK, OrderRow
<1>1. CASE \/ \E o \in Orders : Issue(o) \/ Resend(o) \/ Refund(o)
           \/ \E s \in Handlers, o \in Orders : Confirm(s, o) \/ Replace(s, o)
  <2>1. Produces
    BY <1>1, ProducersProduce
  <2>2. CASE NoJobs
    BY <1>0, <2>2 DEF NoJobs
  <2>3. ASSUME NEW o \in Orders, NEW k \in 1..MaxKeys, NEW j \in Jobs, NewJob(o, k, j)
        PROVE  JobsBelong' /\ KeysAreIssued'
    <3>1. KeysAreIssued'
      BY <1>0, <2>3 DEF NewJob
    <3>2. \A p \in Orders : orders'[p].key \in 0..MaxKeys /\ orders'[p].key >= orders[p].key
      BY <1>0, <2>3 DEF NewJob
    <3>3. ASSUME NEW i \in Jobs PROVE JobsBelong!(i)'
      <4>1. CASE i = j
        BY <2>3, <4>1 DEF NewJob
      <4>2. CASE i # j
        <5>1. jobs'[i] = jobs[i]
          BY <2>3, <4>2 DEF NewJob
        <5>2. jobs[i].key \in 0..MaxKeys
          BY <1>0 DEF TypeOK, JobRow
        <5> QED
          BY <1>0, <3>2, <5>1, <5>2
      <4> QED
        BY <4>1, <4>2
    <3> QED
      BY <3>1, <3>3
  <2> QED
    BY <2>1, <2>2, <2>3 DEF Produces
<1>2. ASSUME NEW s \in Sessions, Claim(s) PROVE JobsBelong' /\ KeysAreIssued'
  <2>1. orders' = orders /\ work'[s].batch \in SUBSET Due
    BY <1>2, ClaimFacts
  <2>2. \A j \in Jobs : /\ jobs'[j].order = jobs[j].order /\ jobs'[j].key = jobs[j].key
                        /\ jobs'[j].attempts = jobs[j].attempts
                        /\ jobs'[j].status = IF j \in work'[s].batch THEN "processing"
                                             ELSE jobs[j].status
    BY <1>2, ClaimFacts
  <2> QED
    BY <1>0, <2>1, <2>2 DEF Due
<1>3. ASSUME orders' = orders, jobs' = jobs PROVE JobsBelong' /\ KeysAreIssued'
  BY <1>0, <1>3
<1>4. ASSUME NEW s \in Sessions, NEW status, Ends(s, status), work[s].pc \in InSend,
             status \in Active => jobs'[work[s].job].attempts < MaxAttempts
      PROVE  JobsBelong' /\ KeysAreIssued'
  <2>1. /\ work[s].job \in Jobs /\ jobs[work[s].job].order \in Orders
        /\ jobs[work[s].job].status = "processing"
    BY <1>4, JobInHand
  <2>2. \A p \in Orders : orders'[p].key = orders[p].key /\ orders'[p].status = orders[p].status
    BY <1>4 DEF Ends
  <2>3. /\ \A i \in Jobs \ {work[s].job} : jobs'[i] = jobs[i]
        /\ jobs'[work[s].job].order = jobs[work[s].job].order
        /\ jobs'[work[s].job].key = jobs[work[s].job].key
        /\ jobs'[work[s].job].status = status
    BY <1>4 DEF Ends
  <2> QED
    BY <1>0, <1>4, <2>1, <2>2, <2>3
<1>5. ASSUME NEW s \in Sessions, Process(s) \/ Crash(s) PROVE JobsBelong' /\ KeysAreIssued'
  <2>1. ASSUME MarkDelivered(s) PROVE JobsBelong' /\ KeysAreIssued'
    BY <1>4, <2>1, MarkFacts DEF InSend
  <2>2. ASSUME Fail(s) PROVE JobsBelong' /\ KeysAreIssued'
    BY <1>4, <2>2, FailFacts DEF InSend
  <2> QED
    BY <1>2, <1>3, <1>5, <2>1, <2>2, LoadFacts, LoadFailsFacts, SendFacts, MarkFailsFacts,
       DropFacts DEF Process
<1>6. ASSUME NEW j \in Jobs, RetryDue(j) PROVE JobsBelong' /\ KeysAreIssued'
  <2>1. /\ orders' = orders
        /\ \A i \in Jobs : /\ jobs'[i].status = jobs[i].status /\ jobs'[i].order = jobs[i].order
                           /\ jobs'[i].key = jobs[i].key /\ jobs'[i].attempts = jobs[i].attempts
    BY <1>6, RetryDueFacts
  <2> QED
    BY <1>0, <2>1
<1> QED
  BY <1>1, <1>5, <1>6 DEF Next

(* The steps, as the columns show them. *)
LEMMA StepCases ==
    ASSUME QueueInv, Next
    PROVE  \/ Produces
           \/ \E s \in Sessions :
                \/ Claim(s)
                \/ \E j \in Jobs : Load(s, j) \/ LoadFails(s, j)
                \/ Send(s)
                \/ MarkDelivered(s)
                \/ MarkFails(s)
                \/ Fail(s)
                \/ Finish(s) \/ Crash(s)
           \/ \E j \in Jobs : RetryDue(j)
BY ProducersProduce DEF Next, Process

(* A job keeps its order and its key, a message that arrived stays, and    *)
(* only a session that marks it makes a job delivered.                     *)
LEMMA JobsStay ==
    ASSUME QueueInv, Next
    PROVE  /\ reached \subseteq reached'
           /\ \A j \in Jobs :
                /\ jobs[j].status # "absent" =>
                      /\ jobs'[j].status # "absent"
                      /\ jobs'[j].order = jobs[j].order /\ jobs'[j].key = jobs[j].key
                /\ jobs'[j].status = "delivered" =>
                      \/ jobs[j].status = "delivered"
                      \/ \E s \in Sessions : MarkDelivered(s) /\ work[s].job = j
<1> DEFINE Stay(j) ==
            /\ jobs[j].status # "absent" =>
                  /\ jobs'[j].status # "absent"
                  /\ jobs'[j].order = jobs[j].order /\ jobs'[j].key = jobs[j].key
            /\ jobs'[j].status = "delivered" =>
                  \/ jobs[j].status = "delivered"
                  \/ \E s \in Sessions : MarkDelivered(s) /\ work[s].job = j
<1>1. CASE Produces
  BY <1>1 DEF Produces, NoJobs, NewJob
<1>2. ASSUME NEW s \in Sessions, Claim(s) PROVE reached' = reached /\ \A j \in Jobs : Stay(j)
  <2>1. /\ reached' = reached /\ work'[s].batch \in SUBSET Due
        /\ \A j \in Jobs : /\ jobs'[j].order = jobs[j].order /\ jobs'[j].key = jobs[j].key
                           /\ jobs'[j].status = IF j \in work'[s].batch THEN "processing"
                                                ELSE jobs[j].status
    BY <1>2, ClaimFacts
  <2> QED
    BY <2>1
<1>3. jobs' = jobs => \A j \in Jobs : Stay(j)
  OBVIOUS
<1>4. ASSUME NEW s \in Sessions, NEW status, Ends(s, status), work[s].pc \in InSend,
             status \in {"failed", "retry"} \/ (status = "delivered" /\ MarkDelivered(s))
      PROVE  reached' = reached /\ \A j \in Jobs : Stay(j)
  <2>1. /\ reached' = reached
        /\ jobs'[work[s].job].status = status
        /\ jobs'[work[s].job].order = jobs[work[s].job].order
        /\ jobs'[work[s].job].key = jobs[work[s].job].key
        /\ \A i \in Jobs \ {work[s].job} : jobs'[i] = jobs[i]
    BY <1>4 DEF Ends
  <2> QED
    BY <1>4, <2>1
<1>5. ASSUME NEW s \in Sessions, MarkDelivered(s) PROVE reached' = reached /\ \A j \in Jobs : Stay(j)
  BY <1>4, <1>5, MarkFacts DEF InSend
<1>6. ASSUME NEW s \in Sessions, Fail(s) PROVE reached' = reached /\ \A j \in Jobs : Stay(j)
  BY <1>4, <1>6, FailFacts DEF InSend
<1>7. ASSUME NEW j \in Jobs, RetryDue(j) PROVE reached' = reached /\ \A i \in Jobs : Stay(i)
  BY <1>7, RetryDueFacts
<1>8. ASSUME NEW s \in Sessions,
             \/ \E j \in Jobs : Load(s, j) \/ LoadFails(s, j)
             \/ Send(s) \/ MarkFails(s) \/ Finish(s) \/ Crash(s)
      PROVE  jobs' = jobs /\ reached \subseteq reached'
  BY <1>8, LoadFacts, LoadFailsFacts, SendFacts, MarkFailsFacts, DropFacts
<1> HIDE DEF Stay
<1>9. reached \subseteq reached' /\ \A j \in Jobs : Stay(j)
  BY <1>1, <1>2, <1>3, <1>5, <1>6, <1>7, <1>8, StepCases DEF Stay
<1> QED
  BY <1>9 DEF Stay

(* The local variables of a session fit where it is. *)
Fits(s) ==
    /\ work[s].pc \in InSend <=> work[s].job # NoJob
    /\ work[s].pc \in {"idle", "claim"} => work[s].batch = {} /\ work[s].held = NothingHeld
    /\ work[s].job \notin work[s].batch
    /\ work[s].pc \in {"send", "mark"} => work[s].key >= jobs[work[s].job].key
    /\ work[s].pc = "mark" => <<jobs[work[s].job].order, work[s].key>> \in reached

(* A session's local variables fit the place it is at.                     *)
LEMMA PhasesNext ==
    ASSUME QueueInv, Next
    PROVE  PhasesFit'
<1> USE DEF InSend
<1>0. \A t \in Sessions : Fits(t) /\ work[t].batch \in SUBSET Jobs
  BY DEF QueueInv, PhasesFit, Fits, TypeOK, WorkRow
<1>1. ASSUME NEW t \in Sessions, work'[t] = work[t] PROVE Fits(t)'
  <2>1. CASE work[t].pc \in InSend
    <3>1. work[t].job \in Jobs /\ jobs[work[t].job].status # "absent"
      BY <2>1, JobInHand
    <3> QED
      BY <1>0, <1>1, <3>1, JobsStay DEF Fits
  <2>2. CASE work[t].pc \notin InSend
    BY <1>0, <1>1, <2>2 DEF Fits
  <2> QED
    BY <2>1, <2>2
<1>2. CASE Produces
  <2> SUFFICES ASSUME NEW t \in Sessions PROVE Fits(t)'
    BY DEF PhasesFit, Fits
  <2>1. /\ work'[t].batch = work[t].batch /\ work'[t].job = work[t].job
        /\ work'[t].key = work[t].key /\ work'[t].held = work[t].held
        /\ \/ work'[t].pc = work[t].pc
           \/ work[t].pc = "idle" /\ work'[t].pc = "claim"
    BY <1>2 DEF Produces, HandsKept
  <2>2. CASE work[t].pc \in InSend
    <3>1. work[t].job \in Jobs /\ jobs[work[t].job].status # "absent"
      BY <2>2, JobInHand
    <3> QED
      BY <1>0, <2>1, <2>2, <3>1, JobsStay DEF Fits
  <2>3. CASE work[t].pc \notin InSend
    BY <1>0, <2>1, <2>3 DEF Fits
  <2> QED
    BY <2>2, <2>3
<1>3. ASSUME NEW s \in Sessions, Others(s), Fits(s)' PROVE PhasesFit'
  <2>1. \A t \in Sessions : Fits(t)'
    BY <1>1, <1>3 DEF Others
  <2> QED
    BY <2>1 DEF PhasesFit, Fits
<1>4. ASSUME NEW s \in Sessions, Claim(s) PROVE PhasesFit'
  <2>1. Fits(s)'
    BY <1>4, ClaimFacts, DeliveryAssumption DEF Fits, Due
  <2> QED
    BY <1>3, <1>4, <2>1, ClaimFacts
<1>5. ASSUME NEW s \in Sessions, NEW j \in Jobs, Load(s, j) PROVE PhasesFit'
  <2>1. jobs[j].status = "processing"
    BY <1>5, LoadFacts DEF QueueInv, OneHand, InHand
  <2>2. jobs[j].key \in 1..orders[jobs[j].order].key /\ jobs[j].key \in Nat
    BY <2>1 DEF QueueInv, JobsBelong, TypeOK, JobRow
  <2>3. orders[jobs[j].order].key \in Nat
    BY <2>1, DeliveryAssumption DEF QueueInv, JobsBelong, TypeOK, OrderRow
  <2>4. orders[jobs[j].order].key >= jobs[j].key
    BY <2>2, <2>3
  <2>5. Fits(s)'
    BY <1>5, <2>4, LoadFacts, DeliveryAssumption DEF Fits
  <2> QED
    BY <1>3, <1>5, <2>5, LoadFacts
<1>6. ASSUME NEW s \in Sessions, NEW j \in Jobs, LoadFails(s, j) PROVE PhasesFit'
  <2>1. Fits(s)'
    BY <1>6, LoadFailsFacts, DeliveryAssumption DEF Fits
  <2> QED
    BY <1>3, <1>6, <2>1, LoadFailsFacts
<1>7. ASSUME NEW s \in Sessions, Send(s) PROVE PhasesFit'
  <2>1. Fits(s)'
    BY <1>0, <1>7, SendFacts DEF Fits
  <2> QED
    BY <1>3, <1>7, <2>1, SendFacts
<1>8. ASSUME NEW s \in Sessions, MarkFails(s) PROVE PhasesFit'
  <2>1. Fits(s)'
    BY <1>0, <1>8, MarkFailsFacts DEF Fits
  <2> QED
    BY <1>3, <1>8, <2>1, MarkFailsFacts
<1>9. ASSUME NEW s \in Sessions, NEW status, Ends(s, status) PROVE PhasesFit'
  <2>1. Fits(s)'
    BY <1>0, <1>9, DeliveryAssumption DEF Fits, Ends
  <2> QED
    BY <1>3, <1>9, <2>1 DEF Ends
<1>10. ASSUME NEW s \in Sessions, MarkDelivered(s) \/ Fail(s) PROVE PhasesFit'
  BY <1>9, <1>10, MarkFacts, FailFacts
<1>11. ASSUME NEW s \in Sessions, Finish(s) \/ Crash(s) PROVE PhasesFit'
  <2>1. Fits(s)'
    BY <1>11, DropFacts DEF Fits, Idle
  <2> QED
    BY <1>3, <1>11, <2>1, DropFacts
<1>12. ASSUME NEW j \in Jobs, RetryDue(j) PROVE PhasesFit'
  <2>1. \A t \in Sessions : Fits(t)'
    BY <1>1, <1>12, RetryDueFacts
  <2> QED
    BY <2>1 DEF PhasesFit, Fits
<1> QED
  BY <1>2, <1>4, <1>5, <1>6, <1>7, <1>8, <1>10, <1>11, <1>12, StepCases

(* What is marked delivered has reached its buyer. *)
LEMMA DeliveredNext ==
    ASSUME QueueInv, Next
    PROVE  DeliveredReached'
<1> SUFFICES ASSUME NEW j \in Jobs, jobs'[j].status = "delivered"
             PROVE  \E k \in jobs'[j].key..MaxKeys : <<jobs'[j].order, k>> \in reached'
  BY DEF DeliveredReached
<1>1. CASE jobs[j].status = "delivered"
  BY <1>1, JobsStay DEF QueueInv, DeliveredReached
<1>2. ASSUME NEW s \in Sessions, MarkDelivered(s), work[s].job = j
      PROVE  \E k \in jobs'[j].key..MaxKeys : <<jobs'[j].order, k>> \in reached'
  <2>1. work[s].pc = "mark"
    BY <1>2 DEF MarkDelivered
  <2>2. /\ <<jobs[j].order, work[s].key>> \in reached /\ work[s].key >= jobs[j].key
        /\ work[s].key \in 0..MaxKeys /\ jobs[j].key \in 0..MaxKeys
    BY <1>2, <2>1 DEF QueueInv, PhasesFit, TypeOK, WorkRow, JobRow
  <2>3. jobs[j].status = "processing"
    BY <1>2, <2>1, JobInHand DEF InSend
  <2>4. jobs'[j].order = jobs[j].order /\ jobs'[j].key = jobs[j].key /\ reached \subseteq reached'
    BY <2>3, JobsStay
  <2>5. work[s].key \in jobs[j].key..MaxKeys
    BY <2>2, DeliveryAssumption
  <2> QED
    BY <2>2, <2>4, <2>5
<1> QED
  BY <1>1, <1>2, JobsStay

(* The sends of a job, and those of the jobs a session is still to send. *)
Counted(j) ==
    /\ jobs[j].status = "absent" => sends[j] = 0
    /\ jobs[j].status \in {"pending", "retry", "failed"} => sends[j] <= jobs[j].attempts
    /\ jobs[j].status = "processing" => sends[j] <= jobs[j].attempts + 1
    /\ jobs[j].status = "delivered" => sends[j] <= MaxAttempts

ToSend(s) ==
    /\ \A j \in work[s].batch : sends[j] <= jobs[j].attempts
    /\ work[s].pc = "send" => sends[work[s].job] <= jobs[work[s].job].attempts

(* A job's messages stay within its attempts, the one under way included.  *)
LEMMA SendsNext ==
    ASSUME QueueInv, Next
    PROVE  SendsAccounted'
<1> USE DeliveryAssumption
<1>0. /\ \A j \in Jobs : Counted(j) /\ sends[j] \in Nat /\ jobs[j].attempts \in Nat
      /\ \A t \in Sessions : ToSend(t) /\ work[t].batch \in SUBSET Jobs
  BY DEF QueueInv, SendsAccounted, Counted, ToSend, TypeOK, JobRow, WorkRow
<1>1. (\A j \in Jobs : Counted(j)') /\ (\A t \in Sessions : ToSend(t)') => SendsAccounted'
  BY DEF SendsAccounted, Counted, ToSend
<1>2. \A t \in Sessions : \A j \in InHand(t) : j \in Jobs /\ jobs[j].status = "processing"
  BY DEF QueueInv, OneHand, TypeOK, WorkRow, InHand
<1>3. \A t \in Sessions : /\ work[t].batch \subseteq InHand(t)
                          /\ work[t].pc \in InSend => work[t].job \in InHand(t)
  BY JobInHand DEF InHand
<1>4. CASE Produces
  <2>1. /\ sends' = sends
        /\ \A t \in Sessions : work'[t].batch = work[t].batch /\ work'[t].job = work[t].job
        /\ \A t \in Sessions : work'[t].pc = "send" => work[t].pc = "send"
    BY <1>4 DEF Produces, HandsKept
  <2>2. CASE jobs' = jobs
    <3>1. \A j \in Jobs : Counted(j)'
      BY <1>0, <2>1, <2>2 DEF Counted
    <3>2. \A t \in Sessions : ToSend(t)'
      BY <1>0, <2>1, <2>2 DEF ToSend
    <3> QED
      BY <1>1, <3>1, <3>2
  <2>3. ASSUME NEW o \in Orders, NEW k \in 1..MaxKeys, NEW j \in Jobs, NewJob(o, k, j)
        PROVE  SendsAccounted'
    <3>1. /\ jobs[j].status = "absent" /\ jobs'[j].status = "pending" /\ jobs'[j].attempts = 0
          /\ \A i \in Jobs \ {j} : jobs'[i] = jobs[i]
      BY <2>3 DEF NewJob
    <3>2. \A i \in Jobs : Counted(i)'
      BY <1>0, <2>1, <3>1 DEF Counted
    <3>3. \A t \in Sessions : j \notin InHand(t)
      BY <1>2, <3>1
    <3>4. ASSUME NEW t \in Sessions PROVE ToSend(t)'
      <4>1. \A i \in work[t].batch : jobs'[i] = jobs[i]
        BY <1>2, <1>3, <3>1, <3>3
      <4>2. work[t].pc = "send" => jobs'[work[t].job] = jobs[work[t].job]
        BY <1>2, <1>3, <3>1, <3>3 DEF InSend
      <4> QED
        BY <1>0, <2>1, <4>1, <4>2 DEF ToSend
    <3> QED
      BY <1>1, <3>2, <3>4
  <2> QED
    BY <1>4, <2>2, <2>3 DEF Produces, NoJobs
<1>5. ASSUME NEW s \in Sessions, Claim(s) PROVE SendsAccounted'
  <2>1. /\ sends' = sends /\ work'[s].batch \in SUBSET Due /\ work'[s].pc = "next"
        /\ \A t \in Sessions \ {s} : work'[t] = work[t]
        /\ \A j \in Jobs : /\ jobs'[j].attempts = jobs[j].attempts
                           /\ jobs'[j].status = IF j \in work'[s].batch THEN "processing"
                                                ELSE jobs[j].status
    BY <1>5, ClaimFacts DEF Others
  <2>2. \A j \in Jobs : Counted(j)'
    BY <1>0, <2>1 DEF Counted, Due
  <2>3. ASSUME NEW t \in Sessions \ {s} PROVE ToSend(t)'
    BY <1>0, <1>2, <1>3, <2>1 DEF ToSend, InSend
  <2>4. ToSend(s)'
    BY <1>0, <2>1 DEF ToSend, Counted, Due
  <2> QED
    BY <1>1, <2>2, <2>3, <2>4
<1>6. ASSUME NEW s \in Sessions, jobs' = jobs, sends' = sends, Others(s), ToSend(s)'
      PROVE  SendsAccounted'
  <2>1. \A j \in Jobs : Counted(j)'
    BY <1>0, <1>6 DEF Counted
  <2>2. \A t \in Sessions \ {s} : ToSend(t)'
    BY <1>0, <1>6 DEF ToSend, Others
  <2> QED
    BY <1>1, <1>6, <2>1, <2>2
<1>7. ASSUME NEW s \in Sessions, NEW j \in Jobs, Load(s, j) PROVE SendsAccounted'
  <2>1. ToSend(s)'
    BY <1>0, <1>7, LoadFacts DEF ToSend
  <2> QED
    BY <1>6, <1>7, <2>1, LoadFacts
<1>8. ASSUME NEW s \in Sessions, NEW j \in Jobs, LoadFails(s, j) PROVE SendsAccounted'
  <2>1. ToSend(s)'
    BY <1>0, <1>8, LoadFailsFacts DEF ToSend
  <2> QED
    BY <1>6, <1>8, <2>1, LoadFailsFacts
<1>9. ASSUME NEW s \in Sessions, Send(s) PROVE SendsAccounted'
  <2> DEFINE j == work[s].job
  <2>1. /\ Others(s) /\ jobs' = jobs /\ work[s].pc = "send" /\ j \in Jobs
        /\ work'[s].pc \in {"mark", "fail"} /\ work'[s].batch = work[s].batch
    BY <1>9, SendFacts
  <2>2. CASE sends' = sends
    <3>1. ToSend(s)'
      BY <1>0, <2>1, <2>2 DEF ToSend
    <3> QED
      BY <1>6, <2>1, <2>2, <3>1
  <2>3. CASE sends'[j] = sends[j] + 1 /\ \A i \in Jobs \ {j} : sends'[i] = sends[i]
    <3>1. /\ jobs[j].status = "processing" /\ sends[j] <= jobs[j].attempts
          /\ j \in InHand(s) /\ j \notin work[s].batch
      BY <1>0, <2>1, JobInHand DEF InSend, ToSend
    <3>2. \A i \in Jobs : Counted(i)'
      BY <1>0, <2>1, <2>3, <3>1 DEF Counted
    <3>3. ToSend(s)'
      BY <1>0, <2>1, <2>3, <3>1 DEF ToSend
    <3>4. ASSUME NEW t \in Sessions \ {s} PROVE ToSend(t)'
      <4>1. j \notin InHand(t) /\ work'[t] = work[t]
        BY <2>1, <3>1 DEF QueueInv, OneHand, Others
      <4>2. \A i \in work[t].batch : sends'[i] = sends[i]
        BY <1>0, <1>3, <2>3, <4>1
      <4>3. work[t].pc = "send" => sends'[work[t].job] = sends[work[t].job]
        BY <1>2, <1>3, <2>3, <4>1 DEF InSend
      <4> QED
        BY <1>0, <2>1, <4>1, <4>2, <4>3 DEF ToSend
    <3> QED
      BY <1>1, <3>2, <3>3, <3>4
  <2> QED
    BY <1>9, <2>2, <2>3, SendFacts
<1>10. ASSUME NEW s \in Sessions, MarkFails(s) PROVE SendsAccounted'
  <2>1. ToSend(s)'
    BY <1>0, <1>10, MarkFailsFacts DEF ToSend
  <2> QED
    BY <1>6, <1>10, <2>1, MarkFailsFacts
<1>11. ASSUME NEW s \in Sessions, NEW status, Ends(s, status), work[s].pc \in InSend,
              \/ status = "delivered"
              \/ /\ status \in {"failed", "retry"}
                 /\ jobs'[work[s].job].attempts = jobs[work[s].job].attempts + 1
       PROVE  SendsAccounted'
  <2> DEFINE j == work[s].job
  <2>1. /\ j \in Jobs /\ j \in InHand(s) /\ j \notin work[s].batch
        /\ jobs[j].status = "processing" /\ jobs[j].attempts < MaxAttempts
    BY <1>11, JobInHand
  <2>2. /\ sends' = sends /\ Others(s) /\ jobs'[j].status = status
        /\ \A i \in Jobs \ {j} : jobs'[i] = jobs[i]
        /\ work'[s].pc \in {"idle", "next"} /\ work'[s].batch \subseteq work[s].batch
    BY <1>11 DEF Ends
  <2>3. sends[j] <= jobs[j].attempts + 1 /\ jobs[j].attempts + 1 <= MaxAttempts
    BY <1>0, <2>1 DEF Counted
  <2>4. \A i \in Jobs : Counted(i)'
    BY <1>0, <1>11, <2>1, <2>2, <2>3 DEF Counted
  <2>5. ToSend(s)'
    BY <1>0, <2>1, <2>2 DEF ToSend
  <2>6. ASSUME NEW t \in Sessions \ {s} PROVE ToSend(t)'
    <3>1. j \notin InHand(t) /\ work'[t] = work[t]
      BY <2>1, <2>2 DEF QueueInv, OneHand, Others
    <3>2. \A i \in work[t].batch : jobs'[i] = jobs[i]
      BY <1>0, <1>3, <2>2, <3>1
    <3>3. work[t].pc = "send" => jobs'[work[t].job] = jobs[work[t].job]
      BY <1>2, <1>3, <2>2, <3>1 DEF InSend
    <3> QED
      BY <1>0, <2>2, <3>1, <3>2, <3>3 DEF ToSend
  <2> QED
    BY <1>1, <2>4, <2>5, <2>6
<1>12. ASSUME NEW s \in Sessions, MarkDelivered(s) PROVE SendsAccounted'
  BY <1>11, <1>12, MarkFacts DEF InSend
<1>13. ASSUME NEW s \in Sessions, Fail(s) PROVE SendsAccounted'
  BY <1>11, <1>13, FailFacts DEF InSend
<1>14. ASSUME NEW s \in Sessions, Finish(s) \/ Crash(s) PROVE SendsAccounted'
  <2>1. ToSend(s)'
    BY <1>14, DropFacts DEF ToSend, Idle
  <2> QED
    BY <1>6, <1>14, <2>1, DropFacts
<1>15. ASSUME NEW j \in Jobs, RetryDue(j) PROVE SendsAccounted'
  <2>1. /\ work' = work /\ sends' = sends
        /\ \A i \in Jobs : jobs'[i].status = jobs[i].status /\ jobs'[i].attempts = jobs[i].attempts
    BY <1>15, RetryDueFacts
  <2>2. \A i \in Jobs : Counted(i)'
    BY <1>0, <2>1 DEF Counted
  <2>3. \A t \in Sessions : ToSend(t)'
    BY <1>0, <1>2, <1>3, <2>1 DEF ToSend, InSend
  <2> QED
    BY <1>1, <2>2, <2>3
<1> QED
  BY <1>4, <1>5, <1>7, <1>8, <1>9, <1>10, <1>12, <1>13, <1>14, <1>15, StepCases

(* Who vouches for what an order shows. *)
Vouches(j, o) ==
    /\ jobs[j].order = o
    /\ jobs[j].status \in Active
    /\ \A s \in Sessions : Stale(s, o) => j \notin InHand(s)

EarnedAt(o) ==
    /\ orders[o].shown \in {"pending", "retry"} => \E j \in Jobs : Vouches(j, o)
    /\ orders[o].shown = "delivered" =>
          \E j \in Jobs : jobs[j].order = o /\ jobs[j].status = "delivered"

(* What an order shows stays backed by a job, stale objects or not.        *)
LEMMA EarnedNext ==
    ASSUME QueueInv, Next, OneHand'
    PROVE  Earned'
<1> USE DeliveryAssumption
<1>0. \A o \in Orders : EarnedAt(o)
  BY DEF QueueInv, Earned, EarnedAt, Vouches
<1> SUFFICES ASSUME NEW o \in Orders PROVE EarnedAt(o)'
  BY DEF Earned, EarnedAt, Vouches
<1>1. \A t \in Sessions : \A j \in InHand(t) : jobs[j].status = "processing"
  BY DEF QueueInv, OneHand
<1>2. \A t \in Sessions : \A j \in InHand(t)' : jobs'[j].status = "processing"
  BY DEF OneHand
<1>3. NothingHeld.order # o
  BY DEF NothingHeld
(* Hands and objects in hand as they were, or dropped. *)
<1>4. ASSUME orders'[o].shown = orders[o].shown,
             \A j \in Jobs : jobs[j].status \in Active => /\ jobs'[j].status \in Active
                                                          /\ jobs'[j].order = jobs[j].order,
             \A j \in Jobs : jobs[j].status = "delivered" => /\ jobs'[j].status = "delivered"
                                                             /\ jobs'[j].order = jobs[j].order,
             \A t \in Sessions : \/ InHand(t)' \subseteq InHand(t) /\ work'[t].held = work[t].held
                                 \/ ~ Stale(t, o)'
      PROVE  EarnedAt(o)'
  <2>1. ASSUME NEW j \in Jobs, Vouches(j, o) PROVE Vouches(j, o)'
    <3>1. \A t \in Sessions : Stale(t, o)' => Stale(t, o) /\ InHand(t)' \subseteq InHand(t)
      BY <1>4 DEF Stale
    <3> QED
      BY <1>4, <2>1, <3>1 DEF Vouches
  <2> QED
    BY <1>0, <1>4, <2>1 DEF EarnedAt
<1>5. CASE Produces
  <2>1. \A t \in Sessions : InHand(t)' = InHand(t) /\ work'[t].held = work[t].held
    BY <1>5 DEF Produces, HandsKept, InHand
  <2>2. CASE NoJobs
    BY <1>4, <2>1, <2>2 DEF NoJobs
  <2>3. ASSUME NEW p \in Orders, NEW k \in 1..MaxKeys, NEW j \in Jobs, NewJob(p, k, j)
        PROVE  EarnedAt(o)'
    <3>1. /\ jobs[j].status = "absent" /\ jobs'[j].status = "pending" /\ jobs'[j].order = p
          /\ \A i \in Jobs \ {j} : jobs'[i] = jobs[i]
          /\ orders'[p].shown = "pending" /\ \A q \in Orders \ {p} : orders'[q] = orders[q]
      BY <2>3 DEF NewJob
    <3>2. CASE o = p
      <4>1. \A t \in Sessions : j \notin InHand(t)'
        BY <1>2, <3>1
      <4>2. Vouches(j, o)'
        BY <3>1, <3>2, <4>1 DEF Vouches, Active
      <4> QED
        BY <3>1, <3>2, <4>2 DEF EarnedAt
    <3>3. CASE o # p
      <4>1. \A i \in Jobs : jobs[i].status # "absent" => jobs'[i] = jobs[i]
        BY <3>1
      <4> QED
        BY <1>4, <2>1, <3>1, <3>3, <4>1 DEF Active
    <3> QED
      BY <3>2, <3>3
  <2> QED
    BY <1>5, <2>2, <2>3 DEF Produces
<1>6. ASSUME NEW s \in Sessions, Others(s)
      PROVE  \A t \in Sessions \ {s} : InHand(t)' = InHand(t) /\ work'[t].held = work[t].held
  BY <1>6 DEF Others, InHand
<1>7. ASSUME NEW s \in Sessions, Others(s), orders' = orders, jobs' = jobs,
             \/ InHand(s)' = InHand(s) /\ work'[s].held = work[s].held
             \/ ~ Stale(s, o)'
      PROVE  EarnedAt(o)'
  BY <1>4, <1>6, <1>7 DEF Active
<1>8. ASSUME NEW s \in Sessions, Claim(s) PROVE EarnedAt(o)'
  <2>1. /\ Others(s) /\ orders' = orders /\ work'[s].held = NothingHeld
        /\ work'[s].batch \in SUBSET Due
        /\ \A j \in Jobs : /\ jobs'[j].order = jobs[j].order
                           /\ jobs'[j].status = IF j \in work'[s].batch THEN "processing"
                                                ELSE jobs[j].status
    BY <1>8, ClaimFacts
  <2>2. ~ Stale(s, o)'
    BY <1>3, <2>1 DEF Stale
  <2>3. \A j \in Jobs : /\ jobs[j].status \in Active => jobs'[j].status \in Active
                        /\ jobs[j].status = "delivered" => jobs'[j].status = "delivered"
    BY <2>1 DEF Active, Due
  <2> QED
    BY <1>4, <1>6, <2>1, <2>2, <2>3
<1>9. ASSUME NEW s \in Sessions, NEW j \in Jobs, Load(s, j) PROVE EarnedAt(o)'
  <2>1. InHand(s)' = InHand(s)
    BY <1>9, LoadFacts DEF InHand
  <2>2. work'[s].held = work[s].held \/ ~ Stale(s, o)'
    <3>1. work'[s].held = Held(s, jobs[j].order) /\ orders' = orders
      BY <1>9, LoadFacts
    <3>2. CASE work[s].held.order = jobs[j].order
      BY <3>1, <3>2 DEF Held
    <3>3. CASE work[s].held.order # jobs[j].order
      <4>1. /\ work'[s].held.order = jobs[j].order
            /\ work'[s].held.shown = orders[jobs[j].order].shown
        BY <3>1, <3>3 DEF Held
      <4> QED
        BY <3>1, <4>1 DEF Stale
    <3> QED
      BY <3>2, <3>3
  <2> QED
    BY <1>7, <1>9, <2>1, <2>2, LoadFacts
<1>10. ASSUME NEW s \in Sessions, NEW j \in Jobs, LoadFails(s, j) PROVE EarnedAt(o)'
  BY <1>3, <1>7, <1>10, LoadFailsFacts DEF Stale
<1>11. ASSUME NEW s \in Sessions, Send(s) PROVE EarnedAt(o)'
  <2>1. InHand(s)' = InHand(s)
    BY <1>11, SendFacts DEF InHand
  <2> QED
    BY <1>7, <1>11, <2>1, SendFacts
<1>12. ASSUME NEW s \in Sessions, MarkFails(s) PROVE EarnedAt(o)'
  BY <1>3, <1>7, <1>12, MarkFailsFacts DEF Stale
<1>13. ASSUME NEW s \in Sessions, NEW status \in {"delivered", "failed", "retry"},
              Ends(s, status), work[s].pc \in InSend
       PROVE  EarnedAt(o)'
  <2>0. PICK j \in Jobs, p \in Orders : j = work[s].job /\ p = jobs[j].order
    BY <1>13, JobInHand
  <2>1. j \in InHand(s) /\ jobs[j].status = "processing"
    BY <1>13, <2>0, JobInHand
  <2>2. /\ Others(s) /\ jobs'[j].status = status /\ jobs'[j].order = p
        /\ \A i \in Jobs \ {j} : jobs'[i] = jobs[i]
        /\ \A q \in Orders \ {p} : orders'[q] = orders[q]
        /\ ShownAs(s, p, status)
        /\ work'[s].held = NothingHeld \/ work'[s].held.order = p
    BY <1>13, <2>0 DEF Ends
  <2>3. InHand(s)' \subseteq InHand(s)
    BY <1>13 DEF Ends, InHand
  <2>4. \A t \in Sessions \ {s} : InHand(t)' = InHand(t) /\ work'[t].held = work[t].held
    BY <1>6, <2>2
  <2>5. CASE o # p
    <3>1. ~ Stale(s, o)'
      BY <1>3, <2>2, <2>5 DEF Stale
    <3>2. ASSUME NEW i \in Jobs, Vouches(i, o) PROVE Vouches(i, o)'
      <4>1. i # j
        BY <2>0, <2>5, <3>2 DEF Vouches
      <4>2. \A t \in Sessions : Stale(t, o)' => Stale(t, o) /\ InHand(t)' = InHand(t)
        BY <2>2, <2>4, <2>5, <3>1 DEF Stale
      <4> QED
        BY <2>2, <3>2, <4>1, <4>2 DEF Vouches
    <3>3. \A i \in Jobs : jobs[i].status = "delivered" => jobs'[i] = jobs[i]
      BY <2>1, <2>2
    <3>4. orders'[o] = orders[o]
      BY <2>2, <2>5
    <3> QED
      BY <1>0, <3>2, <3>3, <3>4 DEF EarnedAt
  <2>6. CASE o = p /\ orders'[o].shown = status
    <3>1. ASSUME status = "retry" PROVE Vouches(j, o)'
      <4>1. jobs'[j].order = o /\ jobs'[j].status = "retry"
        BY <2>2, <2>6, <3>1
      <4>2. \A t \in Sessions : j \notin InHand(t)'
        BY <1>2, <4>1
      <4> QED
        BY <4>1, <4>2 DEF Vouches, Active
    <3>2. status = "delivered" => jobs'[j].order = o /\ jobs'[j].status = "delivered"
      BY <2>2, <2>6
    <3>3. j \in Jobs /\ orders'[o].shown = status
      BY <2>1, <2>6
    <3> QED
      BY <3>1, <3>2, <3>3 DEF EarnedAt
  <2>7. CASE o = p /\ orders'[o].shown # status
    <3>1. Held(s, o).shown = status /\ orders'[o] = orders[o]
      BY <2>2, <2>7 DEF ShownAs
    <3>2. Stale(s, o)
      BY <2>7, <3>1 DEF Held, Stale
    <3>3. ASSUME NEW i \in Jobs, Vouches(i, o) PROVE Vouches(i, o)'
      <4>1. i \notin InHand(s)
        BY <3>2, <3>3 DEF Vouches
      <4>2. \A t \in Sessions : Stale(t, o)' => i \notin InHand(t)'
        BY <2>3, <2>4, <3>1, <3>3, <4>1 DEF Vouches, Stale
      <4> QED
        BY <2>1, <2>2, <3>3, <4>1, <4>2 DEF Vouches
    <3>4. \A i \in Jobs : jobs[i].status = "delivered" => jobs'[i] = jobs[i]
      BY <2>1, <2>2
    <3> QED
      BY <1>0, <3>1, <3>3, <3>4 DEF EarnedAt
  <2> QED
    BY <2>5, <2>6, <2>7
<1>14. ASSUME NEW s \in Sessions, MarkDelivered(s) \/ Fail(s) PROVE EarnedAt(o)'
  BY <1>13, <1>14, MarkFacts, FailFacts DEF InSend
<1>15. ASSUME NEW s \in Sessions, Finish(s) \/ Crash(s) PROVE EarnedAt(o)'
  BY <1>3, <1>7, <1>15, DropFacts DEF Stale, Idle
<1>16. ASSUME NEW j \in Jobs, RetryDue(j) PROVE EarnedAt(o)'
  <2>1. \A t \in Sessions : InHand(t)' = InHand(t) /\ work'[t].held = work[t].held
    BY <1>16, RetryDueFacts DEF InHand
  <2> QED
    BY <1>4, <1>16, <2>1, RetryDueFacts
<1> QED
  BY <1>5, <1>8, <1>9, <1>10, <1>11, <1>12, <1>14, <1>15, <1>16, StepCases

(* The invariant is inductive.                                             *)
LEMMA QueueNext ==
    ASSUME QueueInv, [Next]_vars
    PROVE  QueueInv'
<1>1. CASE Next
  BY <1>1, TypeNext, OneHandNext, BelongNext, PhasesNext, SendsNext, DeliveredNext, EarnedNext
     DEF QueueInv
<1>2. CASE UNCHANGED vars
  BY <1>2 DEF vars, QueueInv, TypeOK, OneHand, InHand, JobsBelong, KeysAreIssued, PhasesFit,
     SendsAccounted, DeliveredReached, Earned, Stale
<1> QED
  BY <1>1, <1>2

(***************************************************************************)
(* Theorems                                                                *)
(***************************************************************************)

(* The invariant holds in every reachable state. *)
THEOREM QueueInvariant == Spec => []QueueInv
<1>1. Init => QueueInv
  BY QueueInit
<1>2. QueueInv /\ [Next]_vars => QueueInv'
  BY QueueNext
<1> QED
  BY <1>1, <1>2, PTL DEF Spec

(* Every column and local variable has its type; in particular no job is   *)
(* attempted more often than delivery_max_attempts.                        *)
THEOREM DeliveryTypeCorrect == Spec => []TypeOK
<1>1. QueueInv => TypeOK
  BY DEF QueueInv
<1> QED
  BY <1>1, QueueInvariant, PTL

(* A claimed job is in one session's hands only, whatever the sessions of  *)
(* the loop and of the operators do and wherever they stop.                *)
THEOREM ClaimedByOne == Spec => []OneHand
<1>1. QueueInv => OneHand
  BY DEF QueueInv
<1> QED
  BY <1>1, QueueInvariant, PTL

(* No job's message is sent more often than delivery_max_attempts, and     *)
(* every message is an attempt, the one being made or one counted.         *)
THEOREM SendsLimited == Spec => []SendsAreLimited
<1>1. QueueInv => SendsAreLimited
  <2> SUFFICES ASSUME QueueInv, NEW j \in Jobs
               PROVE  /\ sends[j] <= MaxAttempts
                      /\ jobs[j].status \in {"pending", "retry", "failed"} =>
                            sends[j] <= jobs[j].attempts
    BY DEF SendsAreLimited
  <2>1. /\ sends[j] \in Nat /\ jobs[j].attempts \in 0..MaxAttempts
        /\ jobs[j].status \in {"absent", "pending", "processing", "delivered", "retry", "failed"}
    BY DEF QueueInv, TypeOK, JobRow, DeliveryJobStatus
  <2>2. jobs[j].status \in {"pending", "retry", "processing"} => jobs[j].attempts < MaxAttempts
    BY DEF QueueInv, JobsBelong, Active
  <2>3. Counted(j)
    BY DEF QueueInv, SendsAccounted, Counted
  <2> QED
    BY <2>1, <2>2, <2>3, DeliveryAssumption DEF Counted
<1> QED
  BY <1>1, QueueInvariant, PTL

(* A job marked delivered has put its key, or one that replaced it, into   *)
(* the buyer's hands.                                                      *)
THEOREM DeliveredHasReached == Spec => []DeliveredReached
<1>1. QueueInv => DeliveredReached
  BY DEF QueueInv
<1> QED
  BY <1>1, QueueInvariant, PTL

(* No order is shown as pending or to be retried without an unfinished     *)
(* job, or as delivered without a delivered one, although sessions decide  *)
(* on objects they loaded earlier.                                         *)
THEOREM ShownHasBeenEarned == Spec => []ShownIsEarned
<1>1. QueueInv => ShownIsEarned
  <2> SUFFICES ASSUME QueueInv, NEW o \in Orders
               PROVE  LET statuses == {jobs[j].status : j \in {i \in Jobs : jobs[i].order = o}}
                      IN  /\ orders[o].shown \in {"pending", "retry"} =>
                                statuses \cap {"pending", "processing", "retry"} # {}
                          /\ orders[o].shown = "delivered" => "delivered" \in statuses
    BY DEF ShownIsEarned
  <2>1. EarnedAt(o)
    BY DEF QueueInv, Earned, EarnedAt, Vouches
  <2> QED
    BY <2>1 DEF EarnedAt, Vouches, Active
<1> QED
  BY <1>1, QueueInvariant, PTL

(* A job that was delivered or given up is never touched again. *)
THEOREM FinalStaysFinal == Spec => FinalIsFinal
<1>1. QueueInv /\ [Next]_vars =>
        [\A j \in Jobs : jobs[j].status \in {"delivered", "failed"} => jobs'[j] = jobs[j]]_vars
  <2> SUFFICES ASSUME QueueInv, Next, NEW j \in Jobs, jobs[j].status \in {"delivered", "failed"}
               PROVE  jobs'[j] = jobs[j]
    OBVIOUS
  <2>1. CASE Produces
    BY <2>1 DEF Produces, NoJobs, NewJob
  <2>2. ASSUME NEW s \in Sessions, Claim(s) PROVE jobs'[j] = jobs[j]
    BY <2>2 DEF Claim, Claimed, Batches, Due
  <2>3. ASSUME NEW s \in Sessions, MarkDelivered(s) \/ Fail(s) PROVE jobs'[j] = jobs[j]
    <3>1. jobs[work[s].job].status = "processing"
      BY <2>3, JobInHand DEF MarkDelivered, Fail, InSend
    <3>2. PICK status : Ends(s, status)
      BY <2>3, MarkFacts, FailFacts
    <3> QED
      BY <3>1, <3>2 DEF Ends
  <2>4. ASSUME NEW s \in Sessions,
               \/ \E i \in Jobs : Load(s, i) \/ LoadFails(s, i)
               \/ Send(s) \/ MarkFails(s) \/ Finish(s) \/ Crash(s)
        PROVE  jobs' = jobs
    BY <2>4, LoadFacts, LoadFailsFacts, SendFacts, MarkFailsFacts, DropFacts
  <2>5. ASSUME NEW i \in Jobs, RetryDue(i) PROVE jobs'[j] = jobs[j]
    BY <2>5 DEF RetryDue, QueueInv, TypeOK
  <2> QED
    BY <2>1, <2>2, <2>3, <2>4, <2>5, StepCases
<1> QED
  BY <1>1, QueueInvariant, PTL DEF Spec, FinalIsFinal

(***************************************************************************)
(* Who leaves jobs in processing                                           *)
(***************************************************************************)

(* What OnlyStopsStrand says of a step: how a job lost its session.        *)
Stranding(j) ==
    \E s \in Sessions :
        /\ j \in InHand(s)
        /\ Crash(s) \/ (Fail(s) /\ work[s].expired /\ j # work[s].job)

(* A failed job leaves the session; the rest of the batch stays with it    *)
(* unless a rollback had expired it.                                       *)
LEMMA FailKeepsBatch ==
    ASSUME QueueInv, NEW s \in Sessions, Fail(s), ~ work[s].expired
    PROVE  work'[s].batch = work[s].batch
<1>1. work \in [Sessions -> WorkRow]
  BY DEF QueueInv, TypeOK
<1> QED
  BY <1>1 DEF Fail, WorkRow

(* Every other step leaves a job in the hands it was in, or ends it.       *)
LEMMA StrandingStep ==
    ASSUME QueueInv, Next, NEW j \in Jobs, ~ Abandoned(j), Abandoned(j)'
    PROVE  Stranding(j)
<1>1. jobs'[j].status = "processing" /\ \A s \in Sessions : j \notin InHand(s)'
  BY DEF Abandoned
<1>2. jobs[j].status = "processing" => \E s \in Sessions : j \in InHand(s)
  BY DEF Abandoned
<1>3. CASE Produces
  <2>1. \A t \in Sessions : InHand(t)' = InHand(t)
    BY <1>3 DEF Produces, HandsKept, InHand
  <2>2. jobs[j].status = "processing"
    BY <1>1, <1>3 DEF Produces, NoJobs, NewJob
  <2> QED
    BY <1>1, <1>2, <2>1, <2>2
<1>4. ASSUME NEW s \in Sessions, Claim(s) PROVE FALSE
  <2>1. /\ Others(s) /\ work[s].job = NoJob /\ work[s].batch = {}
        /\ jobs'[j].status = IF j \in work'[s].batch THEN "processing" ELSE jobs[j].status
    BY <1>4, ClaimFacts
  <2>2. j \notin work'[s].batch
    BY <1>1 DEF InHand
  <2>3. PICK t \in Sessions : j \in InHand(t)
    BY <1>1, <1>2, <2>1, <2>2
  <2>4. t # s
    BY <2>1, <2>3 DEF InHand
  <2> QED
    BY <1>1, <2>1, <2>3, <2>4 DEF InHand, Others
<1>5. ASSUME NEW s \in Sessions, jobs' = jobs, Others(s), InHand(s)' = InHand(s)
      PROVE  FALSE
  BY <1>1, <1>2, <1>5 DEF Others, InHand
<1>6. ASSUME NEW s \in Sessions, NEW i \in Jobs, Load(s, i) \/ LoadFails(s, i)
      PROVE  FALSE
  <2>1. InHand(s)' = InHand(s)
    BY <1>6, LoadFacts, LoadFailsFacts, DeliveryAssumption DEF InHand
  <2> QED
    BY <1>5, <1>6, <2>1, LoadFacts, LoadFailsFacts
<1>7. ASSUME NEW s \in Sessions, Send(s) \/ MarkFails(s) PROVE FALSE
  <2>1. InHand(s)' = InHand(s)
    BY <1>7, SendFacts, MarkFailsFacts DEF InHand
  <2> QED
    BY <1>5, <1>7, <2>1, SendFacts, MarkFailsFacts
<1>8. ASSUME NEW s \in Sessions, NEW status \in {"delivered", "failed", "retry"},
             Ends(s, status), work[s].pc \in InSend
      PROVE  j \in InHand(s) /\ j # work[s].job /\ work'[s].batch # work[s].batch
  <2>1. /\ work[s].job \in Jobs
        /\ jobs'[work[s].job].status # "processing"
        /\ \A i \in Jobs \ {work[s].job} : jobs'[i] = jobs[i]
    BY <1>8, JobInHand DEF Ends
  <2>2. j # work[s].job /\ jobs[j].status = "processing"
    BY <1>1, <2>1
  <2>3. PICK t \in Sessions : j \in InHand(t)
    BY <1>2, <2>2
  <2>4. t = s
    BY <1>1, <1>8, <2>3 DEF Ends, Others, InHand
  <2>5. j \in work[s].batch /\ j \notin work'[s].batch
    BY <1>1, <2>2, <2>3, <2>4 DEF InHand
  <2> QED
    BY <2>2, <2>3, <2>4, <2>5
<1>9. ASSUME NEW s \in Sessions, MarkDelivered(s) PROVE FALSE
  <2>1. Ends(s, "delivered") /\ work[s].pc \in InSend
    BY <1>9, MarkFacts DEF InSend
  <2>2. work'[s].batch = work[s].batch
    BY <1>9 DEF MarkDelivered, QueueInv, TypeOK, WorkRow
  <2> QED
    BY <1>8, <2>1, <2>2
<1>10. ASSUME NEW s \in Sessions, Fail(s) PROVE Stranding(j)
  <2>1. PICK status \in {"failed", "retry"} : Ends(s, status)
    BY <1>10, FailFacts
  <2>2. work[s].pc \in InSend
    BY <1>10, FailFacts DEF InSend
  <2>3. j \in InHand(s) /\ j # work[s].job /\ work'[s].batch # work[s].batch
    BY <1>8, <2>1, <2>2
  <2>4. work[s].expired
    BY <1>10, <2>3, FailKeepsBatch DEF QueueInv, TypeOK, WorkRow
  <2> QED
    BY <1>10, <2>3, <2>4 DEF Stranding
<1>11. ASSUME NEW s \in Sessions, Finish(s) PROVE FALSE
  <2>1. work[s].job = NoJob /\ work[s].batch = {}
    BY <1>11 DEF Finish, QueueInv, PhasesFit, InSend
  <2>2. InHand(s)' = InHand(s)
    BY <1>11, <2>1, DropFacts DEF InHand, Idle
  <2> QED
    BY <1>5, <1>11, <2>2, DropFacts
<1>12. ASSUME NEW s \in Sessions, Crash(s) PROVE Stranding(j)
  <2>1. PICK t \in Sessions : j \in InHand(t)
    BY <1>1, <1>2, <1>12, DropFacts
  <2>2. t = s
    BY <1>1, <1>12, <2>1, DropFacts DEF Others, InHand
  <2> QED
    BY <1>12, <2>1, <2>2 DEF Stranding
<1>13. ASSUME NEW i \in Jobs, RetryDue(i) PROVE FALSE
  <2>1. \A t \in Sessions : InHand(t)' = InHand(t)
    BY <1>13, RetryDueFacts DEF InHand
  <2> QED
    BY <1>1, <1>2, <1>13, <2>1, RetryDueFacts
<1> QED
  BY <1>3, <1>4, <1>6, <1>7, <1>9, <1>10, <1>11, <1>12, <1>13, StepCases

(* However many sessions, jobs and faults there are, and whatever the      *)
(* limit of a batch: a claimed job loses its session only to a stop, or to *)
(* a rollback while another job of its batch was handled.                  *)
THEOREM StrandedByStopsOnly == Spec => OnlyStopsStrand
<1>1. QueueInv /\ [Next]_vars =>
        [\A j \in Jobs : ~ Abandoned(j) /\ Abandoned(j)' => Stranding(j)]_vars
  BY StrandingStep
<1> QED
  BY <1>1, QueueInvariant, PTL DEF Spec, OnlyStopsStrand, Stranding

(* Where only the messenger fails, no transaction is rolled back.          *)
NoRollback == \A s \in Sessions : ~ work[s].expired

(* Therefore no step strands a job.                                        *)
LEMMA NothingStranded ==
    ASSUME Faults \subseteq {"unsent", "sent"}, QueueInv, [Next]_vars,
           NoRollback, ProcessingIsInHand
    PROVE  (NoRollback /\ ProcessingIsInHand)'
<1>1. work \in [Sessions -> WorkRow] /\ ~ Idle.expired
  BY DEF QueueInv, TypeOK, Idle
<1>2. NoRollback'
  <2>1. CASE UNCHANGED vars
    BY <2>1 DEF vars, NoRollback
  <2>2. ASSUME NEW s \in Sessions, NEW row, work' = [work EXCEPT ![s] = row], ~ row.expired
        PROVE  NoRollback'
    BY <1>1, <2>2 DEF NoRollback
  <2>3. ASSUME NEW o \in Orders, Issue(o) \/ Resend(o) \/ Refund(o) PROVE NoRollback'
    BY <2>3 DEF Issue, Resend, Refund, NoRollback
  <2>4. ASSUME NEW s \in Handlers, NEW o \in Orders, Confirm(s, o) \/ Replace(s, o)
        PROVE  NoRollback'
    <3>1. s \in Sessions /\ work' = [work EXCEPT ![s].pc = "claim"]
      BY <2>4 DEF Confirm, Replace, Sessions
    <3> QED
      BY <1>1, <3>1 DEF NoRollback, WorkRow
  <2>5. ASSUME NEW s \in Sessions, Process(s) \/ Crash(s) PROVE NoRollback'
    <3>1. CASE Finish(s) \/ Crash(s)
      BY <1>1, <2>2, <3>1 DEF Finish, Crash
    <3>2. CASE Claim(s)
      BY <1>1, <3>2 DEF Claim, NoRollback, WorkRow
    <3>3. CASE \E j \in Jobs : Load(s, j) \/ LoadFails(s, j)
      <4>1. PICK j \in Jobs : Load(s, j)
        BY <3>3 DEF LoadFails
      <4> DEFINE row == [work[s] EXCEPT !.pc = "send", !.job = j, !.batch = work[s].batch \ {j},
                                        !.key = orders[jobs[j].order].key,
                                        !.held = Held(s, jobs[j].order)]
      <4>2. work' = [work EXCEPT ![s] = row]
        BY <4>1 DEF Load
      <4>3. ~ row.expired
        BY <1>1 DEF NoRollback, WorkRow
      <4> HIDE DEF row
      <4> QED
        BY <2>2, <4>2, <4>3
    <3>4. CASE Send(s)
      BY <1>1, <3>4 DEF Send, NoRollback, WorkRow
    <3>5. CASE MarkDelivered(s) \/ MarkFails(s)
      <4>1. MarkDelivered(s)
        BY <3>5 DEF MarkFails
      <4> DEFINE row == [work[s] EXCEPT !.pc = "next", !.job = NoJob, !.key = 0,
                                        !.held = [order |-> jobs[work[s].job].order,
                                                  shown |-> "delivered"]]
      <4>2. work' = [work EXCEPT ![s] = row]
        BY <4>1 DEF MarkDelivered
      <4>3. ~ row.expired
        BY <1>1 DEF NoRollback, WorkRow
      <4> HIDE DEF row
      <4> QED
        BY <2>2, <4>2, <4>3
    <3>6. CASE Fail(s)
      BY <1>1, <3>6 DEF Fail, NoRollback, WorkRow
    <3> QED
      BY <2>5, <3>1, <3>2, <3>3, <3>4, <3>5, <3>6 DEF Process
  <2>6. ASSUME NEW j \in Jobs, RetryDue(j) PROVE NoRollback'
    BY <2>6 DEF RetryDue, NoRollback
  <2> QED
    BY <2>1, <2>3, <2>4, <2>5, <2>6 DEF Next
<1>3. \A j \in Jobs : ~ Stranding(j)
  BY DEF Stranding, Crash, NoRollback
<1>4. ProcessingIsInHand'
  <2>1. CASE UNCHANGED vars
    BY <2>1 DEF vars, ProcessingIsInHand, Abandoned, InHand
  <2>2. CASE Next
    BY <1>3, <2>2, StrandingStep DEF ProcessingIsInHand
  <2> QED
    BY <2>1, <2>2
<1> QED
  BY <1>2, <1>4

(* With batches of any size: as long as the process does not stop, keys    *)
(* can be read and commits succeed, a job in processing is in the hands of *)
(* a session, whatever becomes of the messages.                            *)
THEOREM ProcessingInHand ==
    ASSUME Faults \subseteq {"unsent", "sent"}
    PROVE  Spec => []ProcessingIsInHand
<1>1. Init => NoRollback /\ ProcessingIsInHand
  BY DEF Init, Idle, AbsentJob, NoRollback, ProcessingIsInHand, Abandoned
<1>2. QueueInv /\ [Next]_vars /\ (NoRollback /\ ProcessingIsInHand)
        => (NoRollback /\ ProcessingIsInHand)'
  BY NothingStranded
<1> QED
  BY <1>1, <1>2, QueueInvariant, PTL DEF Spec

(***************************************************************************)
(* The sessions keep the promise of the queue                              *)
(***************************************************************************)

(* What the refinement needs beyond QueueInv: a job that was never queued  *)
(* is blank, a failure is permanent only where keys may be unreadable, and *)
(* a session that marks a job as delivered has sent for it.                *)
PromiseInv ==
    /\ \A j \in Jobs : jobs[j].status = "absent" =>
          jobs[j].order = NoOrder /\ jobs[j].key = 0 /\ jobs[j].attempts = 0
    /\ \A s \in Sessions : work[s].permanent => "key" \in Faults
    /\ \A s \in Sessions : work[s].pc = "mark" => sends[work[s].job] > 0

(* A job that is still absent after a step has not been touched.           *)
LEMMA AbsentStays ==
    ASSUME QueueInv, Next, NEW j \in Jobs, jobs'[j].status = "absent"
    PROVE  jobs[j].status = "absent" /\ jobs'[j].order = jobs[j].order
           /\ jobs'[j].key = jobs[j].key /\ jobs'[j].attempts = jobs[j].attempts
<1>1. CASE Produces
  BY <1>1 DEF Produces, NoJobs, NewJob
<1>2. ASSUME NEW s \in Sessions, Claim(s)
      PROVE  /\ jobs[j].status = "absent" /\ jobs'[j].order = jobs[j].order
             /\ jobs'[j].key = jobs[j].key /\ jobs'[j].attempts = jobs[j].attempts
  BY <1>2, ClaimFacts
<1>3. ASSUME NEW s \in Sessions, MarkDelivered(s) \/ Fail(s) PROVE jobs'[j] = jobs[j]
  <2>1. PICK status \in {"delivered", "failed", "retry"} : Ends(s, status)
    BY <1>3, MarkFacts, FailFacts
  <2> QED
    BY <2>1 DEF Ends
<1>4. ASSUME NEW s \in Sessions,
             \/ \E i \in Jobs : Load(s, i) \/ LoadFails(s, i)
             \/ Send(s) \/ MarkFails(s) \/ Finish(s) \/ Crash(s)
      PROVE  jobs' = jobs
  BY <1>4, LoadFacts, LoadFailsFacts, SendFacts, MarkFailsFacts, DropFacts
<1>5. ASSUME NEW i \in Jobs, RetryDue(i)
      PROVE  /\ jobs'[j].status = jobs[j].status /\ jobs'[j].order = jobs[j].order
             /\ jobs'[j].key = jobs[j].key /\ jobs'[j].attempts = jobs[j].attempts
  BY <1>5, RetryDueFacts
<1> QED
  BY <1>1, <1>2, <1>3, <1>4, <1>5, StepCases

(* A session takes a failure for permanent only when a key was unreadable. *)
LEMMA PermanentIsRot ==
    ASSUME QueueInv, PromiseInv, Next, NEW s \in Sessions, work'[s].permanent
    PROVE  "key" \in Faults
<1> SUFFICES ASSUME "key" \notin Faults PROVE FALSE
  OBVIOUS
<1>0. ~ work[s].permanent /\ work \in [Sessions -> WorkRow] /\ ~ Idle.permanent
  BY DEF PromiseInv, QueueInv, TypeOK, Idle
<1>1. work'[s] # work[s] /\ work'[s] # Idle /\ work' # work
  BY <1>0
<1>2. ASSUME NEW o \in Orders, Issue(o) \/ Resend(o) \/ Refund(o) PROVE FALSE
  BY <1>1, <1>2 DEF Issue, Resend, Refund
<1>3. ASSUME NEW t \in Sessions, work' = [work EXCEPT ![t].pc = "claim"] PROVE FALSE
  BY <1>0, <1>3 DEF WorkRow
<1>4. ASSUME NEW t \in Handlers, NEW o \in Orders, Confirm(t, o) \/ Replace(t, o) PROVE FALSE
  BY <1>3, <1>4 DEF Confirm, Replace, Sessions
<1>5. ASSUME NEW t \in Sessions, Claim(t) PROVE FALSE
  BY <1>0, <1>5 DEF Claim, WorkRow
<1>6. ASSUME NEW t \in Sessions, NEW j \in Jobs, Load(t, j) PROVE FALSE
  BY <1>0, <1>6 DEF Load, WorkRow
<1>7. ASSUME NEW t \in Sessions, NEW j \in Jobs, LoadFails(t, j) PROVE FALSE
  <2>1. work' = [work EXCEPT ![t] = [@ EXCEPT !.pc = "fail", !.job = j, !.batch = work[t].batch \ {j},
                                              !.held = NothingHeld, !.expired = TRUE,
                                              !.permanent = FALSE]]
    BY <1>7 DEF LoadFails
  <2> QED
    BY <1>0, <2>1 DEF WorkRow
<1>8. ASSUME NEW t \in Sessions, Send(t) PROVE FALSE
  BY <1>0, <1>8 DEF Send, WorkRow
<1>9. ASSUME NEW t \in Sessions, MarkDelivered(t) \/ MarkFails(t) PROVE FALSE
  <2>1. PICK held :
          \/ work' = [work EXCEPT ![t] = [@ EXCEPT !.pc = "next", !.job = NoJob, !.key = 0,
                                                  !.held = held]]
          \/ work' = [work EXCEPT ![t] = [@ EXCEPT !.pc = "fail", !.held = NothingHeld,
                                                  !.expired = TRUE]]
    BY <1>9 DEF MarkDelivered, MarkFails
  <2>2. CASE work' = [work EXCEPT ![t] = [@ EXCEPT !.pc = "next", !.job = NoJob, !.key = 0,
                                                   !.held = held]]
    BY <1>0, <2>2 DEF WorkRow
  <2>3. CASE work' = [work EXCEPT ![t] = [@ EXCEPT !.pc = "fail", !.held = NothingHeld,
                                                   !.expired = TRUE]]
    BY <1>0, <2>3 DEF WorkRow
  <2> QED
    BY <2>1, <2>2, <2>3
<1>10. ASSUME NEW t \in Sessions, Fail(t) PROVE FALSE
  <2> DEFINE j == work[t].job
             held == [order |-> jobs[j].order,
                      shown |-> AfterFailure(jobs[j], work[t].permanent).status]
  <2>1. \/ work' = [work EXCEPT ![t] = Idle]
        \/ work' = [work EXCEPT ![t] = [@ EXCEPT !.pc = "next", !.job = NoJob, !.key = 0,
                                                !.permanent = FALSE, !.held = held]]
    BY <1>10 DEF Fail
  <2> HIDE DEF held
  <2> QED
    BY <1>0, <1>1, <2>1 DEF WorkRow
<1>11. ASSUME NEW t \in Sessions, Finish(t) \/ Crash(t) PROVE FALSE
  BY <1>0, <1>1, <1>11 DEF Finish, Crash
<1>12. ASSUME NEW j \in Jobs, RetryDue(j) PROVE FALSE
  BY <1>1, <1>12 DEF RetryDue
<1> QED
  BY <1>2, <1>4, <1>5, <1>6, <1>7, <1>8, <1>9, <1>10, <1>11, <1>12 DEF Next, Process

(* A session comes to mark a job by sending for it, and no other session   *)
(* takes a message back.                                                   *)
LEMMA MarkedWasSent ==
    ASSUME QueueInv, PromiseInv, Next, NEW s \in Sessions, work'[s].pc = "mark"
    PROVE  sends'[work'[s].job] > 0
<1>0. sends \in [Jobs -> Nat]
  BY DEF QueueInv, TypeOK
<1>1. ASSUME work'[s].pc = work[s].pc, work'[s].job = work[s].job, sends' = sends
      PROVE  sends'[work'[s].job] > 0
  BY <1>1 DEF PromiseInv
<1>2. CASE Produces
  BY <1>1, <1>2 DEF Produces, HandsKept
<1>3. ASSUME NEW t \in Sessions, Send(t) PROVE sends'[work'[s].job] > 0
  <2>1. /\ Others(t) /\ work[t].job \in Jobs /\ work'[t].job = work[t].job
        /\ \/ sends' = sends /\ work'[t].pc = "fail"
           \/ /\ sends'[work[t].job] = sends[work[t].job] + 1
              /\ \A i \in Jobs \ {work[t].job} : sends'[i] = sends[i]
    BY <1>3, SendFacts
  <2>2. CASE s = t
    BY <1>0, <2>1, <2>2
  <2>3. CASE s # t
    <3>1. work'[s] = work[s] /\ sends[work[s].job] > 0
      BY <2>1, <2>3 DEF Others, PromiseInv
    <3>2. work[s].job \in Jobs
      BY <3>1, JobInHand DEF InSend
    <3> QED
      BY <1>0, <2>1, <3>1, <3>2
  <2> QED
    BY <2>2, <2>3
<1>4. ASSUME NEW t \in Sessions, Others(t), sends' = sends, work'[t].pc # "mark"
      PROVE  sends'[work'[s].job] > 0
  BY <1>1, <1>4 DEF Others
<1>5. ASSUME NEW t \in Sessions,
             \/ Claim(t) \/ MarkFails(t) \/ Finish(t) \/ Crash(t)
             \/ \E j \in Jobs : Load(t, j) \/ LoadFails(t, j)
      PROVE  sends'[work'[s].job] > 0
  BY <1>4, <1>5, ClaimFacts, LoadFacts, LoadFailsFacts, MarkFailsFacts, DropFacts DEF Idle
<1>6. ASSUME NEW t \in Sessions, MarkDelivered(t) \/ Fail(t) PROVE sends'[work'[s].job] > 0
  <2>1. PICK status \in {"delivered", "failed", "retry"} : Ends(t, status)
    BY <1>6, MarkFacts, FailFacts
  <2> QED
    BY <1>4, <2>1 DEF Ends
<1>7. ASSUME NEW j \in Jobs, RetryDue(j) PROVE sends'[work'[s].job] > 0
  BY <1>1, <1>7, RetryDueFacts
<1> QED
  BY <1>2, <1>3, <1>5, <1>6, <1>7, StepCases

(* The additions hold from the empty queue on.                             *)
LEMMA PromiseInvHolds == Spec => []PromiseInv
<1>1. Init => PromiseInv
  BY DEF Init, PromiseInv, AbsentJob, Idle
<1>2. ASSUME QueueInv, PromiseInv, Next PROVE PromiseInv'
  BY <1>2, AbsentStays, PermanentIsRot, MarkedWasSent DEF PromiseInv
<1>3. PromiseInv /\ UNCHANGED vars => PromiseInv'
  BY DEF PromiseInv, vars
<1>4. QueueInv /\ PromiseInv /\ [Next]_vars => PromiseInv'
  BY <1>2, <1>3
<1> QED
  BY <1>1, <1>4, QueueInvariant, PTL DEF Spec

(* A failure ends a job with its last attempt or for good, else not.       *)
LEMMA FailReasons ==
    ASSUME QueueInv, PromiseInv, NEW s \in Sessions, Fail(s),
           jobs'[work[s].job].status = "failed"
    PROVE  jobs[work[s].job].attempts + 1 = MaxAttempts \/ "key" \in Faults
<1> DEFINE job == jobs[work[s].job]
<1>1. /\ work[s].job \in Jobs /\ job.attempts \in Nat /\ job.attempts < MaxAttempts
      /\ jobs \in [Jobs -> JobRow]
  BY JobInHand DEF Fail, InSend, QueueInv, TypeOK
<1>2. jobs'[work[s].job] = AfterFailure(job, work[s].permanent)
  BY <1>1 DEF Fail
<1>3. CASE work[s].permanent
  BY <1>3 DEF PromiseInv
<1>4. CASE ~ work[s].permanent
  <2>1. CASE job.attempts + 1 >= MaxAttempts
    BY <1>1, <2>1, DeliveryAssumption
  <2>2. CASE ~ (job.attempts + 1 >= MaxAttempts)
    <3>1. jobs'[work[s].job] = [job EXCEPT !.status = "retry", !.attempts = @ + 1, !.due = FALSE]
      BY <1>2, <1>4, <2>2 DEF AfterFailure
    <3> QED
      BY <1>1, <3>1 DEF JobRow
  <2> QED
    BY <2>1, <2>2
<1> QED
  BY <1>3, <1>4

LEMMA StatesAre ==
    /\ StateOf("absent") = "none" /\ StateOf("pending") = "open" /\ StateOf("retry") = "open"
    /\ StateOf("processing") = "open" /\ StateOf("delivered") = "delivered"
    /\ StateOf("failed") = "given up"
BY DEF StateOf

(* The columns of a parcel.                                                *)
LEMMA ParcelColumns ==
    ASSUME NEW state, NEW order, NEW key, NEW sent, NEW failed
    PROVE  LET parcel == Promise!Parcel(state, order, key, sent, failed)
           IN  /\ parcel.state = state /\ parcel.order = order /\ parcel.key = key
               /\ parcel.sent = sent /\ parcel.failed = failed
BY DEF Promise!Parcel

(* The parcels of the jobs, before and after a step.                       *)
LEMMA ParcelsAre ==
    /\ Parcels = [j \in Jobs |-> Promise!Parcel(StateOf(jobs[j].status), jobs[j].order, jobs[j].key,
                                                sends[j], jobs[j].attempts)]
    /\ Parcels' = [j \in Jobs |-> Promise!Parcel(StateOf(jobs'[j].status), jobs'[j].order,
                                                 jobs'[j].key, sends'[j], jobs'[j].attempts)]
BY DEF Parcels, Promise!Parcel

(* A step that keeps what the buyer sees of every job is a stutter.        *)
LEMMA ParcelsSame ==
    ASSUME \A j \in Jobs :
              /\ StateOf(jobs'[j].status) = StateOf(jobs[j].status)
              /\ jobs'[j].order = jobs[j].order /\ jobs'[j].key = jobs[j].key
              /\ jobs'[j].attempts = jobs[j].attempts /\ sends'[j] = sends[j]
    PROVE  Parcels' = Parcels
BY ParcelsAre

(* One job changes.                                                        *)
LEMMA ParcelChanges ==
    ASSUME NEW j \in Jobs, NEW state, NEW order, NEW key, NEW sent, NEW failed,
           \A i \in Jobs \ {j} : jobs'[i] = jobs[i] /\ sends'[i] = sends[i],
           StateOf(jobs'[j].status) = state, jobs'[j].order = order, jobs'[j].key = key,
           sends'[j] = sent, jobs'[j].attempts = failed
    PROVE  Parcels' = [Parcels EXCEPT ![j] = Promise!Parcel(state, order, key, sent, failed)]
<1>1. /\ Parcels' = [i \in Jobs |-> Parcels'[i]] /\ Parcels = [i \in Jobs |-> Parcels[i]]
      /\ Parcels'[j] = Promise!Parcel(state, order, key, sent, failed)
      /\ \A i \in Jobs \ {j} : Parcels'[i] = Parcels[i]
  BY ParcelsAre
<1> QED
  BY <1>1

(* One job changes, and stays the job of its order and its key.            *)
LEMMA ParcelBecomes ==
    ASSUME NEW j \in Jobs, NEW state, NEW sent, NEW failed,
           \A i \in Jobs \ {j} : jobs'[i] = jobs[i] /\ sends'[i] = sends[i],
           StateOf(jobs'[j].status) = state, jobs'[j].order = jobs[j].order,
           jobs'[j].key = jobs[j].key, sends'[j] = sent, jobs'[j].attempts = failed
    PROVE  Promise!Becomes(j, state, sent, failed)
<1>1. Parcels[j].order = jobs[j].order /\ Parcels[j].key = jobs[j].key
  BY ParcelsAre, ParcelColumns
<1> QED
  BY <1>1, ParcelChanges DEF Promise!Becomes

(* The parcel of a job that is being processed.                            *)
LEMMA OpenParcel ==
    ASSUME NEW j \in Jobs, jobs[j].status = "processing"
    PROVE  /\ Promise!Open(j) /\ Parcels[j].order = jobs[j].order /\ Parcels[j].key = jobs[j].key
           /\ Parcels[j].sent = sends[j] /\ Parcels[j].failed = jobs[j].attempts
<1>1. Parcels[j] = Promise!Parcel(StateOf(jobs[j].status), jobs[j].order, jobs[j].key,
                                  sends[j], jobs[j].attempts)
  BY ParcelsAre
<1>2. StateOf(jobs[j].status) = "open"
  BY StatesAre
<1> QED
  BY <1>1, <1>2, ParcelColumns DEF Promise!Open

(* Queueing a job posts a parcel.                                          *)
LEMMA PostsParcel ==
    ASSUME QueueInv, PromiseInv, NEW o \in Orders, NEW k \in 1..MaxKeys, NEW j \in Jobs,
           NewJob(o, k, j), UNCHANGED <<reached, sends>>
    PROVE  Promise!Next
<1>1. /\ jobs[j].status = "absent" /\ jobs[j].order = NoOrder /\ jobs[j].key = 0
      /\ jobs[j].attempts = 0 /\ sends[j] = 0
  BY DEF NewJob, PromiseInv, QueueInv, SendsAccounted
<1>2. Parcels[j] = Promise!Unposted
  BY <1>1, ParcelsAre, StatesAre DEF Promise!Unposted
<1>3. /\ jobs'[j].status = "pending" /\ jobs'[j].order = o /\ jobs'[j].key = k
      /\ jobs'[j].attempts = 0 /\ sends'[j] = 0 /\ StateOf(jobs'[j].status) = "open"
      /\ \A i \in Jobs \ {j} : jobs'[i] = jobs[i] /\ sends'[i] = sends[i]
  BY <1>1, StatesAre DEF NewJob
<1>4. Parcels' = [Parcels EXCEPT ![j] = Promise!Parcel("open", o, k, 0, 0)]
  BY <1>3, ParcelChanges
<1>5. Promise!Post(j, o, k)
  BY <1>2, <1>4 DEF Promise!Post
<1> QED
  BY <1>5 DEF Promise!Next

(* Sending a message carries the parcel, once in this attempt.             *)
LEMMA CarriesParcel ==
    ASSUME QueueInv, NEW s \in Sessions, Send(s)
    PROVE  Promise!Next \/ UNCHANGED <<Parcels, reached>>
<1> DEFINE j == work[s].job
<1>0. /\ j \in Jobs /\ work[s].pc = "send" /\ jobs' = jobs
      /\ \/ UNCHANGED <<reached, sends>>
         \/ /\ reached' = reached \cup {<<jobs[j].order, work[s].key>>}
            /\ sends'[j] = sends[j] + 1
            /\ \A i \in Jobs \ {j} : sends'[i] = sends[i]
  BY SendFacts
<1>1. CASE UNCHANGED <<reached, sends>>
  BY <1>0, <1>1, ParcelsSame
<1>2. CASE /\ reached' = reached \cup {<<jobs[j].order, work[s].key>>}
           /\ sends'[j] = sends[j] + 1
           /\ \A i \in Jobs \ {j} : sends'[i] = sends[i]
  <2>1. /\ jobs[j].status = "processing" /\ sends[j] <= jobs[j].attempts
        /\ work[s].key >= jobs[j].key
    BY <1>0, JobInHand DEF InSend, QueueInv, SendsAccounted, PhasesFit
  <2>2. work[s].key \in 0..MaxKeys /\ jobs[j].key \in 1..MaxKeys
    <3>1. /\ jobs[j].order \in Orders /\ jobs[j].key \in 1..orders[jobs[j].order].key
          /\ jobs[j].key \in 0..MaxKeys
      BY <1>0, <2>1 DEF QueueInv, JobsBelong, TypeOK, JobRow
    <3>2. work[s].key \in 0..MaxKeys
      BY DEF QueueInv, TypeOK, WorkRow
    <3> QED
      BY <3>1, <3>2
  <2>3. work[s].key \in 1..MaxKeys
    BY <2>1, <2>2, DeliveryAssumption
  <2>4. Promise!Becomes(j, "open", sends[j] + 1, jobs[j].attempts)
    BY <1>0, <1>2, <2>1, ParcelBecomes, StatesAre
  <2>5. Promise!Carry(j, work[s].key)
    BY <1>0, <1>2, <2>1, <2>4, OpenParcel DEF Promise!Carry
  <2>6. PICK o \in Orders : TRUE
    BY <1>0, <2>1 DEF QueueInv, JobsBelong
  <2> QED
    BY <1>0, <2>3, <2>5, <2>6 DEF Promise!Next
<1> QED
  BY <1>0, <1>1, <1>2

(* A session that ends a job closes its parcel, gives it up or leaves it   *)
(* to be retried.                                                          *)
LEMMA EndsParcel ==
    ASSUME QueueInv, QueueInv', PromiseInv, NEW s \in Sessions, MarkDelivered(s) \/ Fail(s)
    PROVE  Promise!Next
<1> DEFINE j == work[s].job
<1>0. /\ j \in Jobs /\ jobs[j].status = "processing" /\ jobs[j].attempts \in Nat
  BY JobInHand DEF MarkDelivered, Fail, InSend
<1>1. ASSUME NEW status, Ends(s, status)
      PROVE  /\ reached' = reached
             /\ Promise!Becomes(j, StateOf(status), sends[j], jobs'[j].attempts)
  <2>1. /\ \A i \in Jobs \ {j} : jobs'[i] = jobs[i] /\ sends'[i] = sends[i]
        /\ jobs'[j].status = status /\ jobs'[j].order = jobs[j].order
        /\ jobs'[j].key = jobs[j].key /\ sends'[j] = sends[j] /\ reached' = reached
    BY <1>0, <1>1 DEF Ends
  <2> QED
    BY <1>0, <2>1, ParcelBecomes
<1>2. CASE MarkDelivered(s)
  <2>1. /\ Ends(s, "delivered") /\ jobs'[j].attempts = jobs[j].attempts
        /\ work[s].pc = "mark" /\ sends[j] > 0
    BY <1>2, MarkFacts DEF PromiseInv
  <2>2. jobs'[j].status = "delivered" /\ jobs'[j].key = jobs[j].key
        /\ jobs'[j].order = jobs[j].order /\ reached' = reached
    BY <2>1 DEF Ends
  <2>3. \E k \in jobs[j].key..MaxKeys : <<jobs[j].order, k>> \in reached
    BY <1>0, <2>2 DEF QueueInv, DeliveredReached
  <2>4. Promise!Close(j)
    BY <1>0, <1>1, <2>1, <2>3, OpenParcel, StatesAre DEF Promise!Close
  <2> QED
    BY <1>0, <2>4 DEF Promise!Next
<1>3. CASE Fail(s)
  <2>1. jobs'[j].attempts = jobs[j].attempts + 1
    BY <1>3, FailFacts
  <2>2. CASE Ends(s, "retry") /\ jobs'[j].attempts < MaxAttempts
    <3>1. Promise!Retry(j)
      BY <1>0, <1>1, <2>1, <2>2, OpenParcel, StatesAre DEF Promise!Retry
    <3> QED
      BY <1>0, <3>1 DEF Promise!Next
  <2>3. CASE Ends(s, "failed")
    <3>1. jobs[j].attempts + 1 = MaxAttempts \/ "key" \in Faults
      BY <1>3, <2>3, FailReasons DEF Ends
    <3>2. Promise!GiveUp(j)
      BY <1>0, <1>1, <2>1, <2>3, <3>1, OpenParcel, StatesAre DEF Promise!GiveUp
    <3> QED
      BY <1>0, <3>2 DEF Promise!Next
  <2> QED
    BY <1>3, <2>2, <2>3, FailFacts
<1> QED
  BY <1>2, <1>3

(* Every step keeps the promise.                                           *)
LEMMA PromiseStep ==
    ASSUME QueueInv, QueueInv', PromiseInv, [Next]_vars
    PROVE  Promise!Next \/ UNCHANGED <<Parcels, reached>>
<1>1. CASE UNCHANGED vars
  BY <1>1, ParcelsSame DEF vars
<1>2. CASE Produces
  <2>1. CASE NoJobs
    BY <1>2, <2>1, ParcelsSame DEF Produces, NoJobs
  <2> QED
    BY <1>2, <2>1, PostsParcel DEF Produces
<1>3. ASSUME NEW s \in Sessions, Claim(s) PROVE UNCHANGED <<Parcels, reached>>
  <2>1. /\ UNCHANGED <<reached, sends>> /\ work'[s].batch \in SUBSET Due
        /\ \A j \in Jobs : /\ jobs'[j].order = jobs[j].order /\ jobs'[j].key = jobs[j].key
                           /\ jobs'[j].attempts = jobs[j].attempts
                           /\ jobs'[j].status = IF j \in work'[s].batch THEN "processing"
                                                ELSE jobs[j].status
    BY <1>3, ClaimFacts
  <2>2. \A j \in Jobs : StateOf(jobs'[j].status) = StateOf(jobs[j].status)
    BY <2>1 DEF StateOf, Due
  <2> QED
    BY <2>1, <2>2, ParcelsSame
<1>4. ASSUME NEW s \in Sessions,
             \/ \E j \in Jobs : Load(s, j) \/ LoadFails(s, j)
             \/ MarkFails(s) \/ Finish(s) \/ Crash(s)
      PROVE  UNCHANGED <<Parcels, reached>>
  BY <1>4, LoadFacts, LoadFailsFacts, MarkFailsFacts, DropFacts, ParcelsSame
<1>5. ASSUME NEW j \in Jobs, RetryDue(j) PROVE UNCHANGED <<Parcels, reached>>
  BY <1>5, RetryDueFacts, ParcelsSame
<1> QED
  BY <1>1, <1>2, <1>3, <1>4, <1>5, CarriesParcel, EndsParcel, StepCases

(* The queue implements DeliveryPromise: whatever sessions do, fail to do  *)
(* or leave half done, a buyer sees each job tried a limited number of     *)
(* times, with at most one message in an attempt, and then ended for good. *)
THEOREM QueueKeepsPromise == Spec => ImplementsPromise
<1>1. Init => Promise!Init
  <2> SUFFICES ASSUME Init PROVE Promise!Init
    OBVIOUS
  <2>1. \A j \in Jobs : Parcels[j] = Promise!Unposted
    BY ParcelsAre, StatesAre DEF Init, AbsentJob, Promise!Unposted
  <2>2. Parcels = [j \in Jobs |-> Promise!Unposted]
    BY <2>1, ParcelsAre
  <2> QED
    BY <2>2 DEF Init, Promise!Init
<1>2. QueueInv /\ QueueInv' /\ PromiseInv /\ [Next]_vars => [Promise!Next]_<<Parcels, reached>>
  BY PromiseStep
<1> QED
  BY <1>1, <1>2, QueueInvariant, PromiseInvHolds, PTL
     DEF Spec, ImplementsPromise, Promise!Spec

(***************************************************************************)
(* Nobody comes back for a job                                             *)
(***************************************************************************)

(* A job in nobody's hands can only be taken by the session that claims    *)
(* it, and only one that is due is claimed.                                *)
LEMMA AbandonedStays ==
    ASSUME QueueInv, Next, NEW j \in Jobs, Abandoned(j)
    PROVE  Abandoned(j)' /\ sends'[j] = sends[j]
<1>1. jobs[j].status = "processing" /\ \A s \in Sessions : j \notin InHand(s)
  BY DEF Abandoned
<1>2. CASE Produces
  <2>1. \A s \in Sessions : InHand(s)' = InHand(s)
    BY <1>2 DEF Produces, HandsKept, InHand
  <2>2. jobs'[j] = jobs[j]
    BY <1>1, <1>2 DEF Produces, NoJobs, NewJob
  <2> QED
    BY <1>1, <1>2, <2>1, <2>2 DEF Produces, Abandoned
<1>3. ASSUME NEW s \in Sessions, Claim(s) PROVE Abandoned(j)' /\ sends'[j] = sends[j]
  <2>1. /\ Others(s) /\ UNCHANGED sends /\ work'[s].job = NoJob /\ work'[s].batch \in SUBSET Due
        /\ jobs'[j].status = IF j \in work'[s].batch THEN "processing" ELSE jobs[j].status
    BY <1>3, ClaimFacts
  <2>2. j \notin work'[s].batch
    BY <1>1, <2>1 DEF Due
  <2>3. \A t \in Sessions : j \notin InHand(t)'
    BY <1>1, <2>1, <2>2 DEF InHand, Others
  <2> QED
    BY <1>1, <2>1, <2>2, <2>3 DEF Abandoned
<1>4. ASSUME NEW s \in Sessions, MarkDelivered(s) \/ Fail(s)
      PROVE  Abandoned(j)' /\ sends'[j] = sends[j]
  <2>1. PICK status \in {"delivered", "failed", "retry"} : Ends(s, status)
    BY <1>4, MarkFacts, FailFacts
  <2>2. work[s].job \in InHand(s)
    BY <1>4, JobInHand DEF MarkDelivered, Fail, InSend
  <2>3. jobs'[j] = jobs[j] /\ sends'[j] = sends[j]
    BY <1>1, <2>1, <2>2 DEF Ends
  <2>4. \A t \in Sessions : j \notin InHand(t)'
    BY <1>1, <2>1 DEF InHand, Ends, Others, Idle
  <2> QED
    BY <1>1, <2>3, <2>4 DEF Abandoned
<1>5. ASSUME NEW s \in Sessions,
             \/ \E i \in Jobs : Load(s, i) \/ LoadFails(s, i)
             \/ Send(s) \/ MarkFails(s) \/ Finish(s) \/ Crash(s)
      PROVE  Abandoned(j)' /\ sends'[j] = sends[j]
  <2>1. Others(s) /\ jobs' = jobs
    BY <1>5, LoadFacts, LoadFailsFacts, SendFacts, MarkFailsFacts, DropFacts
  <2>2. InHand(s)' \subseteq InHand(s)
    BY <1>5, LoadFacts, LoadFailsFacts, SendFacts, MarkFailsFacts, DropFacts DEF InHand, Idle
  <2>3. \A t \in Sessions : j \notin InHand(t)'
    BY <1>1, <2>1, <2>2 DEF InHand, Others
  <2>4. sends'[j] = sends[j]
    <3>1. CASE Send(s)
      <4>1. work[s].job \in InHand(s)
        BY <3>1, JobInHand DEF Send, InSend
      <4> QED
        BY <1>1, <3>1, <4>1, SendFacts
    <3> QED
      BY <1>5, <3>1, LoadFacts, LoadFailsFacts, MarkFailsFacts, DropFacts
  <2> QED
    BY <1>1, <2>1, <2>3, <2>4 DEF Abandoned
<1>6. ASSUME NEW i \in Jobs, RetryDue(i) PROVE Abandoned(j)' /\ sends'[j] = sends[j]
  BY <1>1, <1>6, RetryDueFacts DEF Abandoned, InHand
<1> QED
  BY <1>2, <1>3, <1>4, <1>5, <1>6, StepCases

(* A job that a stop or a rollback left in processing stays there for      *)
(* ever: claim_due_jobs never looks at it again.                           *)
THEOREM AbandonedJobsAreLost == Spec => AbandonedForever
<1>1. QueueInv /\ [Next]_vars =>
        [\A j \in Jobs : Abandoned(j) => Abandoned(j)' /\ sends'[j] = sends[j]]_vars
  BY AbandonedStays
<1> QED
  BY <1>1, QueueInvariant, PTL DEF Spec, AbandonedForever
=============================================================================
