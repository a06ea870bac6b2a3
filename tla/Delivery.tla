------------------------------ MODULE Delivery ------------------------------
(***************************************************************************)
(* The queue that carries issued keys to their buyers: the table           *)
(* delivery_jobs, worked on by the background loop of the web container    *)
(* and, after a confirmation or a replacement, by the operator's session   *)
(* in the bot, both running process_pending_jobs.                          *)
(*                                                                         *)
(* A job says which order to deliver; the key it sends is the one the      *)
(* order shows when the job is loaded.  A session claims a batch in one    *)
(* transaction and then takes its jobs one by one: load, send, mark.       *)
(* Between these, other sessions run and the process may stop.             *)
(*                                                                         *)
(* Two facts about SQLAlchemy matter.  An Order the session holds is not   *)
(* reloaded by lock_by_id (see OrderLifecycle), and a rolled back          *)
(* transaction expires every object of the session: reading the id of the  *)
(* batch's next job then needs a query the running coroutine cannot make,  *)
(* and raises outside the try block.                                       *)
(***************************************************************************)
EXTENDS Naturals, FiniteSets

CONSTANTS
    Orders,
    Jobs,         \* the ids jobs may get
    Loop,         \* the session of the background loop
    Handlers,     \* the sessions of the operator's callbacks
    NoOrder, NoJob,
    MaxKeys,      \* bound on the keys issued for one order
    MaxAttempts,  \* settings.delivery_max_attempts
    BatchLimit,   \* the limit of claim_due_jobs
    Faults        \* what may go wrong, see FaultKinds

(* A key cannot be decrypted; the message is not sent, or it is and the    *)
(* call raises all the same; a commit fails; the session stops.            *)
FaultKinds == {"key", "unsent", "sent", "commit", "stop"}

ASSUME DeliveryAssumption ==
    /\ Loop \notin Handlers
    /\ NoOrder \notin Orders
    /\ NoJob \notin Jobs
    /\ IsFiniteSet(Jobs)
    /\ MaxKeys \in Nat \ {0}
    /\ MaxAttempts \in Nat \ {0}
    /\ BatchLimit \in Nat \ {0}
    /\ Faults \subseteq FaultKinds

Sessions == Handlers \cup {Loop}

DeliveryJobStatus == {"pending", "processing", "delivered", "retry", "failed"}

(* The keys of an order are numbered in the order they were issued; 0 is   *)
(* no key.  shown is orders.delivery_status.                               *)
OrderRow == [status : {"unissued", "issued", "refunded"},
             key    : 0..MaxKeys,
             shown  : {"none"} \cup DeliveryJobStatus]

(* key is the key the job was queued for (payload_json); due says that     *)
(* next_retry_at is null or has passed.                                    *)
JobRow == [status   : {"absent"} \cup DeliveryJobStatus,
           order    : Orders \cup {NoOrder},
           key      : 0..MaxKeys,
           attempts : 0..MaxAttempts,
           due      : BOOLEAN]

AbsentJob == [status |-> "absent", order |-> NoOrder, key |-> 0, attempts |-> 0, due |-> FALSE]

(* The Order object a session holds, if any. *)
HeldRow == [order : Orders \cup {NoOrder}, shown : {"none"} \cup DeliveryJobStatus]
NothingHeld == [order |-> NoOrder, shown |-> "none"]

Phase == {"idle", "claim", "next", "send", "mark", "fail"}

VARIABLES
    orders,   \* the columns of table orders that delivery reads and writes
    jobs,     \* table delivery_jobs
    work,     \* what each session is in the middle of
    reached,  \* the <<order, key>> pairs whose message reached the buyer
    sends     \* history: how often each job's message was sent

vars == <<orders, jobs, work, reached, sends>>

(* The local variables of process_pending_jobs; key is the key being sent. *)
WorkRow == [pc        : Phase,
            batch     : SUBSET Jobs,
            job       : Jobs \cup {NoJob},
            key       : 0..MaxKeys,
            held      : HeldRow,
            permanent : BOOLEAN,
            expired   : BOOLEAN]

Idle == [pc |-> "idle", batch |-> {}, job |-> NoJob, key |-> 0, held |-> NothingHeld,
         permanent |-> FALSE, expired |-> FALSE]

Init ==
    /\ orders = [o \in Orders |-> [status |-> "unissued", key |-> 0, shown |-> "none"]]
    /\ jobs = [j \in Jobs |-> AbsentJob]
    /\ work = [s \in Sessions |-> Idle]
    /\ reached = {}
    /\ sends = [j \in Jobs |-> 0]

-----------------------------------------------------------------------------
(* The producers of jobs                                                   *)

Enqueue(o, k) ==
    \E j \in Jobs :
        /\ jobs[j].status = "absent"
        /\ jobs' = [jobs EXCEPT ![j] = [status |-> "pending", order |-> o, key |-> k,
                                        attempts |-> 0, due |-> TRUE]]

(* _finalize_order_issue of a first issue: k = 1, or of a replacement. *)
Finalize(o, k) ==
    /\ k <= MaxKeys
    /\ Enqueue(o, k)
    /\ orders' = [orders EXCEPT ![o] = [status |-> "issued", key |-> k, shown |-> "pending"]]

(* The key was issued in another session that does not turn to the queue,  *)
(* as reconcile and handle_webhook do; the loop delivers it.               *)
Issue(o) ==
    /\ orders[o].status = "unissued"
    /\ Finalize(o, 1)
    /\ UNCHANGED <<work, reached, sends>>

(* The operator's confirmation issues the key, finds it issued already, or  *)
(* finds none in stock; in each case the same session goes on to process   *)
(* the queue.                                                              *)
Confirm(s, o) ==
    /\ work[s].pc = "idle"
    /\ orders[o].status # "refunded"
    /\ \/ orders[o].status = "unissued" /\ Finalize(o, 1)
       \/ UNCHANGED <<orders, jobs>>
    /\ work' = [work EXCEPT ![s].pc = "claim"]
    /\ UNCHANGED <<reached, sends>>

Replace(s, o) ==
    /\ work[s].pc = "idle"
    /\ orders[o].status = "issued"
    /\ Finalize(o, orders[o].key + 1)
    /\ work' = [work EXCEPT ![s].pc = "claim"]
    /\ UNCHANGED <<reached, sends>>

(* enqueue_resend *)
Resend(o) ==
    /\ orders[o].status = "issued"
    /\ Enqueue(o, orders[o].key)
    /\ orders' = [orders EXCEPT ![o].shown = "pending"]
    /\ UNCHANGED <<work, reached, sends>>

Refund(o) ==
    /\ orders[o].status = "issued"
    /\ orders' = [orders EXCEPT ![o].status = "refunded"]
    /\ UNCHANGED <<jobs, work, reached, sends>>

-----------------------------------------------------------------------------
(* process_pending_jobs                                                    *)

(* Mutant: a job is claimed once only. *)
DueUnlessRetried == {j \in Jobs : jobs[j].status = "pending" /\ jobs[j].due}

(* Mutant: jobs being processed are due as well. *)
DueOrProcessing ==
    {j \in Jobs : jobs[j].status \in {"pending", "retry", "processing"} /\ jobs[j].due}

Due == {j \in Jobs : jobs[j].status \in {"pending", "retry"} /\ jobs[j].due}

(* Which due jobs are the oldest is left open. *)
Batches ==
    {batch \in SUBSET Due :
        \/ Cardinality(batch) = BatchLimit
        \/ batch = Due /\ Cardinality(Due) < BatchLimit}

Starts(s) == work[s].pc = "claim" \/ (s = Loop /\ work[s].pc = "idle" /\ Due # {})

Claimed(batch) == [j \in Jobs |-> IF j \in batch THEN [jobs[j] EXCEPT !.status = "processing"]
                                   ELSE jobs[j]]

Claim(s) ==
    /\ Starts(s)
    /\ \E batch \in Batches :
        /\ jobs' = Claimed(batch)
        /\ work' = [work EXCEPT ![s].pc = "next", ![s].batch = batch]
    /\ UNCHANGED <<orders, reached, sends>>

(* The session's object of order o, as lock_by_id gives it. *)
Held(s, o) ==
    IF work[s].held.order = o THEN work[s].held ELSE [order |-> o, shown |-> orders[o].shown]

(* _load_delivery_payload: the order's current key, whatever was queued. *)
Load(s, j) ==
    /\ work[s].pc = "next"
    /\ j \in work[s].batch
    /\ LET o == jobs[j].order
       IN  work' = [work EXCEPT ![s] = [@ EXCEPT !.pc = "send", !.job = j, !.batch = work[s].batch \ {j},
                                                 !.key = orders[o].key, !.held = Held(s, o)]]
    /\ UNCHANGED <<orders, jobs, reached, sends>>

(* The exception leaves the transaction block, which rolls back. *)
LoadFails(s, j) ==
    /\ work[s].pc = "next"
    /\ j \in work[s].batch
    /\ \E fault \in Faults \cap {"key", "commit"} :
        work' = [work EXCEPT ![s] = [@ EXCEPT !.pc = "fail", !.job = j, !.batch = work[s].batch \ {j},
                                              !.held = NothingHeld, !.expired = TRUE,
                                              !.permanent = (fault = "key")]]
    /\ UNCHANGED <<orders, jobs, reached, sends>>

(* Mutant: an error of the messenger is logged and forgotten. *)
AfterSendingUnchecked(outcome) == "mark"

AfterSending(outcome) == IF outcome = "ok" THEN "mark" ELSE "fail"

(* send_key_delivery and send_setup_guide. *)
Send(s) ==
    /\ work[s].pc = "send"
    /\ \E outcome \in {"ok"} \cup (Faults \cap {"unsent", "sent"}) :
        LET j == work[s].job
        IN  /\ IF outcome = "unsent"
               THEN UNCHANGED <<reached, sends>>
               ELSE /\ reached' = reached \cup {<<jobs[j].order, work[s].key>>}
                    /\ sends' = [sends EXCEPT ![j] = @ + 1]
            /\ work' = [work EXCEPT ![s].pc = AfterSending(outcome)]
    /\ UNCHANGED <<orders, jobs>>

(* Mutant: only failures are shown. *)
ShownUnlessDelivered(s, o, status) ==
    IF status = "delivered" THEN orders[o] ELSE [orders[o] EXCEPT !.shown = status]

(* The order's row after the held object's delivery_status was set. *)
Shown(s, o, status) ==
    IF Held(s, o).shown = status THEN orders[o] ELSE [orders[o] EXCEPT !.shown = status]

MarkDelivered(s) ==
    /\ work[s].pc = "mark"
    /\ LET j == work[s].job
           o == jobs[j].order
       IN  /\ jobs' = [jobs EXCEPT ![j].status = "delivered"]
           /\ orders' = [orders EXCEPT ![o] = Shown(s, o, "delivered")]
           /\ work' = [work EXCEPT ![s] = [@ EXCEPT !.pc = "next", !.job = NoJob, !.key = 0,
                                              !.held = [order |-> o, shown |-> "delivered"]]]
    /\ UNCHANGED <<reached, sends>>

MarkFails(s) ==
    /\ work[s].pc = "mark"
    /\ "commit" \in Faults
    /\ work' = [work EXCEPT ![s] = [@ EXCEPT !.pc = "fail", !.held = NothingHeld,
                                             !.expired = TRUE]]
    /\ UNCHANGED <<orders, jobs, reached, sends>>

(* Mutant: one attempt too many. *)
AfterFailureOneMore(job, permanent) ==
    IF permanent \/ job.attempts >= MaxAttempts
    THEN [job EXCEPT !.status = "failed", !.attempts = @ + 1]
    ELSE [job EXCEPT !.status = "retry", !.attempts = @ + 1, !.due = FALSE]

AfterFailure(job, permanent) ==
    IF permanent \/ job.attempts + 1 >= MaxAttempts
    THEN [job EXCEPT !.status = "failed", !.attempts = @ + 1]
    ELSE [job EXCEPT !.status = "retry", !.attempts = @ + 1, !.due = FALSE]

(* Mutant: a failure ends the call, whatever is left of the batch. *)
FailAndEnd(s) ==
    /\ work[s].pc = "fail"
    /\ LET j == work[s].job
           o == jobs[j].order
           after == AfterFailure(jobs[j], work[s].permanent)
       IN  /\ jobs' = [jobs EXCEPT ![j] = after]
           /\ orders' = [orders EXCEPT ![o] = Shown(s, o, after.status)]
           /\ work' = [work EXCEPT ![s] = Idle]
    /\ UNCHANGED <<reached, sends>>

(* The except branch.  If a rollback expired the batch, the loop cannot go *)
(* on to the next job, and the exception ends the call.                    *)
Fail(s) ==
    /\ work[s].pc = "fail"
    /\ LET j == work[s].job
           o == jobs[j].order
           after == AfterFailure(jobs[j], work[s].permanent)
       IN  /\ jobs' = [jobs EXCEPT ![j] = after]
           /\ orders' = [orders EXCEPT ![o] = Shown(s, o, after.status)]
           /\ work' = [work EXCEPT ![s] =
                IF work[s].expired /\ work[s].batch # {} THEN Idle
                ELSE [@ EXCEPT !.pc = "next", !.job = NoJob, !.key = 0, !.permanent = FALSE,
                               !.held = [order |-> o, shown |-> after.status]]]
    /\ UNCHANGED <<reached, sends>>

(* The batch is done, and the session is let go.                           *)
Finish(s) ==
    /\ work[s].pc = "next"
    /\ work[s].batch = {}
    /\ work' = [work EXCEPT ![s] = Idle]
    /\ UNCHANGED <<orders, jobs, reached, sends>>

(* retry_seconds pass. *)
RetryDue(j) ==
    /\ jobs[j].status = "retry"
    /\ ~jobs[j].due
    /\ jobs' = [jobs EXCEPT ![j].due = TRUE]
    /\ UNCHANGED <<orders, work, reached, sends>>

(* The process stops, the task is cancelled, or the except branch raises:  *)
(* claimed jobs stay as they are.                                          *)
Crash(s) ==
    /\ work[s].pc # "idle"
    /\ "stop" \in Faults
    /\ work' = [work EXCEPT ![s] = Idle]
    /\ UNCHANGED <<orders, jobs, reached, sends>>

Process(s) ==
    \/ Claim(s)
    \/ \E j \in Jobs : Load(s, j) \/ LoadFails(s, j)
    \/ Send(s)
    \/ MarkDelivered(s)
    \/ MarkFails(s)
    \/ Fail(s)
    \/ Finish(s)

Next ==
    \/ \E o \in Orders : Issue(o) \/ Resend(o) \/ Refund(o)
    \/ \E s \in Handlers, o \in Orders : Confirm(s, o) \/ Replace(s, o)
    \/ \E s \in Sessions : Process(s) \/ Crash(s)
    \/ \E j \in Jobs : RetryDue(j)

Spec == Init /\ [][Next]_vars

(* The event loop resumes the coroutines, the background loop runs every   *)
(* 15 seconds, and time passes.                                            *)
Fairness ==
    /\ \A s \in Sessions : WF_vars(Process(s))
    /\ \A j \in Jobs : WF_vars(RetryDue(j))

FairSpec == Spec /\ Fairness

-----------------------------------------------------------------------------
(* Properties                                                              *)

(* The type invariant: every variable has the columns and phases of the    *)
(* code, and no job was attempted more often than delivery_max_attempts.   *)
TypeOK ==
    /\ orders \in [Orders -> OrderRow]
    /\ jobs \in [Jobs -> JobRow]
    /\ work \in [Sessions -> WorkRow]
    /\ reached \subseteq Orders \X (1..MaxKeys)
    /\ sends \in [Jobs -> Nat]

(* The jobs a session has claimed and not finished. *)
InHand(s) == work[s].batch \cup (IF work[s].job = NoJob THEN {} ELSE {work[s].job})

(* claim_due_jobs gives a job to one session only, and nobody else touches *)
(* the job until that session has marked it.                               *)
OneHand ==
    /\ \A s \in Sessions : \A j \in InHand(s) : jobs[j].status = "processing"
    /\ \A s, t \in Sessions : s # t => InHand(s) \cap InHand(t) = {}

(* A job whose message went out although its call failed is sent again,    *)
(* but never more often than delivery_max_attempts, and no message goes    *)
(* unaccounted for: each is an attempt, the one being made or the last.    *)
SendsAreLimited ==
    \A j \in Jobs :
        /\ sends[j] <= MaxAttempts
        /\ jobs[j].status \in {"pending", "retry", "failed"} => sends[j] <= jobs[j].attempts

(* A job marked delivered has put into the buyer's hands the key it was    *)
(* queued for, or one that replaced it before the message was written.     *)
DeliveredReached ==
    \A j \in Jobs :
        jobs[j].status = "delivered" =>
            \E k \in jobs[j].key..MaxKeys : <<jobs[j].order, k>> \in reached

(* What an order shows is never wrong in the way that hides work: an order *)
(* shown as pending or to be retried has a job that somebody will take or  *)
(* has taken, and one shown as delivered has a delivered job, although     *)
(* sessions assign delivery_status on order objects they loaded earlier.   *)
ShownIsEarned ==
    \A o \in Orders :
        LET statuses == {jobs[j].status : j \in {i \in Jobs : jobs[i].order = o}}
        IN  /\ orders[o].shown \in {"pending", "retry"} =>
                    statuses \cap {"pending", "processing", "retry"} # {}
            /\ orders[o].shown = "delivered" => "delivered" \in statuses

(* A job that was delivered, or given up, stays so: a session that lost    *)
(* its race never reopens or renames it.                                   *)
FinalIsFinal ==
    [][\A j \in Jobs : jobs[j].status \in {"delivered", "failed"} => jobs'[j] = jobs[j]]_vars

(* A job as its buyer sees it: open until it is delivered or given up. *)
StateOf(status) ==
    CASE status = "absent"    -> "none"
      [] status = "delivered" -> "delivered"
      [] status = "failed"    -> "given up"
      [] OTHER                -> "open"

Parcels ==
    [j \in Jobs |-> [state |-> StateOf(jobs[j].status), order |-> jobs[j].order,
                     key |-> jobs[j].key, sent |-> sends[j], failed |-> jobs[j].attempts]]

Promise == INSTANCE DeliveryPromise
             WITH parcel <- Parcels, inbox <- reached, KeysMayRot <- "key" \in Faults

(* The sessions keep the promise of the queue: claims, stale objects,      *)
(* rollbacks and stops are invisible in it, and process_pending_jobs never *)
(* sends for a job that ended, nor twice in an attempt.                    *)
ImplementsPromise == Promise!Spec

(* A claimed job nobody works on any more; nothing looks for such jobs. *)
Abandoned(j) == jobs[j].status = "processing" /\ \A s \in Sessions : j \notin InHand(s)

(* A claimed job is let go of in one of two ways only: its session stops,  *)
(* or a rollback while another job of the same batch was handled expired   *)
(* the batch.  Failures of the messenger, retries, replacements, resends   *)
(* and other sessions never cost a job its session, and no claim takes     *)
(* more than the session gets.                                             *)
OnlyStopsStrand ==
    [][\A j \in Jobs :
        ~ Abandoned(j) /\ Abandoned(j)' =>
            \E s \in Sessions :
                /\ j \in InHand(s)
                /\ Crash(s) \/ (Fail(s) /\ work[s].expired /\ j # work[s].job)]_vars

(* So, where only the messenger fails, a job in processing is in the hands *)
(* of a session.                                                           *)
ProcessingIsInHand == \A j \in Jobs : ~ Abandoned(j)

(* What a stop or a rollback leaves behind is lost for good: a job in      *)
(* processing that no session has in hand is never claimed, sent or given  *)
(* up again, because claim_due_jobs looks at pending and retry only.       *)
AbandonedForever ==
    [][\A j \in Jobs : Abandoned(j) => Abandoned(j)' /\ sends'[j] = sends[j]]_vars

(* Every queued job is delivered or given up in the end, where only the    *)
(* messenger fails: a retry nobody comes back to, or a batch left in the   *)
(* middle, would break it.  With the other faults it does not hold         *)
(* (OnlyStopsStrand says when, AbandonedForever what becomes of the job).  *)
JobsEnd ==
    \A j \in Jobs :
        jobs[j].status \in {"pending", "processing", "retry"} ~>
            jobs[j].status \in {"delivered", "failed"}
=============================================================================
