# Verification of the vpn-seller services

TLA+ models of the services that sell VPN access (`src/app`), the TLC runs that
check them on small instances, and machine-checked proofs (TLAPS) of the
properties that matter most. The reference is the code; every definition names
in `PROJECT.json` ("map") the lines it stands for.

Contents: [the system](#the-system), [modules](#modules), what is modelled in
[OrderLifecycle](#orderlifecycle), [Delivery](#delivery),
[Provisioning](#provisioning), [Checkout](#checkout),
[UsageMonitor](#usagemonitor) and [Imports](#imports),
[properties](#properties), [runs](#runs), [fairness](#fairness),
[what the runs found](#what-the-runs-found), [proofs](#proofs),
[what is left out](#what-is-left-out-and-why), [plan](#plan).

## The system

One PostgreSQL database, one web process (FastAPI: Telegram, VK and WhatsApp
callbacks, and the background loop) and one bot process (Telegram
polling). All of them are asyncio programs; every chat update, webhook request
and iteration of the background loop opens one SQLAlchemy session, builds the
services on it (`containers.py`) and lets it go at the end. The sessions run
concurrently and interfere only through the tables, but each of them keeps
Python objects (ORM rows) across transactions, and that is where most of the
hard behaviour comes from.

| Component | State it keeps | Operations | Talks to | Module |
|---|---|---|---|---|
| Purchase dialogues: `handlers/purchase.py`, `catalog.py`, `services/vk_bot.py`, `whatsapp_bot.py` | messages and buttons of the chats, FSM data (Telegram) | choose plan, mode, server; promo code; confirm | catalog, promo codes, order creation | `Checkout` |
| Catalog, pricing, promo codes: `services/plans.py`, `pricing.py`, `promos.py` | `plans`, `promo_codes`, `promo_redemptions` | what is offered, prices, discounts, redemption | order creation | `Checkout` |
| Order lifecycle: `services/orders.py`, `payments/service.py`, `issuing.py`, `inventory.py` | `orders`, `vpn_keys`, `payments`, `payment_events` | create with payment, cancel, refund, confirm, webhook, reconcile, issue, replace, expire | delivery queue (enqueues jobs), Hiddify, audit log | `OrderLifecycle`, `KeyLedger`; creation in detail: `Checkout` |
| Hiddify provisioning: `services/hiddify.py`, `issuing.py` | `hiddify_servers`, remote users of the panels | choose server, find or create the remote user, superkey over all servers, MTProxy links, replacement | remote HTTP panels; finalised by `issuing.py` | `Provisioning` |
| Delivery queue: `services/delivery.py`, `repositories/delivery_jobs.py` | `delivery_jobs`, `orders.delivery_*` | enqueue, claim, send, mark delivered / retry / failed, resend | reads the order's issued key; chat APIs | `Delivery` |
| Background loop: `containers.py:327-338` | none (one session per iteration) | expiry sweep, reconciliation, delivery, usage snapshots, sleep 15 s | the services above, in this order; an exception ends the iteration | a session of each module |
| Usage and alerts: `services/hiddify_usage.py` | `hiddify_server_usage_snapshots`, `audit_logs` (cooldown) | collect due snapshots, sample now, compare with thresholds, alert once per cooldown | Hiddify panels, admin chats | `UsageMonitor` |
| Imports: `services/imports/*`, `handlers/admin_import.py`, `admin_hiddify.py` | `vpn_keys`, `hiddify_servers`, FSM state of the operator's chat | preview, confirm, register one server | plans, keys, panels | `Imports` |
| Session scope: `middlewares/auth.py`, `services/transactions.py`, the bots | the session's own transaction | `transactional()`: a transaction, or a savepoint of one that is open | everything | `Commits`, `Open` in each module |
| Users: `services/users.py` | `users` | register or update on each contact | session scope | - |
| Superkey subscription: `services/subscriptions.py` | none | merge the panels' subscription lines | Hiddify panels | - |
| Exports, own orders, support, notifications, keyboards | none | read and answer | chat APIs | - |
| Web application, configuration, migrations | none | start-up, routing | - | - |

### What is hard about it

* **Held rows.** `lock_by_id` is `SELECT ... FOR UPDATE` without
  `populate_existing`: it waits for the row lock, but if the session already
  holds the object its attributes are not reloaded, and the session factory
  sets `expire_on_commit=False`. A service that runs two transactions on one
  order (confirm then issue, webhook then issue, list then recheck, create
  then attach the payment, load then replace) decides in the second on what it
  read in the first. The flush then writes only the columns it changed.
* **Savepoints of a transaction nobody commits.** A session that reads outside
  a `transactional()` block begins a transaction by itself; every later block
  is only a savepoint of it, and closing the session rolls all of it back. The
  models call such a session *open*: it sees its own writes, its row locks
  stay, messages it sends go out, and nothing of it lasts.
* **Crash and cancellation** between any two transactions; nothing replays.
* **External calls** between two transactions (payment provider, Hiddify
  panels, chat APIs) that may fail after having taken effect.
* **Provider events** that are repeated, reordered, or arrive while another
  session works on the same order. `PaymentService.handle_webhook` is ready for
  them and is modelled; `main.py` registers no route that leads to it, so in
  this repository only tests call it.
* **Screens that outlive the state they show.** A message keeps its buttons
  while plans, servers, codes and the chat's FSM data move on, and updates of
  one chat are handled side by side.

### What makes each component correct

* Purchase: who confirms the message on the screen gets and pays what it says;
  the number a customer is told is that of an order.
* Promo codes and prices: never more redemptions than the limit, one per user,
  the counter tells the truth; never charged less than the minimum.
* Order lifecycle: no key is lost, sold twice, or given to an order that did
  not pay; a reservation ends; a paid order is served.
* Provisioning: retries find the remote user of the earlier try; buyers do not
  get another country or half a superkey; an issued order has a key in force;
  what is sent is recorded; a paid order is never left to nobody.
* Delivery: a job is worked on by one session at a time and ends delivered or
  given up; a delivered job's key reached the buyer; the status an order shows
  never hides work.
* Usage: an alert only if every server of a location is hot, on fresh samples,
  and once per cooldown under every name of the location.
* Imports: a panel is stored once however it is spelled; what is told to be
  connected or imported is there.

`PROJECT.json` lists the hazards one by one at the line where they bite, with
the properties that cover them or the reason why none does.

## Modules

| Module | What it is |
|---|---|
| `KeyLedger` | Abstract specification: what the shop promises about each prepared key (shelf, held for one order, sold to one user, retired). |
| `OrderLifecycle` | The services of the order lifecycle for orders fulfilled from prepared keys: state, one action per transaction, properties, refinement mapping to `KeyLedger`. |
| `DeliveryPromise` | Abstract specification: what the queue promises of each job (tried so often, one message per attempt, delivered after a message, given up at the end). |
| `Delivery` | The queue of keys to send: claim, load, send, mark, retry, resend, and what it shows on the order; refinement mapping to `DeliveryPromise`. |
| `Provisioning` | Issue and replacement of access on the panels: server orders, superkeys and MTProxy links. |
| `Shop` | Abstract specification: an order is placed in one moment, at the code, price and stock of that moment. |
| `Checkout` | From the catalog to a row of `orders`, in three messengers, with prices and promo codes; refinement mapping to `Shop`. |
| `UsageMonitor` | Samples of the panels' load, thresholds, alerts and their cooldown. |
| `Imports` | The operators' dialogues that import keys and servers or register one server. |
| `MCOrderLifecycle`, `MCDelivery`, `MCProvisioning`, `MCCheckout`, `MCUsageMonitor`, `MCImports` | Small instances for TLC. |
| `OrderLifecycleProofs`, `DeliveryProofs`, `ProvisioningProofs`, `CheckoutProofs`, `UsageMonitorProofs`, `ImportsProofs` | Proofs for every value of the constants. |

Definitions marked "Mutant" are deliberately wrong variants of the definition
that follows them, one per property of a passing run; each is a bug the code
could have (a release forgotten, a test dropped, the row taken at its word),
and each makes TLC find the property violated. They are in no specification.

The modules share one vocabulary: a session (or handler) is a record with a
program counter `pc`, one action per transaction or external call, `Crash` is
a stop, a cancellation or an exception that leaves the handler, and `Idle` is
the session nobody uses. What differs is which tables they keep; a table two
modules keep (an order's row) is seen by each from its own side, and the
other side is there as the steps that disturb it (`Refund` and `Replace` in
`Delivery`, `Toggle` in `Provisioning` and `Checkout`).

### OrderLifecycle

**Granularity.** A transaction that locks its rows before it reads them is one
step. Between two transactions of one call, and between the unlocked read and
the write of the webhook, other sessions may run: a session's place is
`sess[s].pc`, and the Order object it holds is `sess[s].mem` (for the
background loop's lists: `listed[o]`).

| Variable | Code |
|---|---|
| `orders[o]` | a row of `orders`: `status`, `reserved_key_id`, `issued_key_id`, whether there is a `provider_payment_id`, and `reservation_expires_at` as none / future / past. `"absent"` is an id not used yet. |
| `keys[k]` | a row of `vpn_keys`: `status`, `reserved_by_order_id`, `issued_to_user_id` |
| `jobs` | the deduplication keys `issue:order:key` in `delivery_jobs` |
| `processed` | `payment_events` |
| `confirmed` | history: orders some commit recorded as paid |
| `sess`, `listed` | what each session holds between its transactions |
| `crashes` | crashes so far (bounded by `MaxCrashes`) |

| Action | Code |
|---|---|
| `CreateOrder` | first transaction of `create_order_with_payment`. With `donate_stream` the second transaction has no effect (see findings), so the creation ends there; with `fake`, `AttachPayment` is the second. |
| `Cancel`, `Refund`, `ReplaceKey` | `cancel_unpaid_order`, `mark_refunded`, the inventory branch of `replace_access_for_issued_order`; the session holds no row before, so the locked row is fresh |
| `Confirm` | the transaction of `confirm_manual_payment`; continues with the issue |
| `IssueKey`, `MarkPaidButNotIssued`, `RefuseToIssue` | `issue_key_for_paid_order` with `_issue_from_inventory` nested in its transaction: one commit, on the held row. An order without a reservation of its own may be found short of stock although a key is on the shelf, when that key is locked by another session (`SKIP LOCKED`) |
| `ReceiveEvent`, `ApplyEvent` | `handle_webhook`: the insert of the event (a second insert of the same event waits, so no other session is inside the same event), the unlocked read, and the write |
| `PassDeadline` | the clock passes `reservation_expires_at` |
| `ListExpired`, `ExpireReservations` | `cleanup_expired_reservations`: the list, and the loop over it, in one transaction. The list locks nothing, so other sessions commit in between. |
| `ListStale`, `RecheckOrder`, `EndIteration` | `reconcile`: the two lists, then each order (provider's answer, transaction, issue), in any order |
| `Crash` | a stop, a cancellation, or an exception that leaves the handler or the iteration: the open transaction is lost and so are the held objects |

`Flush(db, old, new)` is the UPDATE of the unit of work: columns that changed
since the object was loaded. `ReservedFor` is the test every release and issue
makes on the key it has just locked; the key rows are not held by a session
before, so that test reads the database.

**Abstractions.** "Any key on the shelf" stands for the first by id with
`SKIP LOCKED`: which key is taken depends on the locks of other sessions. All
keys belong to one plan. The expiry sweep's per-order locks are one step: it
holds the rows until it commits. A deadlock between two transactions is
resolved by PostgreSQL by aborting one of them, which is `Crash` here. A
webhook for an unknown order or with a wrong amount raises, and its whole
transaction is rolled back, so it has no step. The provider's answer in
`RecheckOrder` is any of `ReportedStatuses`; the answer is asked before the
transaction and used in it, so nothing that matters happens in between. Both
providers in the repository answer pending (`fake.py:52`, `donate_stream.py:43`);
the safety properties are checked and proved for any answers, the liveness run
takes theirs. `OrdersService.replace_issued_key` (`orders.py:377`) is called by
nothing and is not modelled.

### Delivery

**Granularity.** A session claims a batch in one transaction and then takes its
jobs one after another: load (a transaction), send (no transaction), mark (a
transaction, or the `except` branch). Other sessions run between any two of
these: the background loop of the web process and the operator's callbacks of
the bot process all run `process_pending_jobs`.

| Variable | Code |
|---|---|
| `orders[o]` | of `orders`: issued or not, `issued_key_id` as the number of the key among the order's keys, `delivery_status` |
| `jobs[j]` | a row of `delivery_jobs`: status, order, the key of `payload_json`, `attempts_count`, and whether `next_retry_at` has passed |
| `work[s]` | the local variables of `process_pending_jobs`, and the Order object it holds |
| `reached`, `sends` | history: the keys whose message reached the buyer, and how often a job's message did |

| Action | Code |
|---|---|
| `Issue`, `Confirm`, `Replace` | `_finalize_order_issue` through the loop or a webhook, the operator's confirmation, the operator's replacement; the last two go on to process the queue (`admin_orders.py:58-80`) |
| `Resend`, `Refund` | `enqueue_resend`, `mark_refunded` |
| `Claim` | `claim_due_jobs`: which due jobs are the oldest is left open |
| `Load`, `LoadFails` | `_load_delivery_payload` and the decryption |
| `Send` | `send_key_delivery` and `send_setup_guide`: done, failed before, or failed after the message went out |
| `MarkDelivered`, `MarkFails`, `Fail` | the last transaction, its failure, and the `except` branch |
| `Finish`, `Crash`, `RetryDue` | end of the call; stop of the session; the retry delay passes |

Two details of SQLAlchemy are modelled because they matter. The Order object
of the previous job is still referenced when the next job is loaded, so for
the same order it is not reloaded, and assigning a `delivery_status` it already
has writes nothing (`Held`, `Shown`). And a rollback expires every object of
the session, whatever `expire_on_commit` says; `job.id` of the next job
(`delivery.py:48`, outside the `try`) then needs a query that an attribute
access cannot make in asyncio (SQLAlchemy raises `MissingGreenlet`): `Fail`
after a rollback ends the call unless the batch is empty.

`orders.delivery_attempts` is left out: nothing decides on it. The sessions of
this module are not open ones.

### Provisioning

`IssuingService` drives `HiddifyService`, which asks the panels and writes what
it got through the session of its caller, an operator's callback. (`reconcile`
would issue as well, but only on the answer succeeded, which no provider of the
repository gives, and only for orders with a payment id, `service.py:173`.)

| Variable | Code |
|---|---|
| `active` | `hiddify_servers` with `is_active` |
| `panel[v]` | the users of the panel of server `v`: the order and tag their comment names; `copy` tells two users of one marker apart |
| `orders[o]` | status, what the issued key gives access to, `preferred_hiddify_server_id` |
| `issued`, `broken` | fingerprints of the generated keys in `vpn_keys` |
| `strays` | history: the users that the search for another order came upon |
| `sess[s]` | the order, the tag, the row it loaded (`mem`), the servers still to ask, the users it got, whether it is `open`, the rows it keeps locked (`held`) and what it has made and will send (`made`) |
| `faults`, `crashes`, `toggles` | bounds |

| Action | Code |
|---|---|
| `TakeForIssue` | `confirm_manual_payment` and the first block of `issue_key_for_paid_order` |
| `TakeForReplacement` | the first block of `replace_access_for_issued_order`; `NewTags` is `_replacement_issue_tag` |
| `SelectServers` | `_select_servers_for_issue` of server orders and superkeys, and `get_active_server_choice` for an MTProxy order that names a server already (`hiddify.py:460-464`): reads outside a block, which opens the session; a preferred server that was switched off is a `NotFoundError`, which leaves the order as it is |
| `SelectLeastLoaded` | `select_least_loaded_server_by_active_users` (MTProxy without a server), which reads inside blocks |
| `Look`, `Post` | `_ensure_remote_user`: the search by the marker in the comment, the creation, and the second search where the answer names no user; an answer may be lost after the panel created the user |
| `FetchLinks` | `_fetch_mtproxy_links` |
| `Finalize`, `IssueFailed`, `ReplacementFailed` | `_finalize_hiddify_issue`, `_mark_paid_but_not_issued`, the handler of a failed replacement |
| `Deliver` | `process_pending_jobs` of the session and its end, which rolls back what is open |
| `Toggle`, `Refund`, `Crash` | `toggle_server` (and the registration of a server), `mark_refunded`, stops |

**Abstractions.** What a key gives access to is the set of remote users it is
made of; its fingerprint is that of the subscription URL, which a superkey
takes from order and tag. The load that `SelectLeastLoaded` compares is the
number of users in `panel`. `MarkerPrefixes` says which order numbers begin
with which, since the search is one for a substring. The search by Telegram id
and the hint in the name, which follows when the marker finds nothing
(`hiddify.py:856`), looks for the same order and tag. Health marks are left
out. Orders of the legacy mode, without a chosen server and without the strict
tests, are left out. Replacing a server order or a superkey cannot be reached,
because none of them is ever committed as issued (see findings).

### Checkout

| Variable | Code |
|---|---|
| `screen[u]`, `newest[u]` | the messages of a chat whose buttons still work, and the one that came or changed last |
| `fsm[u]` | the FSM data of a Telegram chat: plan, mode, server, promo code, whether a code is asked for |
| `run[h]` | a press on a confirm button, as far as it has come, with the row it will write; `kept` are the keys earlier orders of an open session hold |
| `orders`, `lastId` | committed rows of `orders` (with their redemption), and the sequence |
| `promos[c]` | `promo_codes`: terms, `max_uses`, `used_count` |
| `imported`, `keyOf`, `active` | prepared keys and what they are reserved for; active servers |
| `told` | history: who was told which number |
| `taps`, `edits`, `crashes` | bounds |

| Action | Code |
|---|---|
| `Buy`, `BuyMode`, `BuyFromServers`, `BuyServer` | the callbacks of `handlers/purchase.py` that lead from a plan to a confirmation |
| `AskPromo`, `EnterPromo` | the promo dialogue with `preview_promo` |
| `Press` | `confirm_buy_callback`: the button names the plan, the rest is the FSM data |
| `VkPlanEntry` ... `VkConfirmBuy`, `WhatsappPlanEntry` ... `WhatsappConfirmBuy` | the same dialogue of `vk_bot.py` and `whatsapp_bot.py`, whose buttons carry everything |
| `Resolve` | `_resolve_fulfillment_mode`, the tests of plan and server, and the price |
| `Redeem` | `get_valid_promo` with the row lock, and the discount |
| `Write` | the inserts, the use counted, a key reserved with `SKIP LOCKED` |
| `Commit` | the end of the outermost block: a commit for Telegram, nothing for VK and WhatsApp |
| `Tell`, `ChatTell`, `CloseWebhook` | the answer; a webhook of WhatsApp may go on with its next message in the same session |
| `SetPromo`, `Toggle`, `ImportKey` | operators |

A row remembers the message it was confirmed from (`shown`) if that message was
the newest and nothing else of the customer was under way; `AsShown` compares.
Otherwise the customer confirmed something stale, and the code gives no promise
(a Telegram button after a change of the FSM data creates an order of another
mode, `purchase.py:449`).

**Abstractions.** Money is in hundredths, and rounding half up is integer
arithmetic. VK and WhatsApp need no memory of a chat, so one slot stands for
any message. Lists of ten servers are not cut; WhatsApp's cut to three buttons
is (`ThreeButtons`). A code's dates and switch act as its limit does, as
refusals. `ImportKey` stands for keys that arrive by other means than the
operators' imports, which never commit (see `Imports`). `/promo`, which
activates a code for the next order, writes nothing that lasts
(`promos.py:96`), and neither does a change of a shop setting
(`admin_settings.py:69`): both are left out.

### UsageMonitor

| Variable | Code |
|---|---|
| `snapshots` | `hiddify_server_usage_snapshots` |
| `alerts` | the rows of `audit_logs` that the cooldown looks for |
| `active` | `hiddify_servers` with `is_active` |
| `run[m]` | a session: when it began, the servers it listed and has still to measure, the locations it found hot, and, if it is open, what it wrote |
| `lastSent` | history: when the loop last sent an alert |
| `now`, `events` | a discrete clock; bounds |

| Action | Code |
|---|---|
| `Begin` | `collect_due_snapshots` (loop) and `collect_snapshots_now` (an operator's button) list servers |
| `Measure` | `_measure_server_load` of one server, answered or not, and its row |
| `Compare` | `_build_location_usage_states` and both tests for alerts |
| `Quiet`, `Send`, `Record` | `_alert_recently_sent`; the message; the row that starts the cooldown |
| `Finish`, `Crash`, `Toggle`, `Tick` | the end of the session, stops, `toggle_server`, time |

`LoadOf`, `UsageOf`, `CurrentUsage` say what a panel's answer means under the
names its versions use, `Average` and `Value` what is compared, `Parsed` and
`Threshold` which threshold a location has by any of its names.
`CapacityState` and `Statuses` are the operators' screen.

**Abstractions.** A percentage is taken without its decimal. The average per
user, health marks and the wording of alerts are left out: nothing decides on
them.

### Imports

| Variable | Code |
|---|---|
| `fsm[a]` | state and data of an operator's chat in `MemoryStorage` |
| `run[h]` | an update that waits for a document, a panel or the database |
| `keys`, `servers` | fingerprints in `vpn_keys`; addresses in `hiddify_servers` |
| `connected`, `imported` | history: what the operator was last told |

| Action | Code |
|---|---|
| `KeysDialogue`, `ServersDialogue`, `Leave`, `Answer` | buttons and answers of `admin_import.py` and `admin_hiddify.py` |
| `KeyDocument`, `ServerDocument`, `Preview` | a document is fetched; its preview arrives, whatever the chat has come to |
| `ConfirmKeys`, `ConfirmServers` | `import_file` of each kind, which validates again |
| `Register`, `Ask`, `Save`, `Told` | `register_server`: the panel is asked, the row written, the chat cleared |
| `Insert`, `Complete` | `bulk insert` of keys; the report, and the end of the session |
| `Crash` | the process restarts: chats and sessions are lost |

`ValidKeys`, `ValidServers`, `Rows`, `Normal` are the validation; a workbook's
row is its plan, its key, and whether it fits the columns that decide nothing
else. An import holds its uncommitted rows, so another session that inserts
the same waits (`Waits`), and of two that wait for each other one is aborted
(`eachOther` in `Save`).

## Properties

| Module | Property | Meaning |
|---|---|---|
| `OrderLifecycle` | `TypeOK` | type invariant |
| | `KeyOrderLink` | a key is reserved for exactly the order whose row names it |
| | `SoldOnce` | no key is sold under two orders |
| | `SaleIsQueued` | a key is sold exactly when its delivery to the buyer was queued; the key an order shows is live |
| | `PaidBeforeKey` | nothing is sold, and no order is in a paid state, without a confirmed payment |
| | `ClosedHoldsNothing` | only unpaid, paid and refunded orders hold a key; refunded ones because `mark_refunded` accepts a paid order that still holds a reservation and leaves it, for good |
| | `SoldForever` | a sold key keeps its owner, and a broken one stays broken |
| | `ImplementsLedger` | the services implement `KeyLedger` |
| | `PendingLeavesAlone` | with a provider that answers pending, what the loop does to the orders it holds stale rows of changes no order, key, job or payment; its only writes are the expiries of the sweep |
| | `UnpaidReservationEnds`, `PaidIsServed` | liveness |
| `Delivery` | `OneHand` | a job is in the hands of one session at most, and is marked processing while it is |
| | `SendsAreLimited` | a job's message never goes out more often than `delivery_max_attempts`; each time is an attempt |
| | `DeliveredReached` | a delivered job put its key, or a replacement of it, into the buyer's hands |
| | `ShownIsEarned` | an order shown as pending or to be retried has an open job, one shown as delivered a delivered job |
| | `ImplementsPromise` | the sessions that work on the queue implement `DeliveryPromise`: no attempt sends twice, no key older than the job's is sent, nothing is sent for a job that ended |
| | `OnlyStopsStrand` | a claimed job loses its session only to a stop, or to a rollback while another job of its batch was handled |
| | `JobsEnd` | liveness: every queued job ends |
| `Provisioning` | `OneUserPerSession` | retries do not pile up users on a panel: per marker there are no more than sessions |
| | `KeyInForce` | an order shown as issued has a key that no replacement broke, unless the search for another order came upon the key's user |
| | `FirstLinksRecorded` | the MTProxy link a buyer is sent is in the database, unless its order had been issued one before and the server was therefore read outside a block |
| | `PaidIsInHand` | a paid MTProxy order is in the hands of a session, unless one stopped, it was issued before, or the search for it came upon the user of another order |
| | `ServedInCountry` | the buyer of a server gets it or another one of its country |
| | `SuperkeyWhole` | a superkey that is sent has a source on every server it was to be made of, two at least |
| `Checkout` | `ChargedInBounds` | an order costs no less than the minimum, no more than the price, and its discount explains the difference |
| | `AsShown` | who confirms the newest message gets the plan, server, code, mode and amount it shows |
| | `TelegramToldExists` | the number a Telegram customer is told is that of a committed order of hers |
| | `UsesAreCounted` | `used_count` is the number of redemptions |
| | `ImplementsShop` | a purchase of four steps, among others and the operators' changes, implements the one moment of `Shop`: code with a use left, current terms, a free key of the plan |
| | `OneKeyEach` | every order of prepared keys has a key of its own, of its plan |
| `UsageMonitor` | `CooldownHolds` | an alert that is recorded keeps every later session quiet for the cooldown, under every name of the location |
| | `AlertsAreFresh` | a location is found near capacity only if every server of it has a sample that supports this by itself: users over the threshold within the last interval, or, for traffic, a sample within the window of averages |
| `Imports` | `TypeOK` | a handler finds in the chat's data what it reads, whatever the chat came to meanwhile |
| | `NoPanelTwice` | a panel is stored once however its address is spelled |
| | `ConnectedIsThere` | a server told to be connected is in the table, after a restart as well |

`Delivery`, `Provisioning`, `Checkout` and `UsageMonitor` have a `TypeOK` too.
Stated and proved, but in no run (some follow from a property of a run, some state
a finding for every instance):

| Module | Property | Meaning |
|---|---|---|
| `OrderLifecycle` | `Remembered` | a row a session holds differs from the table only in ways that do the keys no harm |
| | `StrandedForever` | a refunded order that still holds a reservation keeps it, once nobody works on it with an older row |
| | `DonateNeverReconciled` | with `donate_stream` no order has a payment id, and the loop looks at none |
| `Delivery` | `FinalIsFinal` | a job that ended stays as it is |
| | `AbandonedForever` | a job in `processing` that is in nobody's hands stays there |
| | `ProcessingIsInHand` | where only the messenger fails, every job in `processing` is in a session's hands |
| `Checkout` | `PlanAllowsMode` | an order's mode is one its plan can be fulfilled in |
| | `RedeemedInLimit` | no commit redeems a code beyond the limit of that moment, nor twice for one customer |
| | `ChatOrdersAreLost` | no order of a VK or WhatsApp customer is in the table |
| `UsageMonitor` | `SamplesSpaced` | the loop's samples of a server are an interval apart |
| | `ScreenAgrees` | the operators' screen and the alerts agree |
| | `OpenLoopLeavesNothing` | an iteration whose session is open (which takes a provider that answers succeeded) leaves no sample and no alert |
| `Imports` | `SavedIsReachable` | a server is stored only if its panel answered |
| | `ImportsAreLost` | an import of a file writes nothing that lasts |
| `Provisioning` | `ServersNeverIssued` | no server order and no superkey is committed as issued |

## Runs

| Run | Instance | Question |
|---|---|---|
| `life_donate` | 2 orders, 2 users, 3 keys, 2 handlers, 1 crash, `donate_stream` | all safety of the default configuration, and the refinement |
| `live_fake` | 1 order, 2 keys, 2 handlers and the loop, 1 event (paid), 1 crash, `fake` answering pending | reservations end, paid orders are served or found short of stock, asking the provider does no harm |
| `queue_all` | 1 order with 2 keys, 2 jobs, 1 handler and the loop, batches of all there is, all faults | safety of the queue whatever fails, what strands a job, and that it keeps `DeliveryPromise` |
| `live_queue` | 2 jobs, the limit of 20 of the code, 1 handler and the loop, failures of the messenger only | every job ends |
| `prov_mtproxy` | 2 MTProxy orders, the number of one beginning with that of the other, 2 panels, 2 sessions, 1 replacement, 1 fault | overlapping issues and replacements; users shared by two orders; what is sent and what is paid |
| `prov_servers` | a server order and a superkey, 2 panels in 2 countries, 2 sessions, 1 fault, 1 crash, 1 switch | retries after rollbacks and lost answers; whom the keys go to |
| `checkout` | customers of the three messengers, 2 plans, 2 servers, 1 key, 1 code, 2 handlers, 2 orders, 1 edit | stale screens, prices, discounts, what customers are told |
| `promo_race` | 2 Telegram customers, 1 plan, 1 key and 1 that arrives, limits 1 and 2, 2 handlers, 2 edits, 1 crash | concurrent redemption and reservation: are they the moments of `Shop`? |
| `usage` | 2 servers of one location, entered under one name, loop and operator, both kinds of alert on, 1 event | cooldown and freshness of alerts |
| `imports` | 1 chat, 2 handlers, files with repeated and unfit rows, 2 panels under 3 spellings, restarts | the dialogues against their own late answers |
| `found_confirm_twice`, `found_told_order_lost` | see findings | violations |

These configurations are beside the runs, to be checked by hand. They pass:
`life_fake` (the safety of the order lifecycle with the `fake` provider, whose
`AttachPayment` and reconciliation hold stale rows), `webhook` (races of two
events on one order while its key goes to another one) and `queue_batches`
(three jobs in batches of two). The other `found_*` ones must end in a
violation, see findings.

**Bounds and why they are enough.**

* Order lifecycle. The hazards are about two sessions on one order, or about
  one key moving between two orders: two orders, two handlers and the loop
  produce every such pair, and three keys leave one on the shelf after a sale
  and a replacement. An order id is created once, events are applied once,
  deadlines pass once, so only crashes need a bound (`MaxCrashes`).
* Queue. The hazards are about two sessions and the jobs of one order, which
  all assign the status of that order. A claim takes up to 20 jobs
  (`delivery_jobs.py:40`): with two jobs a limit of 2 in `queue_all` is no less.
  Two attempts make the first failure a
  retry and the second the last. The ids of jobs bound what may be queued.
* Provisioning. Two panels tell "the chosen one" from "another one" and make
  the smallest superkey; two operators' sessions make every pair of overlapping
  calls, on one order and on two. Two MTProxy orders with similar numbers are
  the smallest case of a shared user: in `prov_mtproxy` the search of the one
  comes upon the user of the other, its replacement breaks the other's key, and
  a second key for it is refused. One fault is a lost answer followed by a
  retry, or the failure that overwrites `issued` and opens the next attempt.
  `MaxReplacements`, `MaxFaults`, `MaxCrashes`, `MaxToggles` bound the rest.
* Checkout. Two messages of a chat and two handlers give every pair of a
  screen and a screen it replaced, of two presses, and of a press and a tap.
  `Budgets` gives each customer a number of taps that is enough for an order
  with a promo code and a second one; `MaxOrders` and `MaxEdits` bound the
  rest. One key for two orders, and a code with one use left, are the races.
* Usage. Times 0 to 2 with an interval and a cooldown of 1 put a sample, an
  alert and their ends into one behaviour; `MaxEvents` counts failures,
  switches and stops. Both thresholds, of users and of traffic, are on, and one
  is an override under another name of the location. Both servers have one
  name, so that "every server of a location" means two: that the cooldown is
  shared by servers entered under different names is left to `CooldownIsHeld`.
* Imports. One chat is where the dialogues meet; two handlers stand for what
  the chat started earlier, or for another operator's update.

Symmetry (keys or handlers, which no property names) is used in safety runs
only. Deadlock is checked in the runs of `OrderLifecycle` and `Imports`. The
others turn it off because the system may stop there: the ids of jobs are used
up, the customers' taps, the operators' actions or the time are over.

## Fairness

`OrderLifecycle` assumes weak fairness of `Continue(s)` (asyncio resumes a
coroutine whose query was answered; the database aborts deadlocks), of
`WorkerStep` (the loop sleeps 15 seconds and runs again, `containers.py:338`),
and of `PassDeadline` (time passes). It assumes nothing of customers, operators
or the provider: no order need be created, confirmed, or reported.

`Delivery` assumes weak fairness of every session's `Process` and of
`RetryDue`. The other modules assume none: nothing in them is bound to happen
but by the hand of an operator or a customer.

* `UnpaidReservationEnds` holds with crashes: the sweep starts over.
* `PaidIsServed` excepts crashes: no list of the loop contains orders in
  `paid`, so a stop between the confirmation and the issue leaves the order
  until an operator confirms it again.
* Nothing of the kind is claimed for an order short of stock: with the providers
  of the repository the loop never serves it (findings 5 and 11).
* `JobsEnd` is checked with messenger failures only (`Faults` of `live_queue`:
  a message that fails before or after it went out): with the other faults it
  does not hold, see `found_batch_stranded`; what they do is `OnlyStopsStrand`.

## What the runs found

Each is a configuration that ends in a violation; the first two are runs.

1. `found_confirm_twice` (`OneLiveKeyPerOrder`): two operators confirm one order
   at once; both sessions hold it as paid and each issues a key. A test of the
   repository says repeated confirmation is idempotent; it is so only one after
   the other. `OneKeyUnlessOverlap` proves that it takes an overlap: where no
   order is taken up while a row of it is held (`OneAtATime`), no order ever has
   two live keys.
2. `found_told_order_lost` (`ToldOrderExists`): VK and WhatsApp customers are
   told the number of an order that is rolled back when the session of the
   request is closed, because that session read the catalog before it called
   `create_order_with_payment` (`vk_bot.py:374`). Telegram is free of it, since
   `AuthMiddleware` commits the user first and leaves no transaction behind
   (`TelegramToldExists`). `OnlyTelegramOrders` proves that no VK or WhatsApp
   order is ever in the table, in any instance.
3. `found_expired_paid` (`ExpiresOnlyUnconfirmed`): the sweep's second look at an
   order is a look at the object it listed, so an order confirmed in between is
   set to `expired_reservation`. Again it takes an overlap
   (`NoExpiryUnlessOverlap`).
4. `found_issued_refunded` (`IssuesOnlyReadyOrders`): an order refunded between
   confirmation and issue is issued, and `refunded` is overwritten. It takes an
   overlap, or an operator who refunds or cancels an order somebody works on
   (`ReadyUnlessOverlap`).
5. `found_donate_stuck` (`ShortfallRecovered`): with `donate_stream`, reading the
   payment URL outside a block begins the session's transaction, the block that
   writes `provider_payment_id` is a savepoint of it, and closing the session
   rolls it back; `reconcile` skips orders without that id, so an order short of
   stock is never recovered by the loop (`DonateIsNeverReconciled`), although
   `tests/test_payments.py:585` says it is.
6. `found_batch_stranded` (`JobsEnd`): a key that cannot be decrypted fails its
   job, but the rollback expires the objects of the batch, so the call ends with
   an exception when it reads the next job's id. The rest of the batch, up to 19
   jobs, stays in `processing`, which nothing ever looks for
   (`AbandonedJobsAreLost`).
7. `found_sent_unrecorded` (`SentIsRecorded`): the key of a server order or a
   superkey is sent to its buyer while the session that made it is open: order,
   key and job are rolled back (`hiddify.py:406` and `:593` read outside a
   block), and the next attempt sends it again. `ServerIssuesAreLost` proves
   that no such order is ever committed as issued. Tests see the session's own
   writes (`tests/test_payments.py:482`). `found_link_unrecorded` shows the same
   of an MTProxy order: a failing issue overwrites `issued` with
   `paid_but_not_issued` (`issuing.py:468`), the next attempt finds a preferred
   server, reads it outside a block (`hiddify.py:460`), and sends a link that is
   rolled back. `FirstLinksRecorded` says that it takes this.
8. `found_replaced_twice` (`OneKeyInForce`): of two overlapping replacements each
   breaks the key it started from, so the first one's new key stays in force
   beside the second's (`issuing.py:357` tests the object it loaded).
9. `found_alert_repeated` (`AlertedOncePerCooldown`), for a provider that answers
   succeeded, which none in the repository does: an iteration whose session
   `reconcile` left open sends its alert, and the row that starts the cooldown is rolled back;
   the alert is repeated every 15 seconds (`tests/test_hiddify_usage.py:94`
   asserts one). `OpenLoopIsLost` proves that such a loop never leaves a row;
   `OnlyLostRowsRepeat` that with a session that commits, only a stop between
   the message and its row repeats an alert.
10. `found_import_lost` (`ImportedIsThere`): an import from a file reports what it
    imported and is rolled back with the session, which read plans and keys
    before (`admin_import.py:124`). No import of a file ever lasts
    (`FileImportsAreLost`); registering one server does (`ConnectedStays`).
11. `found_shortfall_stuck` (`ShortfallRecovered`): with `fake` an order does have
    a payment id, but the provider answers pending (`fake.py:52`), so the loop
    never serves an order short of stock either. `tests/test_payments.py:436`
    asserts that it does, with a provider of its own that answers succeeded.
    `PendingAnswersChangeNothing` proves what is left of reconciliation: it does
    no harm.

3 to 5 do not contradict the invariants of the order lifecycle: even then no key
is lost or sold twice, which is what `Remembered` explains. A refund of a paid
order that still holds a reservation is a case beside them: the key stays
reserved for good (`RefundsStrandKeys`). Two more consequences of the same kind
are visible in the code without a property of their own: `/promo` and a change
of a shop setting are confirmed and never committed (`promos.py:96`,
`admin_settings.py:69`); and an order whose chosen server was switched off ends
its issue with a `NotFoundError` nobody handles and stays `paid`.

The exceptions in `KeyInForce` and `PaidIsInHand` are real as well. With orders
1 and 12, the search for the users of order 1 finds that of order 12. If it is
not the key of order 12 yet, order 1 is issued it, and a replacement of order 12
that ends just then breaks the key order 1 has become the owner of; if it is,
the unique constraint refuses it to order 1, an exception nobody handles, and
order 1 stays `paid`. Both happen in `prov_mtproxy`, as TLC shows when the
exceptions are left out.

## Proofs

The proofs are about the modules the runs check, for every value of their
constants: any number of orders, keys, customers, operators, sessions, servers,
faults, stops and so on. They rest on the assumption each module states about
its constants (`ConstantsAssumption`, `CheckoutAssumption` and so on), which TLC
evaluates in every run, and on the library's facts about finite sets and
well-founded orders.

| Module | Theorems |
|---|---|
| `OrderLifecycleProofs` | `TypeCorrect`, `KeysStayLinked`, `KeysAreSoldOnce`, `SalesAreQueued`, `ClosedOrdersHoldNothing`, `KeysArePaidFor`, `SalesAreFinal`, `MemoriesAreFaithful`, `ServicesImplementLedger`, `RefundsStrandKeys`, `DonateIsNeverReconciled`, `PendingAnswersChangeNothing`, `OneKeyUnlessOverlap`, `NoExpiryUnlessOverlap`, `ReadyUnlessOverlap` |
| `DeliveryProofs` | `QueueInvariant`, `DeliveryTypeCorrect`, `ClaimedByOne`, `SendsLimited`, `DeliveredHasReached`, `ShownHasBeenEarned`, `FinalStaysFinal`, `StrandedByStopsOnly`, `ProcessingInHand`, `AbandonedJobsAreLost`, `QueueKeepsPromise` |
| `ProvisioningProofs` | `ProvisioningInvariant`, `ProvisioningTypeCorrect`, `UsersStayFew`, `LinksSentAreRecorded`, `CountriesAreKept`, `SuperkeysAreWhole`, `IssuedKeysInForce`, `PaidOrdersAreInHand`, `ServerIssuesAreLost` |
| `CheckoutProofs` | `CheckoutInvariant`, `CheckoutTypeCorrect`, `ChargesStayInBounds`, `ModesAreAllowed`, `OrdersAreAsShown`, `UsesStayCounted`, `KeysStayApart`, `TelegramIsToldTheTruth`, `RedemptionsInLimit`, `OnlyTelegramOrders`, `PurchasesAreMoments` |
| `UsageMonitorProofs` | `UsageInvariant`, `UsageTypeCorrect`, `CooldownIsHeld`, `AlertsLookAtFreshSamples`, `LoopSamplesSpaced`, `ScreenAndAlertsAgree`, `OpenLoopIsLost`, `OnlyLostRowsRepeat` |
| `ImportsProofs` | `ImportsInvariant`, `ImportsTypeCorrect`, `PanelsStoredOnce`, `SavedPanelsAnswered`, `ConnectedStays`, `FileImportsAreLost` |

**Order lifecycle.** None of the invariants is inductive: what a session will
flush depends on the row it remembers. The missing fact is `Remembered`: a
remembered reservation is the one in the database, or the order has none any
more; a key remembered as issued was sold. It holds because an order reserves a
key once, at its creation, so a stale row never names an older key while the
order holds a newer one. `KeyInv` joins it to the type invariant,
`KeyOrderLink`, `ClosedHoldsNothing`, `SaleIsQueued`, `SoldOnce` and
`ShelfIsClean` (a key on the shelf carries nothing of its past), and is
inductive. The steps are classified once: `NextIsKeyStep` shows that every step
is a `KeyStep`, one of reserve, release, sell, replace, or no change to the
keys, although the row it was decided on may be stale. The invariants about
keys, `SoldForever` and the refinement follow from the kind alone. The statuses
are followed by `RowsStaySound`, the memories by `KeepsRemembered`.
`PaidBeforeKey` adds that a session about to issue does so for a confirmed
order (`PaidInv`).

What the code does not guarantee is proved from the order of events it would
take. `OneAtATime` says that nobody takes up an order while a row of it, read
earlier, is held by another session or the loop's list; `OperatorsWait` that no
operator cancels or refunds an order somebody works on. Nothing in the code sees
to either, so they are hypotheses of a theorem and never assumptions of the
model: under them the properties that findings 1, 3 and 4 refute hold. Each
needs an invariant of its own. `OneKey`: the live key of an order is the one its
row shows, and whoever works on an order that has one knows it. `UnpaidRows`: an
order confirmed as paid is never unpaid again, and no list still shows it so.
`ExactRows`: a remembered status is the one in the table. They rest on a second
classification of the steps, `NextIsStatusStep`: what a step does to statuses,
held rows and the list, and to which order.

`RefundsStrandKeys` follows an order that is refunded with its reservation while
no session holds an older row of it: no step of the code releases or sells that
key (`StrandedStep`).

**Delivery.** `QueueInv` joins to the properties that jobs belong to issued
orders and their keys, that a session's local variables fit its phase, that
sends are counted against attempts, and `Earned`: an order shown as pending or
to be retried has an unfinished job that is not in the hands of a session whose
stale Order object would hide the end of it. `StrandedByStopsOnly` goes through
the steps and asks of each which jobs it lets go of; `ProcessingInHand` is the
special case in which no key is unreadable, no commit fails and no session
stops, for batches of any size.

The mapping to `DeliveryPromise` shows of a job what is visible from outside:
queued, retried and processed are all `open`, and `sends` becomes the messages
put into the buyer's hands. `QueueKeepsPromise` needs `PromiseInv` beside
`QueueInv`: a job not queued yet is blank, a failure is permanent only where
keys may be unreadable, and who marks a job as delivered has sent for it.

**Provisioning.** `ProvisioningInv` says of each session what it gathered for
which order (`SourcesSound`: the servers left to ask and the sources it has
make up the superkey, unless one failed, which it remembers), of each row that
only MTProxy links ever become a key, and of each session that it becomes
open over MTProxy links only if their order named a server. The users of a marker and the sessions that looked and
found none are counted together (`Counted`): who finds nobody was not counted
before, and a session that creates a user stops being one that is about to.
`LinksRecorded` says that who starts from a row with a server, or replaces a key,
works on an order that has a key, and keys stay (`KeysStay`): this is what an
open session of MTProxy links always comes from (`OpenSound`).

`IssuedKeysInForce` and `PaidOrdersAreInHand` need `StraysKnown` besides: every
user in a key, or in what a session gathered, is its order's own or one that a
search of another order came upon. Two orders have one user in their hands only
if it is such a stray (`SharedIsStray`), so a replacement breaks another order's
key, and the unique constraint refuses a new one, only then. `LetsGo` lists how a
session parts with a paid order: with the outcome written, or by an exception
the property names.

**Checkout.** `CheckoutInv` follows a row from the screen to the table:
`DialogueSound` (every confirmation names a mode, a server that fits it, and a
price with its discount; the newest message of a Telegram chat agrees with the
FSM data), `RunsSound` (the row of a press after each of its steps),
`CodesHeld` (a handler past the redemption holds the row of the code alone, and
the count it will write is one more than the table's), `KeysHeld` (a key is
locked by one handler at most, and free until then), `OrdersSound` and
`NumbersKept`. Lemmas about money (rounding half up, the minimum, the cut
discount) carry `ChargedInBounds`.

`PurchasesAreMoments` takes from it that a commit is a moment of `Shop`: what
was decided three steps before, with other sessions in between, is still right
because the row of the code and the key are locked (`CommitPlaces`). `Resolve`,
`Redeem` and `Write` are invisible; so are stops. `OnlyWriters` says that only
`Commit` and the operators change the tables, which also gives
`OnlyTelegramOrders`.

**Usage.** `UsageInv` dates what a session knows: a server that is listed and no
longer to be measured has a sample younger than an interval, and an alert that
was just sent respects the cooldown. `UsageTypeCorrect` and the part of
`AlertsAreFresh` about traffic need sums over sets, which are folds: that such a
sum exists (`SumsExist`), is a natural number, and is at most the largest summand
times their number is proved without induction, from the least size at which it
would fail. `OnlyLostRowsRepeat` follows the last alert the loop sent until its
row is in the table, or lost with a stop. `ScreenAgrees` is about
the operators alone and needs no invariant but the types.

**Imports.** `ImportsInv` says that a chat in a state has the data of that
state, that addresses are stored as `Normal` leaves them, and that nothing but
a registration ever writes outside of an open session. `FileImportsAreLost` is
the last part, said of the tables.

**Only model-checked:** the liveness properties (`UnpaidReservationEnds`,
`PaidIsServed`, `JobsEnd`), because the prover does not handle fairness. Every other property of a passing run is a
theorem.

## What is left out, and why

* The failure branch of the payment creation (`orders.py:173-191`): neither
  shipped provider raises there, except for the settings read of
  `donate_stream`, whose transaction is rolled back anyway.
* `OrdersService.replace_issued_key` (`orders.py:377`): nothing calls it; the
  operator's button goes to `replace_access_for_issued_order`.
* `payments` rows: written by confirm, webhook and creation, read by
  `_resolve_payment_status` only for orders with a payment id.
  `ReportedStatuses` stands for what it answers.
* The audit log apart from alerts, notifications, failure reasons and health
  marks: no service decides on them.
* Orders of the legacy mode without a chosen server: no dialogue creates them.
* `users`: a row is registered or updated on each contact, by one statement
  whose only protocol is the commit that `Checkout` models as the difference
  between Telegram and the other messengers.
* The text of a delivery and of the screens, and the clients of messengers and
  panels: formatting and I/O; what may fail in them is a fault of the models.
* The subscription of a superkey, exports, own orders, support: they read and
  answer, and keep nothing between two requests.
* Web application, configuration and migrations: start-up and routing without a
  protocol of their own.
* The composition of the order lifecycle with the queue and with provisioning
  in one specification: its states are out of TLC's reach; each module has the
  other's steps that disturb it instead.

## Plan

Written and proved: the six components above. What a next step could add, in
this order:

1. `KeyInForce` and `OneKeyInForce` for replacements that do not overlap, the
   counterpart of finding 8, as for findings 1, 3 and 4.
2. An abstract specification of the dialogues of `Imports` and of the samples of
   `UsageMonitor`, as `Shop` and `DeliveryPromise` are of the others.
3. `OrderLifecycle` as a second implementation of `Shop`, for the orders that
   are fulfilled from prepared keys, so that the two views of an order's
   creation are one.
