------------------------------ MODULE Checkout ------------------------------
(***************************************************************************)
(* From the catalog to a row of orders: the dialogues of the Telegram, VK  *)
(* and WhatsApp customers and OrdersService.create_order_with_payment with *)
(* the promo codes.                                                        *)
(*                                                                         *)
(* What the customer reads is kept apart from what the program does: a     *)
(* message stays on the screen, buttons and all, while plans, servers and  *)
(* promo codes change, and a Telegram confirm button says only the plan;   *)
(* the rest is in the FSM data of the chat, which any other message of the *)
(* same chat rewrites.  Buttons of VK and WhatsApp carry everything.       *)
(*                                                                         *)
(* A Telegram session commits the user before the handler runs and enters  *)
(* create_order outside of a transaction.  The session of a VK or WhatsApp *)
(* request has read the catalog by then, so the order is written in a      *)
(* savepoint of a transaction nobody commits.                              *)
(***************************************************************************)
EXTENDS Naturals, FiniteSets

CONSTANTS
    TelegramUsers, VkUsers, WhatsappUsers,
    Plans, Servers, Keys, Codes, Handlers,
    NoServer, NoKey, NoCode, NoMode, NoUser, NoTerms,
    Provisioning,    \* provisioning_mode of each plan
    BasePrice,       \* price_value of each plan; money is in hundredths
    PlanOf,          \* the plan of each prepared key
    Stock,           \* the keys imported before the shop opens
    Terms,           \* the discounts an operator grants: [type, value]
    Limits,          \* the max_uses an operator sets
    MinAmount, ServerMarkup, SuperkeyMarkup,
    Slots,           \* messages of a chat the customer still presses buttons of
    MaxOrders,       \* bound on the ids of orders
    Budgets,         \* bounds on what each customer presses or types, one of them
    MaxEdits,        \* bound on the operators' changes
    MaxCrashes       \* bound on sessions that stop

ChatUsers == VkUsers \cup WhatsappUsers
Users == TelegramUsers \cup ChatUsers
Modes == {"inventory", "mtproxy", "server", "superkey"}
OrderIds == 1..MaxOrders

ASSUME CheckoutAssumption ==
    /\ TelegramUsers \cap ChatUsers = {} /\ VkUsers \cap WhatsappUsers = {}
    /\ NoUser \notin Users
    /\ NoServer \notin Servers /\ NoKey \notin Keys /\ NoCode \notin Codes
    /\ NoMode \notin Modes /\ NoTerms \notin Terms
    /\ IsFiniteSet(Servers) /\ IsFiniteSet(Keys) /\ IsFiniteSet(Handlers)
    /\ Plans # {} /\ Slots # {}
    /\ Stock \subseteq Keys
    /\ Provisioning \in [Plans -> {"auto", "inventory", "hiddify", "mtproxy"}]
    /\ BasePrice \in [Plans -> Nat] /\ PlanOf \in [Keys -> Plans]
    /\ Terms \subseteq [type : {"percent"}, value : 1..95] \cup
                       [type : {"fixed"}, value : Nat \ {0}]
    /\ Limits \subseteq Nat
    /\ MinAmount \in Nat /\ ServerMarkup \in Nat /\ SuperkeyMarkup \in Nat
    /\ Budgets \subseteq [Users -> Nat]
    /\ MaxOrders \in Nat /\ MaxEdits \in Nat /\ MaxCrashes \in Nat

(* What a message shows: a confirmation with its price, a choice of modes, *)
(* a list of servers, or anything else.                                    *)
Message == [kind : {"other", "modes", "servers", "confirm"}, plan : Plans,
            offered : SUBSET Modes, mode : Modes \cup {NoMode},
            server : Servers \cup {NoServer}, code : Codes \cup {NoCode},
            terms : Terms \cup {NoTerms}, total : Nat]

Showing(kind, p) ==
    [kind |-> kind, plan |-> p, offered |-> {}, mode |-> NoMode,
     server |-> NoServer, code |-> NoCode, terms |-> NoTerms, total |-> 0]

FirstSlot == CHOOSE s \in Slots : TRUE
SomePlan == CHOOSE p \in Plans : TRUE
Menu == Showing("other", SomePlan)

VARIABLES
    imported, \* the ids of vpn_keys
    keyOf,    \* the order each key is reserved for, 0 while it is available
    active,   \* hiddify_servers with is_active
    promos,   \* promo_codes: terms, max_uses and used_count
    orders,   \* table orders, by id; promo_redemptions are the rows with a code
    lastId,   \* the last id the sequence gave
    fsm,      \* FSM data of the Telegram chats
    screen,   \* the messages each customer may still press buttons of
    newest,   \* the slot of the message that came or changed last
    run,      \* the handlers of presses on a confirm button
    told,     \* who was told that an order of which number is created
    taps,     \* how many more messages each customer sends
    edits, crashes   \* how many there were

vars == <<imported, keyOf, active, promos, orders, lastId, fsm, screen, newest, run, told,
          taps, edits, crashes>>

stored == <<imported, keyOf, active, promos, orders, lastId>>
counters == <<edits, crashes>>

NoOrder == [user |-> NoUser, plan |-> SomePlan, mode |-> NoMode, server |-> NoServer,
            key |-> NoKey, code |-> NoCode, terms |-> NoTerms, original |-> 0,
            discount |-> 0, amount |-> 0, shown |-> Menu]

(* kept: the keys of earlier orders of a session that is still open. *)
Idle == [pc |-> "idle", user |-> NoUser, slot |-> FirstSlot,
         id |-> 0, used |-> 0, row |-> NoOrder, kept |-> {}]

Cleared == [plan |-> SomePlan, mode |-> NoMode, server |-> NoServer,
            code |-> NoCode, asked |-> FALSE]

Available == {k \in imported : keyOf[k] = 0}

Init ==
    /\ imported = Stock
    /\ keyOf = [k \in Keys |-> 0]
    /\ active = Servers
    /\ promos \in [Codes -> [terms : Terms, limit : Limits, used : {0}]]
    /\ orders = [i \in OrderIds |-> NoOrder]
    /\ lastId = 0
    /\ fsm = [u \in TelegramUsers |-> Cleared]
    /\ screen = [u \in Users |-> [s \in Slots |-> Menu]]
    /\ newest = [u \in Users |-> FirstSlot]
    /\ run = [h \in Handlers |-> Idle]
    /\ told = {}
    /\ taps \in Budgets
    /\ edits = 0
    /\ crashes = 0

-----------------------------------------------------------------------------
(* Money                                                                   *)

AtLeast(m, n) == IF m < n THEN n ELSE m
AtMost(m, n) == IF m > n THEN n ELSE m

(* ROUND_HALF_UP of n hundredths of a hundredth. *)
Quantized(n) == (n + 50) \div 100

Markup(mode) ==
    CASE mode = "superkey" -> SuperkeyMarkup
      [] mode = "server"   -> ServerMarkup
      [] OTHER             -> 0

Price(p, mode) == AtLeast(Quantized(BasePrice[p] * (100 + Markup(mode))), MinAmount)

(* Mutant: the minimum less the price. *)
DiscountSwapped(amount, terms) ==
    IF terms.type = "percent" THEN Quantized(amount * terms.value)
    ELSE AtMost(terms.value, MinAmount - amount)

(* A fixed discount stops at the minimum, which no price is below. *)
Discount(amount, terms) ==
    IF terms.type = "percent" THEN Quantized(amount * terms.value)
    ELSE AtMost(terms.value, amount - MinAmount)

(* Mutant: the discount is taken in full. *)
DueInFull(amount, terms) ==
    IF terms = NoTerms THEN amount ELSE amount - Discount(amount, terms)

Due(amount, terms) ==
    IF terms = NoTerms THEN amount
    ELSE AtLeast(amount - Discount(amount, terms), MinAmount)

-----------------------------------------------------------------------------
(* The catalog                                                             *)

InStock(p) == \E k \in Available : PlanOf[k] = p

InventoryAvailable(p) == InStock(p) /\ Provisioning[p] # "mtproxy"
MtproxyAvailable(p) == Provisioning[p] = "mtproxy" /\ active # {}
ServerOptions(p) == IF Provisioning[p] = "mtproxy" THEN {} ELSE active
SuperkeyAvailable(p) ==
    Provisioning[p] \in {"auto", "hiddify"} /\ Cardinality(active) >= 2

PlanAvailable(p) ==
    CASE Provisioning[p] = "inventory"            -> InStock(p)
      [] Provisioning[p] \in {"mtproxy", "hiddify"} -> active # {}
      [] OTHER                                    -> InStock(p) \/ active # {}

OfferedModes(p) ==
    {m \in Modes : \/ m = "inventory" /\ InventoryAvailable(p)
                   \/ m = "mtproxy" /\ MtproxyAvailable(p)
                   \/ m = "server" /\ ServerOptions(p) # {}
                   \/ m = "superkey" /\ SuperkeyAvailable(p)}

Confirmation(p, mode, v) ==
    [Showing("confirm", p) EXCEPT !.mode = mode, !.server = v, !.total = Price(p, mode)]

(* The answer to the choice of a plan: a confirmation where there is but   *)
(* one thing to choose.                                                    *)
Answer(p) ==
    LET only == OfferedModes(p) IN
    IF only \in {{"inventory"}, {"mtproxy"}}
      THEN Confirmation(p, CHOOSE m \in only : TRUE, NoServer)
    ELSE IF only = {"server"} /\ Cardinality(ServerOptions(p)) = 1
      THEN Confirmation(p, "server", CHOOSE v \in ServerOptions(p) : TRUE)
    ELSE [Showing("modes", p) EXCEPT !.offered = only]

-----------------------------------------------------------------------------
(* The dialogue                                                            *)

Tap(u) == taps[u] > 0 /\ taps' = [taps EXCEPT ![u] = @ - 1]

Show(u, s, message) ==
    /\ screen' = [screen EXCEPT ![u][s] = message]
    /\ newest' = [newest EXCEPT ![u] = s]

Remember(u, data) == fsm' = [fsm EXCEPT ![u] = data]

(* Mutant: a new choice keeps the promo code of the one before. *)
ChosenKeepingCode(u, m) ==
    [plan |-> m.plan, mode |-> m.mode, server |-> m.server, asked |-> FALSE,
     code |-> fsm[u].code]

(* What a confirmation leaves in the FSM data. *)
Chosen(u, m) ==
    [plan |-> m.plan, mode |-> m.mode, server |-> m.server, asked |-> FALSE,
     code |-> NoCode]

(* buy:plan, from the catalog or by the way back of any message.  The      *)
(* state is cleared first.                                                 *)
Buy(u, s, p) ==
    /\ Tap(u)
    /\ PlanAvailable(p)
    /\ LET m == Answer(p) IN
         /\ Show(u, s, m)
         /\ Remember(u, IF m.kind = "confirm" THEN Chosen(u, m)
                        ELSE [Cleared EXCEPT !.plan = p])
    /\ UNCHANGED <<stored, run, told, counters>>

(* buy_mode:plan:mode.  The catalog is read, and what is offered now is    *)
(* not tested against what was offered when the message was sent.          *)
BuyMode(u, s, mode) ==
    LET p == screen[u][s].plan IN
    /\ Tap(u)
    /\ screen[u][s].kind = "modes"
    /\ mode \in screen[u][s].offered \ {"server"}
    /\ LET m == Confirmation(p, mode, NoServer) IN
         Show(u, s, m) /\ Remember(u, Chosen(u, m))
    /\ UNCHANGED <<stored, run, told, counters>>

(* buy_mode:plan:server lists the servers; mode and server of an earlier   *)
(* choice stay in the FSM data, its promo code does not.                   *)
BuyFromServers(u, s) ==
    LET p == screen[u][s].plan IN
    /\ Tap(u)
    /\ screen[u][s].kind = "modes"
    /\ "server" \in screen[u][s].offered
    /\ Show(u, s, Showing("servers", p))
    /\ fsm' = [fsm EXCEPT ![u].plan = p, ![u].code = NoCode, ![u].asked = FALSE]
    /\ UNCHANGED <<stored, run, told, counters>>

(* buy_server:plan:server of a server that is active now. *)
BuyServer(u, s, v) ==
    /\ Tap(u)
    /\ screen[u][s].kind = "servers"
    /\ v \in active
    /\ LET m == Confirmation(screen[u][s].plan, "server", v) IN
         Show(u, s, m) /\ Remember(u, Chosen(u, m))
    /\ UNCHANGED <<stored, run, told, counters>>

(* promo:ask:plan.  The plan is that of the message, the mode that of the  *)
(* FSM data, which may come from another message.                          *)
AskPromo(u, s) ==
    /\ Tap(u)
    /\ screen[u][s].kind = "confirm"
    /\ fsm[u].mode # NoMode
    /\ fsm' = [fsm EXCEPT ![u].plan = screen[u][s].plan, ![u].asked = TRUE]
    /\ \E t \in Slots : (t # s \/ Cardinality(Slots) = 1) /\ Show(u, t, Menu)
    /\ UNCHANGED <<stored, run, told, counters>>

-----------------------------------------------------------------------------
(* The dialogue of VK and WhatsApp                                         *)

(* A request remembers nothing: the buttons of the message say it all, and *)
(* one slot stands for any message.                                        *)
Reply(u, message) ==
    /\ Tap(u)
    /\ Show(u, FirstSlot, message)
    /\ UNCHANGED <<stored, fsm, run, told, counters>>

Shown(u) == screen[u][FirstSlot]

VkPlanEntry(u, p) == PlanAvailable(p) /\ Reply(u, Answer(p))

(* What the choice of a mode is answered with. *)
AfterMode(m, mode) ==
    IF mode = "server" THEN Showing("servers", m.plan) ELSE Confirmation(m.plan, mode, NoServer)

VkBuyMode(u, mode) ==
    /\ Shown(u).kind = "modes"
    /\ mode \in Shown(u).offered
    /\ Reply(u, AfterMode(Shown(u), mode))

VkServerConfirmation(u, v) ==
    /\ Shown(u).kind = "servers"
    /\ v \in active
    /\ Reply(u, Confirmation(Shown(u).plan, "server", v))

(* A message of WhatsApp has three buttons, of the first modes offered. *)
Place == [m \in Modes |-> CASE m = "inventory" -> 1 [] m = "mtproxy" -> 2
                            [] m = "server" -> 3 [] m = "superkey" -> 4]

ThreeButtons(offered) ==
    {m \in offered : Cardinality({n \in offered : Place[n] < Place[m]}) < 3}

WhatsappPlanEntry(u, p) ==
    PlanAvailable(p) /\ Reply(u, [Answer(p) EXCEPT !.offered = ThreeButtons(@)])

WhatsappBuyMode(u, mode) ==
    /\ Shown(u).kind = "modes"
    /\ mode \in Shown(u).offered
    /\ Reply(u, AfterMode(Shown(u), mode))

WhatsappServerConfirmation(u, v) ==
    /\ Shown(u).kind = "servers"
    /\ v \in active
    /\ Reply(u, Confirmation(Shown(u).plan, "server", v))

-----------------------------------------------------------------------------
(* Promo codes                                                             *)

Committed == {i \in OrderIds : orders[i] # NoOrder}

RedeemedBy(u, c) == \E i \in Committed : orders[i].user = u /\ orders[i].code = c

(* Mutant: the limit is the last use that is refused. *)
UsableOnceMore(u, c) == promos[c].used <= promos[c].limit /\ ~ RedeemedBy(u, c)

(* _ensure_promo_available and has_user_redemption. *)
Usable(u, c) == promos[c].used < promos[c].limit /\ ~ RedeemedBy(u, c)

(* Mutant: the row is read without FOR UPDATE. *)
RowFreeAlways(c) == TRUE

(* No unfinished transaction has locked the row of the code. *)
RowFree(c) == \A h \in Handlers : run[h].pc \notin {"write", "commit"} \/ run[h].row.code # c

(* The code is typed.  A refusal keeps the state, a code that can be used  *)
(* gives a new message with its total.                                     *)
EnterPromo(u, c) ==
    LET p == fsm[u].plan
        m == [Confirmation(p, fsm[u].mode, fsm[u].server) EXCEPT
                !.code = c, !.terms = promos[c].terms,
                !.total = Due(Price(p, fsm[u].mode), promos[c].terms)] IN
    /\ Tap(u)
    /\ fsm[u].asked
    /\ RowFree(c) /\ Usable(u, c)
    /\ fsm' = [fsm EXCEPT ![u].code = c, ![u].asked = FALSE]
    /\ Show(u, newest[u], m)
    /\ UNCHANGED <<stored, run, told, counters>>

Edit == edits < MaxEdits /\ edits' = edits + 1

(* /admin_promo writes the terms and the limit, never the count. *)
SetPromo(c, terms, limit) ==
    /\ Edit
    /\ RowFree(c)
    /\ promos' = [promos EXCEPT ![c].terms = terms, ![c].limit = limit]
    /\ UNCHANGED <<imported, keyOf, active, orders, lastId, fsm, screen, newest, run, told,
                   taps, crashes>>

Toggle(v) ==
    /\ Edit
    /\ active' = IF v \in active THEN active \ {v} ELSE active \cup {v}
    /\ UNCHANGED <<imported, keyOf, promos, orders, lastId, fsm, screen, newest, run, told,
                   taps, crashes>>

ImportKey(k) ==
    /\ Edit
    /\ k \notin imported
    /\ imported' = imported \cup {k}
    /\ UNCHANGED <<keyOf, active, promos, orders, lastId, fsm, screen, newest, run, told,
                   taps, crashes>>

-----------------------------------------------------------------------------
(* The order                                                               *)

Busy(u) == \E h \in Handlers : run[h].pc # "idle" /\ run[h].user = u

(* A confirm button is pressed: mode, server and code are what the request *)
(* says.  Only a press on the newest message with nothing else of this     *)
(* customer under way counts as one that knows what it confirms; the row   *)
(* then remembers the message.                                             *)
Confirm(h, u, s, asked) ==
    LET m == screen[u][s] IN
    /\ Tap(u)
    /\ m.kind = "confirm"
    /\ run' = [run EXCEPT ![h] =
         [@ EXCEPT !.pc = "resolve", !.user = u, !.slot = s,
            !.row = [NoOrder EXCEPT !.user = u, !.plan = m.plan, !.mode = asked.mode,
                       !.server = asked.server, !.code = asked.code,
                       !.shown = IF s = newest[u] /\ ~ Busy(u) THEN m ELSE Menu]]]
    /\ UNCHANGED <<stored, fsm, screen, newest, told, counters>>

Press(h, u, s) == run[h] = Idle /\ Confirm(h, u, s, fsm[u])

(* The button of VK and WhatsApp names plan, mode and server; the server   *)
(* is looked up once more, and the request fails if it was switched off.   *)
OnButton(m) == [Cleared EXCEPT !.mode = m.mode, !.server = m.server]

VkConfirmBuy(h, u) ==
    /\ run[h] = Idle
    /\ Shown(u).mode = "server" => Shown(u).server \in active
    /\ Confirm(h, u, FirstSlot, OnButton(Shown(u)))

(* A webhook of WhatsApp may bring several messages: all of them are       *)
(* answered in one session.                                                *)
WhatsappConfirmBuy(h, u) ==
    /\ run[h] = Idle \/ run[h].pc = "more"
    /\ Shown(u).mode = "server" => Shown(u).server \in active
    /\ Confirm(h, u, FirstSlot, OnButton(Shown(u)))

(* _resolve_fulfillment_mode: the mode where none was asked for, ... *)
DefaultMode(p, v) ==
    IF v # NoServer THEN "server"
    ELSE CASE Provisioning[p] = "mtproxy"   -> "mtproxy"
           [] Provisioning[p] = "inventory" -> "inventory"
           [] Provisioning[p] = "hiddify"   -> "server"
           [] OTHER -> IF InStock(p) THEN "inventory" ELSE "server"

Requested(p, mode, v) ==
    LET m == IF mode = NoMode THEN DefaultMode(p, v) ELSE mode IN
    IF Provisioning[p] = "mtproxy" /\ m = "inventory" THEN "mtproxy" ELSE m

(* ... what the plan allows, ... *)
Allows(p, mode) ==
    CASE mode = "mtproxy"   -> Provisioning[p] = "mtproxy"
      [] mode = "inventory" -> Provisioning[p] # "hiddify"
      [] OTHER              -> Provisioning[p] \in {"auto", "hiddify"}

(* ... and what there is: the servers that mode may be given, NoServer     *)
(* where it needs none.                                                    *)
Assigned(p, mode, v) ==
    CASE mode = "mtproxy"   -> {NoServer : x \in active}
      [] mode = "inventory" -> {NoServer : x \in {k \in Available : PlanOf[k] = p}}
      [] mode = "superkey"  -> IF Cardinality(active) >= 2 THEN {NoServer} ELSE {}
      [] OTHER -> IF v = NoServer /\ Cardinality(active) = 1 THEN active
                  ELSE active \cap {v}

(* The session is closed: what it wrote in an open transaction goes, and   *)
(* so do its locks.                                                        *)
End(h) == run' = [run EXCEPT ![h] = Idle]

(* The message is answered.  A session of WhatsApp may go on with the next *)
(* one of its webhook.                                                     *)
Answered(h, keys) ==
    \/ End(h)
    \/ /\ run[h].user \in WhatsappUsers
       /\ run' = [run EXCEPT ![h] = [Idle EXCEPT !.pc = "more", !.kept = keys]]

Resolve(h) ==
    LET r == run[h].row
        mode == Requested(r.plan, r.mode, r.server) IN
    /\ run[h].pc = "resolve"
    /\ IF Allows(r.plan, mode) /\ Assigned(r.plan, mode, r.server) # {}
       THEN \E v \in Assigned(r.plan, mode, r.server) :
              run' = [run EXCEPT ![h].pc = IF r.code = NoCode THEN "write" ELSE "redeem",
                                 ![h].row = [r EXCEPT !.mode = mode, !.server = v,
                                               !.original = Price(r.plan, mode),
                                               !.amount = Price(r.plan, mode)]]
       ELSE Answered(h, run[h].kept)
    /\ UNCHANGED <<stored, fsm, screen, newest, told, taps, counters>>

(* get_valid_promo waits for the row, tests it and keeps it locked.        *)
Redeem(h) ==
    LET r == run[h].row
        c == r.code IN
    /\ run[h].pc = "redeem"
    /\ RowFree(c)
    /\ IF Usable(r.user, c)
       THEN run' = [run EXCEPT ![h].pc = "write",
                               ![h].used = promos[c].used + 1,
                               ![h].row = [r EXCEPT !.terms = promos[c].terms,
                                             !.discount = Discount(r.original, promos[c].terms),
                                             !.amount = Due(r.original, promos[c].terms)]]
       ELSE End(h)
    /\ UNCHANGED <<stored, fsm, screen, newest, told, taps, counters>>

(* Mutant: FOR UPDATE is forgotten where a key is reserved. *)
TakableUnlocked(h, p) == {k \in Available : PlanOf[k] = p}

(* SKIP LOCKED passes over keys another transaction is about to take, and  *)
(* the session sees those it took itself as reserved.                      *)
Takable(h, p) ==
    {k \in Available : PlanOf[k] = p /\ \A g \in Handlers : k \notin run[g].kept \cup {run[g].row.key}}

(* The order is inserted, the use counted, a key reserved. *)
Write(h) ==
    LET r == run[h].row IN
    /\ run[h].pc = "write"
    /\ lastId < MaxOrders
    /\ lastId' = lastId + 1
    /\ \/ /\ r.mode # "inventory"
          /\ run' = [run EXCEPT ![h].pc = "commit", ![h].id = lastId']
       \/ /\ r.mode = "inventory"
          /\ \E k \in Takable(h, r.plan) :
               run' = [run EXCEPT ![h].pc = "commit", ![h].id = lastId',
                                  ![h].row = [r EXCEPT !.key = k]]
       \/ /\ r.mode = "inventory"
          /\ Takable(h, r.plan) = {}
          /\ Answered(h, run[h].kept)
    /\ UNCHANGED <<imported, keyOf, active, promos, orders, fsm, screen, newest, told, taps, counters>>

(* Mutant: the middleware reads the user without a block of its own. *)
CommitsNothing(u) == FALSE

(* The outermost block commits unless the session was in a transaction. *)
Commits(u) == u \in TelegramUsers

Commit(h) ==
    LET r == run[h].row IN
    /\ run[h].pc = "commit"
    /\ IF Commits(r.user)
       THEN /\ orders' = [orders EXCEPT ![run[h].id] = r]
            /\ promos' = IF r.code = NoCode THEN promos
                         ELSE [promos EXCEPT ![r.code].used = run[h].used]
            /\ keyOf' = IF r.key = NoKey THEN keyOf
                        ELSE [keyOf EXCEPT ![r.key] = run[h].id]
            /\ run' = [run EXCEPT ![h].pc = "tell", ![h].row = [r EXCEPT !.key = NoKey]]
       ELSE /\ run' = [run EXCEPT ![h].pc = "tell"]
            /\ UNCHANGED <<orders, promos, keyOf>>
    /\ UNCHANGED <<imported, active, lastId, fsm, screen, newest, told, taps, counters>>

(* The customer reads the number of the order, ... *)
Told(h) ==
    /\ run[h].pc = "tell"
    /\ told' = told \cup {<<run[h].user, run[h].id>>}
    /\ Show(run[h].user, run[h].slot, Menu)

(* ... a Telegram chat's state is cleared and the message with the button  *)
(* becomes that answer, ...                                                *)
Tell(h) ==
    /\ run[h].user \in TelegramUsers
    /\ Told(h)
    /\ Remember(run[h].user, Cleared)
    /\ End(h)
    /\ UNCHANGED <<stored, taps, counters>>

(* ... VK and WhatsApp send another one ... *)
ChatTell(h) ==
    /\ run[h].user \in ChatUsers
    /\ Told(h)
    /\ Answered(h, run[h].kept \cup ({run[h].row.key} \ {NoKey}))
    /\ UNCHANGED <<stored, fsm, taps, counters>>

(* ... and the session of a webhook of WhatsApp is closed in the end. *)
CloseWebhook(h) ==
    /\ run[h].pc = "more"
    /\ End(h)
    /\ UNCHANGED <<stored, fsm, screen, newest, told, taps, counters>>

(* The process stops, or the handler raises. *)
Crash(h) ==
    /\ crashes < MaxCrashes
    /\ crashes' = crashes + 1
    /\ run[h].pc # "idle"
    /\ End(h)
    /\ UNCHANGED <<stored, fsm, screen, newest, told, taps, edits>>

-----------------------------------------------------------------------------
Next ==
    \/ \E u \in TelegramUsers : \E s \in Slots :
         \/ \E p \in Plans : Buy(u, s, p)
         \/ \E m \in Modes : BuyMode(u, s, m)
         \/ BuyFromServers(u, s)
         \/ \E v \in Servers : BuyServer(u, s, v)
         \/ AskPromo(u, s)
         \/ \E h \in Handlers : Press(h, u, s)
    \/ \E u \in TelegramUsers, c \in Codes : EnterPromo(u, c)
    \/ \E u \in VkUsers :
         \/ \E p \in Plans : VkPlanEntry(u, p)
         \/ \E m \in Modes : VkBuyMode(u, m)
         \/ \E v \in Servers : VkServerConfirmation(u, v)
         \/ \E h \in Handlers : VkConfirmBuy(h, u)
    \/ \E u \in WhatsappUsers :
         \/ \E p \in Plans : WhatsappPlanEntry(u, p)
         \/ \E m \in Modes : WhatsappBuyMode(u, m)
         \/ \E v \in Servers : WhatsappServerConfirmation(u, v)
         \/ \E h \in Handlers : WhatsappConfirmBuy(h, u)
    \/ \E c \in Codes, t \in Terms, l \in Limits : SetPromo(c, t, l)
    \/ \E v \in Servers : Toggle(v)
    \/ \E k \in Keys : ImportKey(k)
    \/ \E h \in Handlers :
         \/ Resolve(h) \/ Redeem(h) \/ Write(h) \/ Commit(h)
         \/ Tell(h) \/ ChatTell(h) \/ CloseWebhook(h) \/ Crash(h)

Spec == Init /\ [][Next]_vars
-----------------------------------------------------------------------------
(* Properties                                                              *)

Data == [plan : Plans, mode : Modes \cup {NoMode}, server : Servers \cup {NoServer},
         code : Codes \cup {NoCode}, asked : BOOLEAN]

OrderRow == [user : Users \cup {NoUser}, plan : Plans, mode : Modes \cup {NoMode},
             server : Servers \cup {NoServer}, key : Keys \cup {NoKey},
             code : Codes \cup {NoCode}, terms : Terms \cup {NoTerms},
             original : Nat, discount : Nat, amount : Nat, shown : Message]

Local == [pc : {"idle", "resolve", "redeem", "write", "commit", "tell", "more"},
          user : Users \cup {NoUser}, slot : Slots, id : 0..MaxOrders,
          used : Nat, row : OrderRow, kept : SUBSET Keys]

(* Every variable has its type: the tables, the dialogue of every chat and *)
(* what every handler is in the middle of; no sum of money is negative.    *)
TypeOK ==
    /\ imported \subseteq Keys
    /\ keyOf \in [Keys -> 0..MaxOrders]
    /\ active \subseteq Servers
    /\ promos \in [Codes -> [terms : Terms, limit : Limits, used : Nat]]
    /\ orders \in [OrderIds -> OrderRow]
    /\ lastId \in 0..MaxOrders
    /\ fsm \in [TelegramUsers -> Data]
    /\ screen \in [Users -> [Slots -> Message]]
    /\ newest \in [Users -> Slots]
    /\ run \in [Handlers -> Local]
    /\ told \subseteq Users \X OrderIds
    /\ taps \in [Users -> Nat]
    /\ edits \in 0..MaxEdits
    /\ crashes \in 0..MaxCrashes

(* used_count of a promo code is the number of its redemptions, whatever   *)
(* orders are created with it at once (redeem adds one to what it read).   *)
UsesAreCounted ==
    \A c \in Codes :
        promos[c].used = Cardinality({i \in Committed : orders[i].code = c})

(* A redemption that is committed is within the limit that is in force at  *)
(* that moment, also while operators change it, and nobody redeems a code  *)
(* a second time (create_order_with_payment, get_valid_promo).             *)
RedeemedInLimit ==
    [][\A i \in OrderIds : orders[i] = NoOrder /\ orders'[i] # NoOrder =>
          LET u == orders'[i].user
              c == orders'[i].code
          IN  c # NoCode => promos[c].used < promos[c].limit /\ ~ RedeemedBy(u, c)]_vars

(* An order as the tables have it. *)
Seen(r) == [user |-> r.user, plan |-> r.plan, mode |-> r.mode, server |-> r.server,
            key |-> r.key, code |-> r.code, amount |-> r.amount]

PlanModes == [p \in Plans |-> {m \in Modes : Allows(p, m)}]

Costs ==
    [p \in Plans |-> [m \in Modes |-> [t \in Terms \cup {NoTerms} |-> Due(Price(p, m), t)]]]

Offers == [c \in Codes |-> [terms |-> promos[c].terms, limit |-> promos[c].limit]]

Placed == [i \in OrderIds |-> Seen(orders[i])]

TheShop == INSTANCE Shop
             WITH Orders <- OrderIds, Nothing <- Seen(NoOrder), Sells <- PlanModes, Cost <- Costs,
                  placed <- Placed, offers <- Offers, holder <- keyOf

(* A purchase is one moment: although a session resolves, redeems, writes  *)
(* and commits in turn, among others and among the operators' changes,     *)
(* what it commits is an order that could have been placed just then, at   *)
(* the terms in force then; and a session that loses leaves no trace       *)
(* (create_order_with_payment, get_valid_promo, reserve_available_key).    *)
ImplementsShop == TheShop!Spec

(* Every committed order of prepared keys has a key of its plan and no     *)
(* other order has that key (reserve_available_key).                       *)
OneKeyEach ==
    \A i \in Committed :
        orders[i].mode = "inventory" =>
            /\ orders[i].key \in Keys
            /\ keyOf[orders[i].key] = i
            /\ PlanOf[orders[i].key] = orders[i].plan

(* Nobody is charged less than the minimum or more than the price, and the *)
(* amount is the price less the discount unless the minimum cuts it.       *)
ChargedInBounds ==
    \A i \in Committed :
        LET r == orders[i] IN
        /\ r.amount \in MinAmount..r.original
        /\ r.amount = r.original - r.discount \/ r.amount = MinAmount
        /\ r.code = NoCode => r.amount = r.original

(* A customer who confirms the newest message of the chat, with nothing    *)
(* else under way, gets what that message says: the plan, the server, the  *)
(* promo code and, unless an operator changed the code's terms meanwhile,  *)
(* the amount.  The mode is the one shown or, on a plan of MTProxy, the    *)
(* one create_order_with_payment puts in place of prepared keys.           *)
AsShown ==
    \A i \in Committed :
        LET r == orders[i]
            m == r.shown
        IN  m.kind = "confirm" =>
              /\ r.plan = m.plan /\ r.server = m.server /\ r.code = m.code
              /\ r.terms = m.terms => r.amount = m.total
              /\ r.mode = m.mode \/ (r.mode = "mtproxy" /\ m.mode = "inventory")

(* An order's mode is one its plan can be fulfilled in, whatever message   *)
(* the FSM data comes from, and a chosen server goes with it.              *)
PlanAllowsMode ==
    \A i \in Committed :
        LET r == orders[i] IN
        /\ r.mode = "mtproxy" <=> Provisioning[r.plan] = "mtproxy"
        /\ r.mode = "inventory" => Provisioning[r.plan] \in {"auto", "inventory"}
        /\ r.mode = "server" <=> r.server # NoServer

(* No order of a VK or WhatsApp customer is ever in the tables: the        *)
(* request has read the catalog before it creates the order, and nobody    *)
(* commits the transaction that read began (transactional).                *)
ChatOrdersAreLost == \A i \in Committed : orders[i].user \in TelegramUsers

(* The number of an order a Telegram customer was told of is that of a row *)
(* of orders, of that customer: confirm_buy_callback answers after the     *)
(* commit.                                                                 *)
TelegramToldExists == \A t \in told : t[1] \in TelegramUsers => orders[t[2]].user = t[1]

(* What the tests of both bots assert and the customer is told             *)
(* (tests/test_vk.py:60): the order whose number was told is there.        *)
ToldOrderExists == \A t \in told : orders[t[2]].user = t[1]
=============================================================================
