---------------------------- MODULE Provisioning ----------------------------
(***************************************************************************)
(* Issuing and replacing access on Hiddify panels: IssuingService drives   *)
(* HiddifyService, which asks the panels over HTTP and writes what it got  *)
(* through the session of the caller, an operator's callback.  (Of the     *)
(* background loop only the reconciliation could get here, and the answers *)
(* of the providers there are never let it.)                               *)
(*                                                                         *)
(* Two things make this hard.  Panels and database have no transaction in  *)
(* common: an answer may be lost after the panel created the user, and the *)
(* next attempt has to find that user by the marker in its comment.  And   *)
(* transactional() opens a savepoint when the session is in a transaction: *)
(* a session that reads outside of a block (list_active, get_by_id) begins *)
(* one nobody commits, so what it writes from then on is seen by itself,   *)
(* keeps its rows locked, and is rolled back when the session is closed.   *)
(* Such a session is called open here.                                     *)
(***************************************************************************)
EXTENDS Naturals, FiniteSets

CONSTANTS
    Orders, Servers, Countries,
    Sessions,        \* sessions of the operators' callbacks
    NoOrder, NoServer, NoAccess,
    ModeOf,          \* the fulfilment mode of each order
    ChosenServer,    \* preferred_hiddify_server_id as the order was created
    CountryOf,
    MarkerPrefixes,  \* the pairs <<o, p>> with str(p) beginning with str(o)
    MaxReplacements, \* bound on the replacements of an order
    MaxFaults,       \* bound on requests to panels that fail
    MaxCrashes,      \* bound on sessions that stop
    MaxToggles       \* bound on the switching of servers

Modes == {"server", "superkey", "mtproxy"}

ASSUME ProvisioningAssumption ==
    /\ IsFiniteSet(Servers) /\ IsFiniteSet(Orders) /\ IsFiniteSet(Sessions)
    /\ NoOrder \notin Orders /\ NoServer \notin Servers
    /\ ModeOf \in [Orders -> Modes]
    /\ ChosenServer \in [Orders -> Servers \cup {NoServer}]
    /\ \A o \in Orders : ModeOf[o] = "server" <=> ChosenServer[o] # NoServer
    /\ CountryOf \in [Servers -> Countries]
    /\ MarkerPrefixes \subseteq Orders \X Orders
    /\ MaxReplacements \in Nat /\ MaxFaults \in Nat
    /\ MaxCrashes \in Nat /\ MaxToggles \in Nat

(* The tag of a first issue is 0, replacements number theirs.  copy tells  *)
(* apart users a panel created for one and the same marker.                *)
Tags == 0..MaxReplacements
RemoteUser == [server : Servers, order : Orders, tag : Tags, copy : Nat \ {0}]

(* What a key gives access to.  The fingerprint of vpn_keys is that of the *)
(* subscription URL: the user's, or the token of order and tag for a       *)
(* superkey.                                                               *)
Access(mode, o, tag, users) ==
    [mode |-> mode, users |-> users,
     token |-> IF mode = "superkey" THEN <<o, tag>> ELSE <<>>]

Fingerprint(access) ==
    IF access.mode = "superkey" THEN access.token ELSE access.users

ASSUME NoAccessAssumption ==
    NoAccess \notin [mode : Modes, users : SUBSET RemoteUser,
                    token : (Orders \X Tags) \cup {<<>>}]

OrderStatus == {"pending", "paid", "paid_but_not_issued", "issued", "refunded"}

VARIABLES
    active,   \* hiddify_servers: the ids with is_active
    panel,    \* the users of each panel
    orders,   \* status, issued key and preferred server of each order
    broken,   \* vpn_keys: the fingerprints of keys marked broken
    issued,   \* vpn_keys: the fingerprints of generated keys in state issued
    sess,     \* what each session is in the middle of
    strays,   \* history: the users that the search of another order came upon
    faults, crashes, toggles   \* how many there were

vars == <<active, panel, orders, broken, issued, sess, strays, faults, crashes, toggles>>

Phase == {"idle", "select", "ask", "post", "links", "finalize", "fail", "deliver"}

UnboundRow == [status |-> "pending", key |-> NoAccess, server |-> NoServer]

Idle == [pc |-> "idle", order |-> NoOrder, replaces |-> NoAccess, tag |-> 0,
         mem |-> UnboundRow, todo |-> {}, wanted |-> {}, at |-> NoServer,
         got |-> {}, failed |-> FALSE, open |-> FALSE, held |-> {}, made |-> {}]

Init ==
    /\ active \in {a \in SUBSET Servers : Cardinality(a) >= 2}
    /\ panel = [v \in Servers |-> {}]
    /\ orders = [o \in Orders |-> [status |-> "pending", key |-> NoAccess,
                                   server |-> ChosenServer[o]]]
    /\ broken = {}
    /\ issued = {}
    /\ sess = [s \in Sessions |-> Idle]
    /\ strays = {}
    /\ faults = 0
    /\ crashes = 0
    /\ toggles = 0

Fault == faults < MaxFaults /\ faults' = faults + 1

-----------------------------------------------------------------------------
(* The operator and the servers                                            *)

(* toggle_server; register_server of a panel that answered is the same     *)
(* step from outside active.                                               *)
Toggle(v) ==
    /\ toggles < MaxToggles
    /\ toggles' = toggles + 1
    /\ active' = IF v \in active THEN active \ {v} ELSE active \cup {v}
    /\ UNCHANGED <<panel, orders, broken, issued, sess, strays, faults, crashes>>

Refund(o) ==
    /\ orders[o].status \in {"paid", "paid_but_not_issued", "issued"}
    /\ \A s \in Sessions : o \notin sess[s].held
    /\ orders' = [orders EXCEPT ![o].status = "refunded"]
    /\ UNCHANGED <<active, panel, broken, issued, sess, strays, faults, crashes, toggles>>

-----------------------------------------------------------------------------
(* Reading the order                                                       *)

(* Nobody's unfinished transaction holds the row. *)
Unlocked(s, o) == \A t \in Sessions \ {s} : o \notin sess[t].held

Take(s, o, row, tag, replaces) ==
    sess' = [sess EXCEPT ![s] = [sess[s] EXCEPT !.pc = "select", !.order = o, !.tag = tag,
                                                !.mem = row, !.replaces = replaces]]

(* confirm_manual_payment and the first block of issue_key_for_paid_order. *)
TakeForIssue(s, o) ==
    LET row == [orders[o] EXCEPT !.status = "paid"]
    IN  /\ sess[s].pc = "idle"
        /\ Unlocked(s, o)
        /\ orders[o].status \in {"pending", "paid", "paid_but_not_issued"}
        /\ orders' = [orders EXCEPT ![o] = row]
        /\ Take(s, o, row, 0, NoAccess)
        /\ UNCHANGED <<active, panel, broken, issued, strays, faults, crashes, toggles>>

(* _replacement_issue_tag: of old key and time, so never used before. *)
NewTags(o) ==
    LET used == {u.tag : u \in {w \in UNION {panel[v] : v \in Servers} : w.order = o}}
                \cup {sess[s].tag : s \in {t \in Sessions : sess[t].order = o}}
    IN  {t \in Tags \ {0} : t \notin used /\ 1..(t - 1) \subseteq used}

TakeForReplacement(s, o) ==
    /\ sess[s].pc = "idle"
    /\ Unlocked(s, o)
    /\ orders[o].status = "issued"
    /\ \E t \in NewTags(o) : Take(s, o, orders[o], t, orders[o].key)
    /\ UNCHANGED <<active, panel, orders, broken, issued, strays, faults, crashes, toggles>>

Replacing(s) == sess[s].replaces # NoAccess

-----------------------------------------------------------------------------
(* Choosing the servers                                                    *)

(* A first issue prefers the server of the order, if it has one; ... *)
Preferred(s) == IF Replacing(s) THEN NoServer ELSE sess[s].mem.server

(* ... a replacement avoids it, and prefers none. *)
Avoided(s) == IF Replacing(s) THEN sess[s].mem.server ELSE NoServer

(* Mutant: the chosen server is only a preference. *)
CandidatesAnywhere(s) == active

(* _select_servers_for_issue: the chosen server and, for want of it, the   *)
(* others of its country; a replacement may go anywhere.  MTProxy links    *)
(* are fetched from the one server the order names.                        *)
Candidates(s) ==
    IF Preferred(s) = NoServer THEN active
    ELSE IF ModeOf[sess[s].order] = "mtproxy" THEN active \cap {Preferred(s)}
    ELSE {v \in active : CountryOf[v] = CountryOf[Preferred(s)]}

Asking(s, todo, open) ==
    sess' = [sess EXCEPT ![s] =
                [sess[s] EXCEPT !.pc = "ask", !.todo = todo, !.open = sess[s].open \/ open,
                     !.wanted = IF ModeOf[sess[s].order] = "superkey" THEN todo ELSE {}]]

(* Orders of MTProxy links name no server until they were issued once, by  *)
(* a session that overlapped and failed later than it.                     *)
LeastLoadedWanted(s) == ModeOf[sess[s].order] = "mtproxy" /\ Preferred(s) = NoServer

(* The reads of the other orders are outside of any block.  A preferred    *)
(* server that was switched off is a NotFoundError, which nobody on the    *)
(* way up takes for a failure to provision.                                *)
SelectServers(s) ==
    LET o == sess[s].order
    IN  /\ sess[s].pc = "select"
        /\ ~LeastLoadedWanted(s)
        /\ IF Preferred(s) \notin active \cup {NoServer} THEN sess' = [sess EXCEPT ![s] = Idle]
           ELSE IF Cardinality(Candidates(s)) < (IF ModeOf[o] = "superkey" THEN 2 ELSE 1)
           THEN sess' = [sess EXCEPT ![s] = [sess[s] EXCEPT !.pc = "fail", !.open = TRUE]]
           ELSE Asking(s, Candidates(s), TRUE)
        /\ UNCHANGED <<active, panel, orders, broken, issued, strays, faults, crashes, toggles>>

(* select_least_loaded_server_by_active_users: inside blocks, hence no     *)
(* open transaction.  Panels that do not answer are out of the choice.     *)
LeastLoaded(s, measured) ==
    LET open == IF measured \ {Avoided(s)} # {} THEN measured \ {Avoided(s)} ELSE measured
    IN  {v \in open : \A w \in open : Cardinality(panel[v]) <= Cardinality(panel[w])}

(* Mutant: the servers are read outside of a block here as well. *)
SelectLeastLoadedOutside(s) ==
    /\ sess[s].pc = "select"
    /\ LeastLoadedWanted(s)
    /\ active # {}
    /\ \E v \in LeastLoaded(s, active) : Asking(s, {v}, TRUE)
    /\ UNCHANGED <<active, panel, orders, broken, issued, strays, faults, crashes, toggles>>

(* Mutant: that no panel answers is not a ProvisioningError. *)
SelectLeastLoadedOrRaise(s) ==
    /\ sess[s].pc = "select"
    /\ LeastLoadedWanted(s)
    /\ \E measured \in SUBSET active :
        /\ IF measured = active THEN UNCHANGED faults ELSE Fault
        /\ IF measured = {} THEN sess' = [sess EXCEPT ![s] = Idle]
           ELSE \E v \in LeastLoaded(s, measured) : Asking(s, {v}, FALSE)
    /\ UNCHANGED <<active, panel, orders, broken, issued, strays, crashes, toggles>>

SelectLeastLoaded(s) ==
    /\ sess[s].pc = "select"
    /\ LeastLoadedWanted(s)
    /\ \E measured \in SUBSET active :
        /\ IF measured = active THEN UNCHANGED faults ELSE Fault
        /\ IF measured = {} THEN sess' = [sess EXCEPT ![s] = [sess[s] EXCEPT !.pc = "fail"]]
           ELSE \E v \in LeastLoaded(s, measured) : Asking(s, {v}, FALSE)
    /\ UNCHANGED <<active, panel, orders, broken, issued, strays, crashes, toggles>>

-----------------------------------------------------------------------------
(* One server after the other: _ensure_remote_user                         *)

(* The marker order_id=N is searched in the comment as a substring: it is  *)
(* in that of any order whose number begins with N, whatever its tag, and  *)
(* with a tag it is the order's own.  (The second search, by the buyer and *)
(* the hint of order and tag in the name, finds nothing else.)             *)
Matches(o, tag, u) ==
    \/ u.order = o /\ (tag = 0 \/ u.tag = tag)
    \/ tag = 0 /\ <<o, u.order>> \in MarkerPrefixes

(* Mutant: users are created without looking for those of earlier tries. *)
FoundNone(s, v) == {}

Found(s, v) == {u \in panel[v] : Matches(sess[s].order, sess[s].tag, u)}

(* The search for the session's order came upon u. *)
ComesUpon(s, u) ==
    strays' = IF u.order = sess[s].order THEN strays ELSE strays \cup {u}

(* The chosen server first, the one to avoid last. *)
Turn(s) ==
    LET todo == sess[s].todo
    IN  CASE Preferred(s) \in todo -> {Preferred(s)}
          [] Preferred(s) \notin todo /\ todo \ {Avoided(s)} # {} -> todo \ {Avoided(s)}
          [] OTHER -> todo

(* _provision_single_on_server returned the source that u gives.           *)
WithSource(s, u) == [sess[s] EXCEPT !.got = sess[s].got \cup {u}, !.at = NoServer]

(* What follows the answer of server v: a superkey asks all of them, the   *)
(* others stop at the first success.                                       *)
Got(s, v, u) ==
    LET o == sess[s].order
        rest == IF ModeOf[o] = "superkey" THEN sess[s].todo \ {v} ELSE {}
    IN  [WithSource(s, u) EXCEPT !.todo = rest,
            !.pc = IF ModeOf[o] = "mtproxy" THEN "links"
                   ELSE IF rest # {} THEN "ask"
                   ELSE IF sess[s].failed THEN "fail" ELSE "finalize"]

(* Mutant: a superkey does without the servers that failed. *)
LostUnnoticed(s, v) ==
    LET todo == sess[s].todo \ {v}
    IN  [sess[s] EXCEPT !.todo = todo, !.at = NoServer,
            !.pc = IF todo # {} THEN "ask" ELSE IF sess[s].got = {} THEN "fail" ELSE "finalize"]

Lost(s, v) ==
    LET todo == sess[s].todo \ {v}
    IN  [sess[s] EXCEPT !.todo = todo, !.at = NoServer,
            !.failed = ModeOf[sess[s].order] = "superkey",
            !.pc = IF todo # {} THEN "ask" ELSE "fail"]

Look(s) ==
    /\ sess[s].pc = "ask"
    /\ \E v \in Turn(s) :
        \/ \E u \in Found(s, v) : /\ sess' = [sess EXCEPT ![s] = Got(s, v, u)]
                                 /\ ComesUpon(s, u)
                                 /\ UNCHANGED faults
        \/ /\ Found(s, v) = {}
           /\ sess' = [sess EXCEPT ![s] = [sess[s] EXCEPT !.pc = "post", !.at = v]]
           /\ UNCHANGED <<strays, faults>>
        \/ Fault /\ sess' = [sess EXCEPT ![s] = Lost(s, v)] /\ UNCHANGED strays
    /\ UNCHANGED <<active, panel, orders, broken, issued, crashes, toggles>>

NewUser(s, v) ==
    LET o == sess[s].order
    IN  [server |-> v, order |-> o, tag |-> sess[s].tag,
         copy |-> 1 + Cardinality({u \in panel[v] : u.order = o /\ u.tag = sess[s].tag})]

(* The POST succeeds, fails, or its answer gets lost.  If the answer does  *)
(* not name the user, the marker is searched once more.                    *)
Post(s) ==
    LET v == sess[s].at
    IN  /\ sess[s].pc = "post"
        /\ \/ /\ panel' = [panel EXCEPT ![v] = @ \cup {NewUser(s, v)}]
              /\ \/ \E u \in Found(s, v) \cup {NewUser(s, v)} :
                       /\ sess' = [sess EXCEPT ![s] = Got(s, v, u)]
                       /\ ComesUpon(s, u)
                       /\ UNCHANGED faults
                 \/ sess' = [sess EXCEPT ![s] = Lost(s, v)] /\ Fault /\ UNCHANGED strays
           \/ Fault /\ sess' = [sess EXCEPT ![s] = Lost(s, v)] /\ UNCHANGED <<panel, strays>>
        /\ UNCHANGED <<active, orders, broken, issued, crashes, toggles>>

(* _fetch_mtproxy_links *)
FetchLinks(s) ==
    /\ sess[s].pc = "links"
    /\ \/ sess' = [sess EXCEPT ![s].pc = "finalize"] /\ UNCHANGED faults
       \/ sess' = [sess EXCEPT ![s].pc = "fail"] /\ Fault
    /\ UNCHANGED <<active, panel, orders, broken, issued, strays, crashes, toggles>>

-----------------------------------------------------------------------------
(* Writing the outcome                                                     *)

(* The session goes on to process_pending_jobs.  An open one keeps the row *)
(* of the order it wrote locked until it is closed.                        *)
After(s, made) ==
    [Idle EXCEPT !.pc = "deliver", !.open = sess[s].open, !.made = made,
                 !.held = IF sess[s].open THEN {sess[s].order} ELSE {}]

Made(s) == Access(ModeOf[sess[s].order], sess[s].order, sess[s].tag, sess[s].got)

(* Mutant: the list of servers for the server. *)
ServersOf(access, old) == {u.server : u \in access.users}

(* The server a key of these modes is on becomes the order's preferred one. *)
ServerOf(access, old) ==
    IF access.mode = "superkey" THEN old ELSE (CHOOSE u \in access.users : TRUE).server

(* Mutant: the new key is marked broken instead of the old one. *)
BrokenByMistake(s, fp) == IF Replacing(s) THEN broken \cup {fp} ELSE broken \ {fp}

(* mark_broken of the key the session started from; a fingerprint that is  *)
(* stored already is issued again.                                         *)
BrokenBy(s, fp) ==
    (broken \ {fp}) \cup (IF Replacing(s) THEN {Fingerprint(sess[s].replaces)} ELSE {})

(* The order, as the session loaded it, has this key already: the column   *)
(* does not differ and is not written.  (An issue over a key has read the  *)
(* server outside of a block, so that nothing of it is committed.)         *)
KeyKept(s, fp) ==
    sess[s].mem.key # NoAccess /\ Fingerprint(sess[s].mem.key) = fp

(* Two orders cannot have one key (orders.issued_key_id is unique), and a  *)
(* replacement must not end in the key it replaces.                        *)
Refused(s, fp) ==
    \/ ~KeyKept(s, fp) /\ \E o \in Orders \ {sess[s].order} :
          orders[o].key # NoAccess /\ Fingerprint(orders[o].key) = fp
    \/ Replacing(s) /\ Fingerprint(sess[s].replaces) = fp

(* _finalize_hiddify_issue.  The order it tests is the one the session     *)
(* loaded, and the columns that differ from that are written.              *)
Finalize(s) ==
    LET o == sess[s].order
        access == Made(s)
        fp == Fingerprint(access)
    IN  /\ sess[s].pc = "finalize"
        /\ Unlocked(s, o)
        /\ IF Refused(s, fp)
           THEN /\ sess' = [sess EXCEPT ![s] = Idle]
                /\ UNCHANGED <<orders, issued, broken>>
           ELSE /\ sess' = [sess EXCEPT ![s] =
                        After(s, {[order |-> o, access |-> access, wanted |-> sess[s].wanted,
                                   first |-> ~Replacing(s)]})]
                /\ IF sess[s].open
                   THEN UNCHANGED <<orders, issued, broken>>
                   ELSE /\ orders' = [orders EXCEPT ![o] =
                                [status |-> IF Replacing(s) THEN @.status ELSE "issued",
                                 key |-> access,
                                 server |-> IF ServerOf(access, @.server) = sess[s].mem.server
                                            THEN @.server ELSE ServerOf(access, @.server)]]
                        /\ broken' = BrokenBy(s, fp)
                        /\ issued' = (issued \cup {fp}) \ BrokenBy(s, fp)
        /\ UNCHANGED <<active, panel, strays, faults, crashes, toggles>>

(* The handler of ProvisioningError of a first issue. *)
IssueFailed(s) ==
    LET o == sess[s].order
    IN  /\ sess[s].pc = "fail" /\ ~Replacing(s)
        /\ Unlocked(s, o)
        /\ sess' = [sess EXCEPT ![s] = After(s, {})]
        /\ IF sess[s].open THEN UNCHANGED orders
           ELSE orders' = [orders EXCEPT ![o].status = "paid_but_not_issued"]
        /\ UNCHANGED <<active, panel, broken, issued, strays, faults, crashes, toggles>>

(* A replacement that failed is recorded in the audit log; the operator is *)
(* told and the order keeps its key.                                       *)
ReplacementFailed(s) ==
    /\ sess[s].pc = "fail" /\ Replacing(s)
    /\ sess' = [sess EXCEPT ![s] = Idle]
    /\ UNCHANGED <<active, panel, orders, broken, issued, strays, faults, crashes, toggles>>

(* process_pending_jobs of the session that queued the jobs, and the end   *)
(* of the session, which rolls back what is open.                          *)
Deliver(s) ==
    /\ sess[s].pc = "deliver"
    /\ sess' = [sess EXCEPT ![s] = Idle]
    /\ UNCHANGED <<active, panel, orders, broken, issued, strays, faults, crashes, toggles>>

(* The process stops, or the update is cancelled. *)
Crash(s) ==
    /\ sess[s].pc # "idle"
    /\ crashes < MaxCrashes
    /\ crashes' = crashes + 1
    /\ sess' = [sess EXCEPT ![s] = Idle]
    /\ UNCHANGED <<active, panel, orders, broken, issued, strays, faults, toggles>>

Work(s) ==
    \/ SelectServers(s) \/ SelectLeastLoaded(s)
    \/ Look(s) \/ Post(s) \/ FetchLinks(s)
    \/ Finalize(s) \/ IssueFailed(s) \/ ReplacementFailed(s) \/ Deliver(s)

Next ==
    \/ \E v \in Servers : Toggle(v)
    \/ \E o \in Orders : Refund(o)
    \/ \E s \in Sessions, o \in Orders : TakeForIssue(s, o) \/ TakeForReplacement(s, o)
    \/ \E s \in Sessions : Work(s) \/ Crash(s)

Spec == Init /\ [][Next]_vars

-----------------------------------------------------------------------------
(* Properties                                                              *)

(* The type invariant. *)
TypeOK ==
    /\ active \subseteq Servers
    /\ \A v \in Servers : \A u \in panel[v] : u \in RemoteUser /\ u.server = v
    /\ \A o \in Orders : /\ orders[o].status \in OrderStatus
                         /\ orders[o].server \in Servers \cup {NoServer}
    /\ \A s \in Sessions : sess[s].pc \in Phase /\ sess[s].held \subseteq Orders
    /\ issued \cap broken = {}
    /\ faults \in 0..MaxFaults /\ crashes \in 0..MaxCrashes /\ toggles \in 0..MaxToggles

(* However often an order is tried again, after lost answers, crashes and  *)
(* rolled back sessions, a panel holds no more users for one marker than   *)
(* there are sessions that may look for it at the same time.               *)
OneUserPerSession ==
    \A v \in Servers, o \in Orders, t \in Tags :
        Cardinality({u \in panel[v] : u.order = o /\ u.tag = t}) <= Cardinality(Sessions)

(* What a session has made and is to send to buyers; the message goes out  *)
(* whether or not the transaction is open.                                 *)
ToSend(s) == IF sess[s].pc = "deliver" THEN sess[s].made ELSE {}

Outgoing == UNION {ToSend(s) : s \in Sessions}

(* An order shown as issued has a key in force, never one that some        *)
(* replacement marked broken, although replacements and issues that        *)
(* overlap work on what they loaded before, unless the search for another  *)
(* order came upon its user: the one may be issued a key at the moment the *)
(* other's replacement breaks it.                                          *)
KeyInForce ==
    \A o \in Orders : orders[o].status = "issued" =>
        \/ Fingerprint(orders[o].key) \in issued
        \/ orders[o].key.users \cap strays # {}

(* The link a buyer of MTProxy is sent is on record, unless the order had  *)
(* been issued one before, by a session that overlapped with a failing     *)
(* one: only then is the server read outside of a block.                   *)
FirstLinksRecorded ==
    \A s \in Sessions : \A m \in ToSend(s) :
        m.access.mode = "mtproxy" =>
            \/ Fingerprint(m.access) \in issued \cup broken
            \/ sess[s].open /\ orders[m.order].key # NoAccess

(* Nobody but its session looks after an order in the state paid, so an    *)
(* issue of MTProxy links ends in issued or in paid_but_not_issued,        *)
(* whatever panels do in between.  The rest is exceptions nobody catches:  *)
(* a stop, an order issued before whose server may be off, and the user of *)
(* another order, whose key is refused.                                    *)
PaidIsInHand ==
    \A o \in Orders :
        ModeOf[o] = "mtproxy" /\ orders[o].status = "paid" =>
            \/ \E s \in Sessions : sess[s].order = o
            \/ crashes > 0
            \/ orders[o].key # NoAccess
            \/ \E u \in strays : Matches(o, 0, u)

(* A buyer who chose a server gets the first key on it or in its country,  *)
(* whatever is switched off or fails in between.                           *)
ServedInCountry ==
    \A m \in Outgoing :
        m.first /\ m.access.mode = "server" =>
            \A u \in m.access.users : CountryOf[u.server] = CountryOf[ChosenServer[m.order]]

(* A superkey that reaches its buyer has a source on every server that was *)
(* active as it was assembled, and at least two: no failure is dropped.    *)
SuperkeyWhole ==
    \A m \in Outgoing :
        m.access.mode = "superkey" =>
            /\ {u.server : u \in m.access.users} = m.wanted
            /\ Cardinality(m.wanted) >= 2

(* What a buyer is sent is in the database. *)
SentIsRecorded == \A m \in Outgoing : Fingerprint(m.access) \in issued \cup broken

(* An order has at most one key in force. *)
OneKeyInForce ==
    \A o \in Orders :
        Cardinality({fp \in issued : \E v \in Servers : \E u \in panel[v] :
                        u.order = o /\ fp = {u}}) <= 1
=============================================================================
