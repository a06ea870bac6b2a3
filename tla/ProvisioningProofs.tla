------------------------- MODULE ProvisioningProofs -------------------------
(* Proofs about Provisioning, for every value of its constants: any number *)
(* of orders, servers, sessions, faults, stops and replacements.           *)
EXTENDS Provisioning, FiniteSetTheorems, TLAPS

(***************************************************************************)
(* Types                                                                   *)
(***************************************************************************)

(* An access, a row of orders, a message to a buyer, a session. *)
AccessType == [mode : Modes, users : SUBSET RemoteUser,
               token : (Orders \X Tags) \cup {<<>>}]

Row == [status : OrderStatus, key : AccessType \cup {NoAccess}, server : Servers \cup {NoServer}]

Message == [order : Orders, access : AccessType, wanted : SUBSET Servers, first : BOOLEAN]

Session == [pc : Phase, order : Orders \cup {NoOrder}, replaces : AccessType \cup {NoAccess},
            tag : Tags, mem : Row, todo : SUBSET Servers, wanted : SUBSET Servers,
            at : Servers \cup {NoServer}, got : SUBSET RemoteUser, failed : BOOLEAN,
            open : BOOLEAN, held : SUBSET Orders, made : SUBSET Message]

Shape ==
    /\ active \subseteq Servers
    /\ panel \in [Servers -> SUBSET RemoteUser]
    /\ \A v \in Servers : IsFiniteSet(panel[v]) /\ \A u \in panel[v] : u.server = v
    /\ orders \in [Orders -> Row]
    /\ sess \in [Sessions -> Session]
    /\ issued \cap broken = {}
    /\ faults \in 0..MaxFaults /\ crashes \in 0..MaxCrashes /\ toggles \in 0..MaxToggles

(***************************************************************************)
(* What the rows and the sessions keep to                                  *)
(***************************************************************************)

(* User u may be found by who looks for the users of order o. *)
Given(o, u) == u.order = o \/ <<o, u.order>> \in MarkerPrefixes

(* Only MTProxy links ever become the key of an order. *)
KeySound(o, a) ==
    /\ ModeOf[o] = "mtproxy" /\ a.mode = "mtproxy"
    /\ a.users # {}
    /\ \A u \in a.users : Given(o, u)

OrdersSound ==
    \A o \in Orders :
        /\ orders[o].key # NoAccess => KeySound(o, orders[o].key)
        /\ orders[o].status = "issued" => orders[o].key # NoAccess
        /\ ModeOf[o] = "mtproxy" /\ orders[o].server # NoServer => orders[o].key # NoAccess
        /\ ModeOf[o] # "mtproxy" => orders[o].server = ChosenServer[o]

(* What is on its way to a buyer. *)
MessageSound(m) ==
    /\ m.access.mode = ModeOf[m.order]
    /\ \A u \in m.access.users : Given(m.order, u)
    /\ ModeOf[m.order] = "server" =>
          \A u \in m.access.users : CountryOf[u.server] = CountryOf[ChosenServer[m.order]]
    /\ ModeOf[m.order] = "superkey" =>
          {u.server : u \in m.access.users} = m.wanted /\ Cardinality(m.wanted) >= 2

Working == {"select", "ask", "post", "links", "finalize", "fail"}
Gathering == {"ask", "post", "finalize"}

(* The order a session works on, and what it knows of it. *)
OrderKnown(r) ==
    /\ r.order \in Orders
    /\ \A u \in r.got : Given(r.order, u)
    /\ r.replaces # NoAccess => KeySound(r.order, r.replaces)
    /\ ModeOf[r.order] # "mtproxy" =>
          r.replaces = NoAccess /\ r.mem.server = ChosenServer[r.order]

(* How far it has come with the servers. *)
SourcesSound(r) ==
    /\ r.pc = "post" => r.at \in r.todo
    /\ r.pc \in {"links", "finalize"} => r.got # {}
    /\ r.pc = "links" => ModeOf[r.order] = "mtproxy"
    /\ r.pc \in Gathering /\ ModeOf[r.order] # "mtproxy" => r.open
    /\ r.pc \in Gathering /\ ModeOf[r.order] = "server" =>
          /\ \A v \in r.todo : CountryOf[v] = CountryOf[ChosenServer[r.order]]
          /\ \A u \in r.got : CountryOf[u.server] = CountryOf[ChosenServer[r.order]]
    /\ r.pc \in Gathering /\ ModeOf[r.order] = "superkey" =>
          /\ Cardinality(r.wanted) >= 2
          /\ ~ r.failed => {u.server : u \in r.got} \cup r.todo = r.wanted
          /\ r.pc = "finalize" => ~ r.failed /\ r.todo = {}

RecordSound(r) ==
    /\ r.pc \notin {"ask", "post", "links", "finalize", "fail"} => r.got = {} /\ ~ r.failed
    /\ r.pc \in Working => OrderKnown(r)
    /\ SourcesSound(r)
    /\ \A m \in r.made : MessageSound(m)

(* A session works on one order and sends nothing before that is done; it  *)
(* becomes open over MTProxy links only if their order named a server.     *)
OpenSound(r) ==
    /\ r.pc # "deliver" => r.made = {}
    /\ r.pc = "idle" => ~ r.open
    /\ r.pc \in Working /\ ModeOf[r.order] = "mtproxy" /\ r.open => r.mem.server # NoServer

Good(r) == r \in Session /\ RecordSound(r) /\ OpenSound(r)

SessionsSound == \A s \in Sessions : RecordSound(sess[s]) /\ OpenSound(sess[s])

(* Who starts from a row with a server, or from a key, works on an order   *)
(* that has a key.                                                         *)
StartsFromKey(r) ==
    /\ r.pc \in Working /\ ModeOf[r.order] = "mtproxy"
    /\ r.mem.server # NoServer \/ r.replaces # NoAccess

(* The links a session has made are on record, or older ones are.          *)
LinksRecorded ==
    \A s \in Sessions :
        /\ StartsFromKey(sess[s]) => orders[sess[s].order].key # NoAccess
        /\ \A m \in sess[s].made :
              m.access.mode = "mtproxy" =>
                  \/ Fingerprint(m.access) \in issued \cup broken
                  \/ sess[s].open /\ orders[m.order].key # NoAccess

(* The users of a marker, and the sessions that found none of them and are *)
(* about to create one.                                                    *)
UsersOf(v, o, t) == {u \in panel[v] : u.order = o /\ u.tag = t}
Posters(v, o, t) ==
    {s \in Sessions : sess[s].pc = "post" /\ sess[s].at = v /\ sess[s].order = o /\ sess[s].tag = t}

Counted ==
    \A v \in Servers, o \in Orders, t \in Tags :
        Cardinality(UsersOf(v, o, t)) + Cardinality(Posters(v, o, t)) <= Cardinality(Sessions)

ProvisioningInv == Shape /\ OrdersSound /\ SessionsSound /\ LinksRecorded /\ Counted

-----------------------------------------------------------------------------
(* The session nobody uses is sound. *)
LEMMA IdleIsGood == Good(Idle)
<1>1. UnboundRow \in Row
  BY DEF UnboundRow, Row, OrderStatus
<1>2. Idle \in Session
  BY <1>1, ProvisioningAssumption DEF Idle, Session, Phase, Tags
<1>3. RecordSound(Idle) /\ OpenSound(Idle)
  BY DEF Idle, RecordSound, OpenSound, SourcesSound, Working, Gathering
<1> QED
  BY <1>2, <1>3 DEF Good

(* Sessions and subsets of the servers are finite. *)
LEMMA FiniteSets ==
    /\ IsFiniteSet(Sessions) /\ Cardinality(Sessions) \in Nat
    /\ \A T \in SUBSET Servers : IsFiniteSet(T) /\ Cardinality(T) \in Nat
<1>1. IsFiniteSet(Sessions)
  BY ProvisioningAssumption
<1>2. ASSUME NEW T \in SUBSET Servers PROVE IsFiniteSet(T)
  BY ProvisioningAssumption, FS_Subset
<1> QED
  BY <1>1, <1>2, FS_CardinalityType

(* The invariant holds at the start. *)
LEMMA InitSound == Init => ProvisioningInv
<1> SUFFICES ASSUME Init PROVE ProvisioningInv
  OBVIOUS
<1>1. Shape
  <2>1. Idle \in Session
    BY IdleIsGood DEF Good
  <2>2. orders \in [Orders -> Row]
    BY ProvisioningAssumption DEF Init, Row, OrderStatus
  <2>3. IsFiniteSet({})
    BY FS_EmptySet
  <2> QED
    BY <2>1, <2>2, <2>3, ProvisioningAssumption DEF Init, Shape
<1>2. OrdersSound
  BY ProvisioningAssumption DEF Init, OrdersSound
<1>3. SessionsSound
  BY IdleIsGood DEF Init, SessionsSound, Good
<1>4. LinksRecorded
  BY DEF Init, LinksRecorded, StartsFromKey, Working, Idle
<1>5. Counted
  <2> SUFFICES ASSUME NEW v \in Servers, NEW o \in Orders, NEW t \in Tags
               PROVE  Cardinality(UsersOf(v, o, t)) + Cardinality(Posters(v, o, t))
                        <= Cardinality(Sessions)
    BY DEF Counted
  <2>1. UsersOf(v, o, t) = {} /\ Posters(v, o, t) = {}
    BY DEF Init, UsersOf, Posters, Idle
  <2> QED
    BY <2>1, FiniteSets, FS_EmptySet
<1> QED
  BY <1>1, <1>2, <1>3, <1>4, <1>5 DEF ProvisioningInv

(***************************************************************************)
(* What the answers of panels make of a session                            *)
(***************************************************************************)

(* The record of a session is known field by field. *)
LEMMA SessionFields ==
    ASSUME Shape, SessionsSound, NEW s \in Sessions
    PROVE  /\ sess[s] \in Session
           /\ Good(sess[s])
BY DEF Shape, SessionsSound, Good

(* A session that gives up stays sound. *)
LEMMA FailingIsGood ==
    ASSUME NEW s, NEW r \in Session, Good(r), r.pc \in Working, NEW open \in BOOLEAN,
           open /\ ModeOf[r.order] = "mtproxy" => r.mem.server # NoServer
    PROVE  Good([r EXCEPT !.pc = "fail", !.open = r.open \/ open])
<1> DEFINE q == [r EXCEPT !.pc = "fail", !.open = r.open \/ open]
<1>1. q \in Session
  BY DEF Session, Phase
<1>2. /\ q.pc = "fail" /\ q.open = (r.open \/ open) /\ q.order = r.order /\ q.got = r.got
      /\ q.replaces = r.replaces /\ q.mem = r.mem /\ q.made = r.made
  BY DEF Session
<1> HIDE DEF q
<1>3. OrderKnown(q)
  BY <1>2 DEF Good, RecordSound, OrderKnown
<1>4. SourcesSound(q)
  BY <1>2 DEF SourcesSound, Gathering
<1>5. RecordSound(q)
  BY <1>2, <1>3, <1>4 DEF Good, RecordSound
<1>6. OpenSound(q)
  BY <1>2 DEF Good, OpenSound, Working, Session
<1> QED
  BY <1>1, <1>5, <1>6 DEF Good, q

(* A session that got a source from the server it asked stays sound. *)
LEMMA GotIsGood ==
    ASSUME NEW s \in Sessions, sess[s] \in Session, Good(sess[s]),
           sess[s].pc \in {"ask", "post"}, NEW v \in sess[s].todo,
           NEW u \in RemoteUser, u.server = v, Given(sess[s].order, u)
    PROVE  Good(Got(s, v, u))
<1> DEFINE q == Got(s, v, u)
           o == sess[s].order
           rest == IF ModeOf[o] = "superkey" THEN sess[s].todo \ {v} ELSE {}
           got == sess[s].got \cup {u}
           pc == IF ModeOf[o] = "mtproxy" THEN "links"
                 ELSE IF rest # {} THEN "ask"
                 ELSE IF sess[s].failed THEN "fail" ELSE "finalize"
<1>0. o \in Orders /\ OrderKnown(sess[s]) /\ SourcesSound(sess[s]) /\ v \in Servers
  BY DEF Good, RecordSound, Working, OrderKnown, Session
<1>1. pc \in {"links", "ask", "fail", "finalize"} /\ rest \in SUBSET Servers
      /\ got \in SUBSET RemoteUser
  BY DEF Session
<1>2. q = [sess[s] EXCEPT !.got = got, !.at = NoServer, !.todo = rest, !.pc = pc]
  BY DEF Got, WithSource, Session
<1> HIDE DEF pc, rest, got
<1>3. q \in Session
  BY <1>1, <1>2 DEF Session, Phase
<1>4. /\ q.pc = pc /\ q.open = sess[s].open /\ q.order = o /\ q.got = got
      /\ q.todo = rest /\ q.wanted = sess[s].wanted /\ q.failed = sess[s].failed
      /\ q.replaces = sess[s].replaces /\ q.mem = sess[s].mem /\ q.made = sess[s].made
  BY <1>2 DEF Session
<1> HIDE DEF q, o
<1>5. OrderKnown(q)
  BY <1>0, <1>4 DEF OrderKnown, o, got
<1>6. SourcesSound(q)
  <2>1. CASE ModeOf[o] = "mtproxy"
    <3>1. pc = "links"
      BY <2>1 DEF pc
    <3> QED
      BY <1>4, <2>1, <3>1 DEF SourcesSound, Gathering, got
  <2>2. CASE ModeOf[o] = "server"
    <3>1. pc \in {"fail", "finalize"} /\ rest = {}
      BY <2>2 DEF pc, rest
    <3>2. CountryOf[u.server] = CountryOf[ChosenServer[o]]
      BY <1>0, <2>2 DEF SourcesSound, Gathering, o
    <3> QED
      BY <1>0, <1>4, <2>2, <3>1, <3>2 DEF SourcesSound, Gathering, o, got
  <2>3. CASE ModeOf[o] = "superkey"
    <3>1. /\ rest = sess[s].todo \ {v}
          /\ (pc = "ask" /\ rest # {}) \/ pc = "fail" \/ (pc = "finalize" /\ rest = {} /\ ~ sess[s].failed)
      BY <2>3 DEF pc, rest, Session
    <3>2. {w.server : w \in q.got} = {w.server : w \in sess[s].got} \cup {v}
      BY <1>4 DEF got
    <3>3. /\ Cardinality(sess[s].wanted) >= 2 /\ sess[s].open
          /\ ~ sess[s].failed => {w.server : w \in sess[s].got} \cup sess[s].todo = sess[s].wanted
      BY <1>0, <2>3 DEF SourcesSound, Gathering, o
    <3>4. ~ q.failed => {w.server : w \in q.got} \cup q.todo = q.wanted
      BY <1>4, <3>1, <3>2, <3>3
    <3> QED
      BY <1>4, <2>3, <3>1, <3>3, <3>4 DEF SourcesSound, Gathering, got
  <2> QED
    BY <1>0, <2>1, <2>2, <2>3, ProvisioningAssumption DEF Modes, o
<1>7. RecordSound(q)
  BY <1>1, <1>4, <1>5, <1>6 DEF Good, RecordSound
<1>8. OpenSound(q)
  BY <1>1, <1>4 DEF Good, OpenSound, Working, o
<1> QED
  BY <1>3, <1>7, <1>8 DEF Good, q

(* A session that got nothing from a server stays sound. *)
LEMMA LostIsGood ==
    ASSUME NEW s \in Sessions, sess[s] \in Session, Good(sess[s]),
           sess[s].pc \in {"ask", "post"}, NEW v \in sess[s].todo
    PROVE  Good(Lost(s, v))
<1> DEFINE q == Lost(s, v)
           o == sess[s].order
           rest == sess[s].todo \ {v}
           failed == ModeOf[o] = "superkey"
           pc == IF rest # {} THEN "ask" ELSE "fail"
<1>0. o \in Orders /\ OrderKnown(sess[s]) /\ SourcesSound(sess[s])
  BY DEF Good, RecordSound, Working, OrderKnown
<1>1. pc \in {"ask", "fail"} /\ rest \in SUBSET Servers /\ failed \in BOOLEAN
  BY DEF Session
<1>2. q = [sess[s] EXCEPT !.todo = rest, !.at = NoServer, !.failed = failed, !.pc = pc]
  BY DEF Lost
<1> HIDE DEF pc, failed
<1>3. q \in Session
  BY <1>1, <1>2 DEF Session, Phase
<1>4. /\ q.pc = pc /\ q.open = sess[s].open /\ q.order = o /\ q.got = sess[s].got
      /\ q.todo = rest /\ q.wanted = sess[s].wanted /\ q.failed = failed
      /\ q.replaces = sess[s].replaces /\ q.mem = sess[s].mem /\ q.made = sess[s].made
  BY <1>2 DEF Session
<1> HIDE DEF q, o
<1>5. OrderKnown(q)
  BY <1>0, <1>4 DEF OrderKnown, o
<1>6. SourcesSound(q)
  BY <1>0, <1>1, <1>4 DEF SourcesSound, Gathering, o, failed
<1>7. RecordSound(q)
  BY <1>1, <1>4, <1>5, <1>6 DEF Good, RecordSound
<1>8. OpenSound(q)
  BY <1>1, <1>4 DEF Good, OpenSound, Working, o
<1> QED
  BY <1>3, <1>7, <1>8 DEF Good, q

(***************************************************************************)
(* Every step makes a sound session of a sound one                         *)
(***************************************************************************)

Becomes(s, r) == sess' = [sess EXCEPT ![s] = r] /\ Good(r)

(* Taking an order. *)
LEMMA TakeIsGood ==
    ASSUME NEW s \in Sessions, sess[s] \in Session, Good(sess[s]),
           sess[s].pc = "idle", NEW o \in Orders, NEW row \in Row, NEW tag \in Tags,
           NEW replaces \in AccessType \cup {NoAccess}, Take(s, o, row, tag, replaces),
           replaces # NoAccess => KeySound(o, replaces),
           ModeOf[o] # "mtproxy" => replaces = NoAccess /\ row.server = ChosenServer[o]
    PROVE  \E r : Becomes(s, r) /\ r.pc = "select"
<1> DEFINE r == [sess[s] EXCEPT !.pc = "select", !.order = o, !.tag = tag, !.mem = row,
                                !.replaces = replaces]
<1>1. sess' = [sess EXCEPT ![s] = r]
  BY DEF Take
<1>2. r \in Session
  BY DEF Session, Phase
<1>3. /\ r.pc = "select" /\ r.order = o /\ r.mem = row /\ r.replaces = replaces
      /\ r.got = sess[s].got /\ r.failed = sess[s].failed /\ r.made = sess[s].made
      /\ r.open = sess[s].open
  BY DEF Session
<1> HIDE DEF r
<1>4. OrderKnown(r)
  BY <1>3 DEF Good, RecordSound, OrderKnown
<1>5. RecordSound(r)
  BY <1>3, <1>4 DEF Good, RecordSound, SourcesSound, Gathering
<1>6. OpenSound(r)
  BY <1>3 DEF Good, OpenSound
<1> QED
  BY <1>1, <1>2, <1>3, <1>5, <1>6 DEF Good, Becomes

(* A session that takes an order to issue it. *)
LEMMA TakesForIssue ==
    ASSUME Shape, OrdersSound, SessionsSound, NEW s \in Sessions, NEW o \in Orders,
           TakeForIssue(s, o)
    PROVE  /\ \E r : Becomes(s, r) /\ r.pc = "select"
           /\ orders' \in [Orders -> Row] /\ OrdersSound'
           /\ UNCHANGED <<active, panel, broken, issued, faults, crashes, toggles>>
<1> DEFINE row == [orders[o] EXCEPT !.status = "paid"]
<1>1. orders[o] \in Row
  BY DEF Shape
<1>2. /\ row \in Row /\ row.key = orders[o].key /\ row.server = orders[o].server
      /\ row.status = "paid"
  BY <1>1 DEF Row, OrderStatus
<1>3. /\ orders' = [orders EXCEPT ![o] = row]
      /\ Take(s, o, row, 0, NoAccess)
      /\ sess[s].pc = "idle"
      /\ UNCHANGED <<active, panel, broken, issued, faults, crashes, toggles>>
  BY DEF TakeForIssue
<1>4. ModeOf[o] # "mtproxy" => row.server = ChosenServer[o]
  BY <1>2 DEF OrdersSound
<1>5. 0 \in Tags
  BY ProvisioningAssumption DEF Tags
<1> HIDE DEF row
<1>6. \E r : Becomes(s, r) /\ r.pc = "select"
  BY <1>2, <1>3, <1>4, <1>5, SessionFields, TakeIsGood
<1>7. orders' \in [Orders -> Row] /\ OrdersSound'
  BY <1>2, <1>3, <1>4 DEF Shape, OrdersSound
<1> QED
  BY <1>3, <1>6, <1>7

(* A session that takes an order to replace its key. *)
LEMMA TakesForReplacement ==
    ASSUME Shape, OrdersSound, SessionsSound, NEW s \in Sessions, NEW o \in Orders,
           TakeForReplacement(s, o)
    PROVE  /\ \E r : Becomes(s, r) /\ r.pc = "select"
           /\ UNCHANGED <<active, panel, orders, broken, issued, faults, crashes, toggles>>
<1>1. orders[o] \in Row /\ orders[o].status = "issued" /\ sess[s].pc = "idle"
  BY DEF Shape, TakeForReplacement
<1>2. PICK t \in Tags : Take(s, o, orders[o], t, orders[o].key)
  BY DEF TakeForReplacement, NewTags
<1>3. KeySound(o, orders[o].key) /\ orders[o].key \in AccessType \cup {NoAccess}
  BY <1>1 DEF OrdersSound, Row
<1>4. \E r : Becomes(s, r) /\ r.pc = "select"
  BY <1>1, <1>2, <1>3, SessionFields, TakeIsGood DEF KeySound
<1> QED
  BY <1>4 DEF TakeForReplacement

(* Servers to ask, once they are chosen. *)
LEMMA AskingIsGood ==
    ASSUME NEW s \in Sessions, sess[s] \in Session, Good(sess[s]), sess[s].pc = "select",
           NEW todo \in SUBSET Servers, NEW open \in BOOLEAN, Asking(s, todo, open),
           ModeOf[sess[s].order] # "mtproxy" => open,
           open /\ ModeOf[sess[s].order] = "mtproxy" => sess[s].mem.server # NoServer,
           ModeOf[sess[s].order] = "server" =>
              \A v \in todo : CountryOf[v] = CountryOf[ChosenServer[sess[s].order]],
           ModeOf[sess[s].order] = "superkey" => Cardinality(todo) >= 2
    PROVE  \E r : Becomes(s, r) /\ r.pc = "ask"
<1> DEFINE o == sess[s].order
           wanted == IF ModeOf[o] = "superkey" THEN todo ELSE {}
           r == [sess[s] EXCEPT !.pc = "ask", !.todo = todo, !.open = sess[s].open \/ open,
                                !.wanted = wanted]
<1>1. sess' = [sess EXCEPT ![s] = r]
  BY DEF Asking
<1>2. wanted \in SUBSET Servers
  OBVIOUS
<1> HIDE DEF wanted
<1>3. r \in Session
  BY <1>2 DEF Session, Phase
<1>4. /\ r.pc = "ask" /\ r.order = o /\ r.mem = sess[s].mem /\ r.replaces = sess[s].replaces
      /\ r.got = sess[s].got /\ r.failed = sess[s].failed /\ r.made = sess[s].made
      /\ r.open = (sess[s].open \/ open) /\ r.todo = todo /\ r.wanted = wanted
  BY DEF Session
<1> HIDE DEF r, o
<1>5. OrderKnown(r) /\ r.got = {} /\ ~ r.failed
  BY <1>4 DEF Good, RecordSound, Working, OrderKnown, o
<1>6. SourcesSound(r)
  BY <1>4, <1>5 DEF SourcesSound, Gathering, wanted, o
<1>7. RecordSound(r)
  BY <1>4, <1>5, <1>6 DEF Good, RecordSound
<1>8. OpenSound(r)
  BY <1>4 DEF Good, OpenSound, Working, Session, o
<1> QED
  BY <1>1, <1>3, <1>4, <1>7, <1>8 DEF Good, Becomes

(* The servers of an order that names one, and of a superkey, are chosen.  *)
LEMMA SelectsServers ==
    ASSUME Shape, SessionsSound, NEW s \in Sessions, SelectServers(s)
    PROVE  \E r : Becomes(s, r) /\ r.pc \notin {"post", "deliver"}
<1> DEFINE o == sess[s].order
<1>1. /\ sess[s] \in Session /\ Good(sess[s]) /\ sess[s].pc = "select"
      /\ OrderKnown(sess[s]) /\ o \in Orders
      /\ ModeOf[o] = "mtproxy" => sess[s].mem.server # NoServer
  BY SessionFields DEF SelectServers, LeastLoadedWanted, Preferred, Good, RecordSound, Working,
                      OrderKnown
<1>2. CASE sess' = [sess EXCEPT ![s] = Idle]
  <2>1. Becomes(s, Idle)
    BY <1>2, IdleIsGood DEF Becomes
  <2>2. Idle.pc \notin {"post", "deliver"}
    BY DEF Idle
  <2> QED
    BY <2>1, <2>2
<1>3. CASE sess' = [sess EXCEPT ![s] = [sess[s] EXCEPT !.pc = "fail", !.open = TRUE]]
  <2>1. Good([sess[s] EXCEPT !.pc = "fail", !.open = sess[s].open \/ TRUE])
    BY <1>1, FailingIsGood DEF Working
  <2>2. [sess[s] EXCEPT !.pc = "fail", !.open = TRUE].pc = "fail"
    BY <1>1 DEF Session
  <2> QED
    BY <1>3, <2>1, <2>2 DEF Becomes
<1>4. CASE /\ Asking(s, Candidates(s), TRUE)
           /\ ~ (Cardinality(Candidates(s)) < (IF ModeOf[o] = "superkey" THEN 2 ELSE 1))
  <2>1. Candidates(s) \in SUBSET Servers /\ Cardinality(Candidates(s)) \in Nat
    BY FiniteSets DEF Shape, Candidates
  <2>2. ModeOf[o] = "superkey" => Cardinality(Candidates(s)) >= 2
    BY <1>4, <2>1
  <2>3. ASSUME ModeOf[o] = "server", NEW v \in Candidates(s)
        PROVE  CountryOf[v] = CountryOf[ChosenServer[o]]
    <3>1. Preferred(s) = ChosenServer[o] /\ ChosenServer[o] # NoServer
      BY <1>1, <2>3, ProvisioningAssumption DEF Preferred, Replacing, OrderKnown
    <3> QED
      BY <2>3, <3>1 DEF Candidates
  <2>4. \E r : Becomes(s, r) /\ r.pc = "ask"
    BY <1>1, <1>4, <2>1, <2>2, <2>3, AskingIsGood
  <2> QED
    BY <2>4
<1> QED
  BY <1>2, <1>3, <1>4 DEF SelectServers

(* The server of MTProxy links is chosen. *)
LEMMA SelectsLeastLoaded ==
    ASSUME Shape, SessionsSound, NEW s \in Sessions, SelectLeastLoaded(s)
    PROVE  /\ \E r : Becomes(s, r) /\ r.pc \notin {"post", "deliver"}
           /\ faults' \in 0..MaxFaults
           /\ UNCHANGED <<active, panel, orders, broken, issued, crashes, toggles>>
<1> DEFINE o == sess[s].order
<1>1. /\ sess[s] \in Session /\ Good(sess[s]) /\ sess[s].pc = "select"
      /\ ModeOf[o] = "mtproxy"
  BY SessionFields DEF SelectLeastLoaded, LeastLoadedWanted
<1>2. faults' \in 0..MaxFaults
  BY ProvisioningAssumption DEF SelectLeastLoaded, Shape, Fault
<1>3. PICK measured \in SUBSET active :
          IF measured = {} THEN sess' = [sess EXCEPT ![s] = [sess[s] EXCEPT !.pc = "fail"]]
          ELSE \E v \in LeastLoaded(s, measured) : Asking(s, {v}, FALSE)
  BY DEF SelectLeastLoaded
<1>4. ASSUME sess' = [sess EXCEPT ![s] = [sess[s] EXCEPT !.pc = "fail"]]
      PROVE  \E r : Becomes(s, r) /\ r.pc \notin {"post", "deliver"}
  <2>1. Good([sess[s] EXCEPT !.pc = "fail", !.open = sess[s].open \/ FALSE])
    BY <1>1, FailingIsGood DEF Working
  <2>2. /\ [sess[s] EXCEPT !.pc = "fail", !.open = sess[s].open \/ FALSE] = [sess[s] EXCEPT !.pc = "fail"]
        /\ [sess[s] EXCEPT !.pc = "fail"].pc = "fail"
    BY <1>1 DEF Session
  <2> QED
    BY <1>4, <2>1, <2>2 DEF Becomes
<1>5. ASSUME NEW v \in LeastLoaded(s, measured), Asking(s, {v}, FALSE)
      PROVE  \E r : Becomes(s, r) /\ r.pc \notin {"post", "deliver"}
  <2>1. {v} \in SUBSET Servers
    BY <1>5 DEF LeastLoaded, Shape
  <2>2. \E r : Becomes(s, r) /\ r.pc = "ask"
    BY <1>1, <1>5, <2>1, AskingIsGood
  <2> QED
    BY <2>2
<1>6. \E r : Becomes(s, r) /\ r.pc \notin {"post", "deliver"}
  BY <1>3, <1>4, <1>5
<1> QED
  BY <1>2, <1>6 DEF SelectLeastLoaded

(* A request that fails is counted. *)
LEMMA FaultsCounted ==
    ASSUME Shape, Fault \/ UNCHANGED faults
    PROVE  faults' \in 0..MaxFaults
BY ProvisioningAssumption DEF Shape, Fault

(* Looking for the user of an earlier try: a session goes on to create one *)
(* only where there is none.                                               *)
LEMMA Looks ==
    ASSUME Shape, SessionsSound, NEW s \in Sessions, Look(s)
    PROVE  /\ \E r : /\ Becomes(s, r) /\ r.pc # "deliver"
                     /\ r.pc = "post" => /\ Found(s, r.at) = {}
                                         /\ r.order = sess[s].order /\ r.tag = sess[s].tag
           /\ faults' \in 0..MaxFaults
           /\ UNCHANGED <<active, panel, orders, broken, issued, crashes, toggles>>
<1> DEFINE Fits(r) == /\ r.pc # "deliver"
                      /\ r.pc = "post" => /\ Found(s, r.at) = {}
                                          /\ r.order = sess[s].order /\ r.tag = sess[s].tag
<1>1. /\ sess[s] \in Session /\ Good(sess[s]) /\ sess[s].pc = "ask"
      /\ sess[s].todo \in SUBSET Servers /\ SourcesSound(sess[s]) /\ OrderKnown(sess[s])
  BY SessionFields DEF Look, Good, RecordSound, Session, Working
<1>2. PICK v \in Turn(s) :
          \/ /\ \/ \E u \in Found(s, v) : sess' = [sess EXCEPT ![s] = Got(s, v, u)]
                \/ /\ Found(s, v) = {}
                   /\ sess' = [sess EXCEPT ![s] = [sess[s] EXCEPT !.pc = "post", !.at = v]]
             /\ UNCHANGED faults
          \/ Fault /\ sess' = [sess EXCEPT ![s] = Lost(s, v)]
  BY DEF Look
<1>3. v \in sess[s].todo /\ v \in Servers
  BY <1>1 DEF Turn
<1>4. ASSUME NEW u \in Found(s, v), sess' = [sess EXCEPT ![s] = Got(s, v, u)]
      PROVE  \E r : Becomes(s, r) /\ Fits(r)
  <2>1. u \in RemoteUser /\ u.server = v /\ Given(sess[s].order, u)
    BY <1>3, <1>4 DEF Found, Matches, Given, Shape
  <2>2. Good(Got(s, v, u))
    BY <1>1, <1>3, <2>1, GotIsGood
  <2>3. Got(s, v, u).pc \notin {"post", "deliver"}
    BY <1>1 DEF Got, WithSource, Session
  <2> QED
    BY <1>4, <2>2, <2>3 DEF Becomes
<1>5. ASSUME Found(s, v) = {},
             sess' = [sess EXCEPT ![s] = [sess[s] EXCEPT !.pc = "post", !.at = v]]
      PROVE  \E r : Becomes(s, r) /\ Fits(r)
  <2> DEFINE r == [sess[s] EXCEPT !.pc = "post", !.at = v]
  <2>1. r \in Session
    BY <1>1, <1>3 DEF Session, Phase
  <2>2. /\ r.pc = "post" /\ r.at = v /\ r.order = sess[s].order /\ r.mem = sess[s].mem
        /\ r.tag = sess[s].tag /\ r.replaces = sess[s].replaces
        /\ r.got = sess[s].got /\ r.failed = sess[s].failed /\ r.made = sess[s].made
        /\ r.open = sess[s].open /\ r.todo = sess[s].todo /\ r.wanted = sess[s].wanted
    BY <1>1 DEF Session
  <2>3. sess' = [sess EXCEPT ![s] = r]
    BY <1>5
  <2> HIDE DEF r
  <2>4. RecordSound(r)
    BY <1>1, <1>3, <2>2 DEF Good, RecordSound, SourcesSound, OrderKnown, Working, Gathering
  <2>5. OpenSound(r)
    BY <1>1, <2>2 DEF Good, OpenSound, Working
  <2> QED
    BY <1>5, <2>1, <2>2, <2>3, <2>4, <2>5 DEF Becomes, Good
<1>6. ASSUME sess' = [sess EXCEPT ![s] = Lost(s, v)]
      PROVE  \E r : Becomes(s, r) /\ Fits(r)
  <2>1. Good(Lost(s, v))
    BY <1>1, <1>3, LostIsGood
  <2>2. Lost(s, v).pc \notin {"post", "deliver"}
    BY <1>1 DEF Lost, Session
  <2> QED
    BY <1>6, <2>1, <2>2 DEF Becomes
<1>7. \E r : Becomes(s, r) /\ Fits(r)
  BY <1>2, <1>4, <1>5, <1>6
<1>8. faults' \in 0..MaxFaults
  BY <1>2, FaultsCounted
<1> QED
  BY <1>7, <1>8 DEF Look

(* The user a session creates. *)
LEMMA CreatesUser ==
    ASSUME Shape, NEW s \in Sessions, sess[s] \in Session, sess[s].order \in Orders,
           NEW v \in Servers
    PROVE  /\ NewUser(s, v) \in RemoteUser
           /\ NewUser(s, v).server = v /\ NewUser(s, v).order = sess[s].order
           /\ NewUser(s, v).tag = sess[s].tag
<1>1. IsFiniteSet({u \in panel[v] : u.order = sess[s].order /\ u.tag = sess[s].tag})
  BY FS_Subset DEF Shape
<1>2. Cardinality({u \in panel[v] : u.order = sess[s].order /\ u.tag = sess[s].tag}) \in Nat
  BY <1>1, FS_CardinalityType
<1> QED
  BY <1>2 DEF NewUser, RemoteUser, Session

(* Creating a user, whether or not the answer arrives. *)
LEMMA Posts ==
    ASSUME Shape, SessionsSound, NEW s \in Sessions, Post(s)
    PROVE  /\ \E r : Becomes(s, r) /\ r.pc \notin {"post", "deliver"}
           /\ sess[s].at \in Servers
           /\ \/ panel' = panel
              \/ panel' = [panel EXCEPT ![sess[s].at] = @ \cup {NewUser(s, sess[s].at)}]
           /\ panel' \in [Servers -> SUBSET RemoteUser]
           /\ \A v \in Servers : IsFiniteSet(panel'[v]) /\ \A u \in panel'[v] : u.server = v
           /\ faults' \in 0..MaxFaults
           /\ UNCHANGED <<active, orders, broken, issued, crashes, toggles>>
<1> DEFINE v == sess[s].at
           n == NewUser(s, v)
<1>1. /\ sess[s] \in Session /\ Good(sess[s]) /\ sess[s].pc = "post"
      /\ sess[s].todo \in SUBSET Servers /\ OrderKnown(sess[s]) /\ v \in sess[s].todo
  BY SessionFields DEF Post, Good, RecordSound, Session, Working, SourcesSound
<1>2. v \in Servers /\ sess[s].order \in Orders
  BY <1>1 DEF OrderKnown
<1>3. n \in RemoteUser /\ n.server = v /\ n.order = sess[s].order
  BY <1>1, <1>2, CreatesUser
<1>4. /\ Good(Lost(s, v))
      /\ \A u \in Found(s, v) \cup {n} : Good(Got(s, v, u))
  <2>1. \A u \in Found(s, v) \cup {n} :
            u \in RemoteUser /\ u.server = v /\ Given(sess[s].order, u)
    BY <1>2, <1>3 DEF Found, Matches, Given, Shape
  <2> QED
    BY <1>1, <2>1, GotIsGood, LostIsGood
<1>5. /\ Lost(s, v).pc \notin {"post", "deliver"}
      /\ \A u : Got(s, v, u).pc \notin {"post", "deliver"}
  BY <1>1 DEF Got, WithSource, Lost, Session
<1>6. /\ \/ \E u \in Found(s, v) \cup {n} : sess' = [sess EXCEPT ![s] = Got(s, v, u)]
         \/ sess' = [sess EXCEPT ![s] = Lost(s, v)]
      /\ panel' = panel \/ panel' = [panel EXCEPT ![v] = @ \cup {n}]
      /\ Fault \/ UNCHANGED faults
      /\ UNCHANGED <<active, orders, broken, issued, crashes, toggles>>
  BY DEF Post
<1> HIDE DEF n, v
<1>7. \E r : Becomes(s, r) /\ r.pc \notin {"post", "deliver"}
  BY <1>4, <1>5, <1>6 DEF Becomes
<1>8. faults' \in 0..MaxFaults
  BY <1>6, FaultsCounted
<1>9. panel' \in [Servers -> SUBSET RemoteUser]
  BY <1>2, <1>3, <1>6 DEF Shape
<1>10. ASSUME NEW w \in Servers
       PROVE  IsFiniteSet(panel'[w]) /\ \A u \in panel'[w] : u.server = w
  <2>1. panel'[w] = panel[w] \/ (w = v /\ panel'[w] = panel[w] \cup {n})
    BY <1>2, <1>6 DEF Shape
  <2>2. IsFiniteSet(panel[w]) /\ IsFiniteSet(panel[w] \cup {n})
    BY FS_AddElement DEF Shape
  <2> QED
    BY <1>3, <2>1, <2>2 DEF Shape
<1> QED
  BY <1>2, <1>6, <1>7, <1>8, <1>9, <1>10 DEF n, v

(* Fetching the links of the user that was found or created. *)
LEMMA FetchesLinks ==
    ASSUME Shape, SessionsSound, NEW s \in Sessions, FetchLinks(s)
    PROVE  /\ \E r : Becomes(s, r) /\ r.pc \notin {"post", "deliver"}
           /\ faults' \in 0..MaxFaults
           /\ UNCHANGED <<active, panel, orders, broken, issued, crashes, toggles>>
<1>1. /\ sess[s] \in Session /\ Good(sess[s]) /\ sess[s].pc = "links"
      /\ SourcesSound(sess[s]) /\ OrderKnown(sess[s]) /\ ModeOf[sess[s].order] = "mtproxy"
  BY SessionFields DEF FetchLinks, Good, RecordSound, Working, SourcesSound
<1>2. PICK pc \in {"finalize", "fail"} :
          sess' = [sess EXCEPT ![s] = [sess[s] EXCEPT !.pc = pc]]
  <2>1. \A pc : [sess EXCEPT ![s].pc = pc] = [sess EXCEPT ![s] = [sess[s] EXCEPT !.pc = pc]]
    OBVIOUS
  <2> QED
    BY <2>1 DEF FetchLinks
<1> DEFINE r == [sess[s] EXCEPT !.pc = pc]
<1>3. r \in Session
  BY <1>1 DEF Session, Phase
<1>4. /\ r.pc = pc /\ r.order = sess[s].order /\ r.mem = sess[s].mem
      /\ r.replaces = sess[s].replaces /\ r.got = sess[s].got /\ r.made = sess[s].made
      /\ r.open = sess[s].open
  BY <1>1 DEF Session
<1> HIDE DEF r
<1>5. RecordSound(r)
  BY <1>1, <1>4 DEF Good, RecordSound, SourcesSound, OrderKnown, Gathering
<1>6. OpenSound(r)
  BY <1>1, <1>4 DEF Good, OpenSound, Working
<1>7. Becomes(s, r) /\ r.pc \notin {"post", "deliver"}
  BY <1>2, <1>3, <1>4, <1>5, <1>6 DEF Becomes, Good, r
<1>8. faults' \in 0..MaxFaults
  BY FaultsCounted DEF FetchLinks
<1> QED
  BY <1>7, <1>8 DEF FetchLinks

-----------------------------------------------------------------------------
(***************************************************************************)
(* Writing the outcome                                                     *)
(***************************************************************************)

(* A session that is done with an order, with what it has made for it.     *)
LEMMA AfterIsGood ==
    ASSUME NEW s \in Sessions, sess[s] \in Session, Good(sess[s]), sess[s].pc \in Working,
           NEW made \in SUBSET Message, \A m \in made : MessageSound(m)
    PROVE  /\ Good(After(s, made))
           /\ After(s, made).pc = "deliver" /\ After(s, made).open = sess[s].open
           /\ After(s, made).made = made
<1> DEFINE held == IF sess[s].open THEN {sess[s].order} ELSE {}
           r == After(s, made)
<1>1. Idle \in Session /\ Idle.got = {} /\ Idle.failed = FALSE
  BY IdleIsGood DEF Good, Idle
<1>2. held \in SUBSET Orders /\ sess[s].open \in BOOLEAN
  BY DEF Good, RecordSound, OrderKnown, Session
<1>3. r = [Idle EXCEPT !.pc = "deliver", !.open = sess[s].open, !.made = made, !.held = held]
  BY DEF After
<1> HIDE DEF held
<1>4. r \in Session
  BY <1>1, <1>2, <1>3 DEF Session, Phase
<1>5. r.pc = "deliver" /\ r.open = sess[s].open /\ r.made = made /\ r.got = {} /\ r.failed = FALSE
  BY <1>1, <1>3 DEF Session
<1> HIDE DEF r
<1>6. RecordSound(r)
  BY <1>5 DEF RecordSound, SourcesSound, Working, Gathering
<1>7. OpenSound(r)
  BY <1>5 DEF OpenSound, Working
<1> QED
  BY <1>4, <1>5, <1>6, <1>7 DEF Good, r

(* What a session that finalizes has put together. *)
LEMMA Assembled ==
    ASSUME Shape, SessionsSound, NEW s \in Sessions, sess[s].pc = "finalize"
    PROVE  LET o == sess[s].order
               m == [order |-> o, access |-> Made(s), wanted |-> sess[s].wanted,
                     first |-> ~Replacing(s)]
           IN  /\ sess[s] \in Session /\ Good(sess[s]) /\ o \in Orders
               /\ m \in Message /\ MessageSound(m)
               /\ Made(s) \in AccessType /\ Made(s).mode = ModeOf[o]
               /\ Made(s).users = sess[s].got /\ sess[s].got # {}
               /\ ModeOf[o] = "mtproxy" => KeySound(o, Made(s))
               /\ ModeOf[o] # "mtproxy" => sess[s].open
               /\ ModeOf[o] = "mtproxy" /\ sess[s].open => sess[s].mem.server # NoServer
<1> DEFINE o == sess[s].order
           m == [order |-> o, access |-> Made(s), wanted |-> sess[s].wanted,
                 first |-> ~Replacing(s)]
<1>1. /\ sess[s] \in Session /\ Good(sess[s]) /\ o \in Orders
      /\ OrderKnown(sess[s]) /\ SourcesSound(sess[s])
  BY SessionFields DEF Good, RecordSound, Working, OrderKnown
<1>2. ModeOf[o] \in Modes
  BY <1>1, ProvisioningAssumption
<1>3. /\ Made(s) \in AccessType /\ Made(s).mode = ModeOf[o]
      /\ Made(s).users = sess[s].got /\ sess[s].got # {}
  <2>1. sess[s].got \in SUBSET RemoteUser /\ sess[s].tag \in Tags
    BY <1>1 DEF Session
  <2>2. sess[s].got # {}
    BY <1>1 DEF SourcesSound
  <2> QED
    BY <1>1, <1>2, <2>1, <2>2 DEF Made, Access, AccessType
<1>4. m \in Message
  BY <1>1, <1>3 DEF Message, Session
<1>5. m.order = o /\ m.access = Made(s) /\ m.wanted = sess[s].wanted
  OBVIOUS
<1> HIDE DEF m
<1>6. MessageSound(m)
  <2>1. ModeOf[o] = "superkey" =>
          {u.server : u \in sess[s].got} = sess[s].wanted /\ Cardinality(sess[s].wanted) >= 2
    BY <1>1 DEF SourcesSound, Gathering
  <2>2. ModeOf[o] = "server" =>
          \A u \in sess[s].got : CountryOf[u.server] = CountryOf[ChosenServer[o]]
    BY <1>1 DEF SourcesSound, Gathering
  <2>3. \A u \in sess[s].got : Given(o, u)
    BY <1>1 DEF OrderKnown
  <2> QED
    BY <1>3, <1>5, <2>1, <2>2, <2>3 DEF MessageSound
<1>7. ModeOf[o] = "mtproxy" => KeySound(o, Made(s))
  BY <1>1, <1>3 DEF KeySound, OrderKnown
<1>8. /\ ModeOf[o] # "mtproxy" => sess[s].open
      /\ ModeOf[o] = "mtproxy" /\ sess[s].open => sess[s].mem.server # NoServer
  BY <1>1 DEF SourcesSound, Gathering, Good, OpenSound, Working
<1> QED
  BY <1>1, <1>3, <1>4, <1>6, <1>7, <1>8 DEF m

(* The row of an order whose links are written. *)
NewRow(s) ==
    LET o == sess[s].order
        server == ServerOf(Made(s), orders[o].server)
    IN  [status |-> IF Replacing(s) THEN orders[o].status ELSE "issued",
         key |-> Made(s),
         server |-> IF server = sess[s].mem.server THEN orders[o].server ELSE server]

(* What finalizing does: nothing when it is refused, else it is written by *)
(* a session that is not open, and on its way in any case.                 *)
LEMMA Finalizes ==
    ASSUME Shape, SessionsSound, NEW s \in Sessions, Finalize(s)
    PROVE  LET o == sess[s].order
               fp == Fingerprint(Made(s))
               m == [order |-> o, access |-> Made(s), wanted |-> sess[s].wanted,
                     first |-> ~Replacing(s)]
               r == After(s, {m})
           IN  /\ sess[s].pc = "finalize"
               /\ \/ /\ sess' = [sess EXCEPT ![s] = Idle]
                     /\ UNCHANGED <<orders, issued, broken>>
                  \/ /\ ~ Refused(s, fp)
                     /\ sess' = [sess EXCEPT ![s] = r]
                     /\ \/ sess[s].open /\ UNCHANGED <<orders, issued, broken>>
                        \/ /\ ~ sess[s].open
                           /\ orders' = [orders EXCEPT ![o] = NewRow(s)]
                           /\ broken' = BrokenBy(s, fp)
                           /\ issued' = (issued \cup {fp}) \ broken'
               /\ UNCHANGED <<active, panel, faults, crashes, toggles>>
<1>1. sess[s].order \in Orders
  BY Assembled DEF Finalize
<1> QED
  BY <1>1 DEF Finalize, NewRow, Shape

(* Finalizing keeps rows, sessions and records sound. *)
LEMMA FinalizeKeeps ==
    ASSUME Shape, OrdersSound, SessionsSound, LinksRecorded, NEW s \in Sessions, Finalize(s)
    PROVE  /\ \E r : Becomes(s, r) /\ r.pc # "post"
           /\ orders' \in [Orders -> Row] /\ OrdersSound'
           /\ \A o \in Orders : orders[o].key # NoAccess => orders'[o].key # NoAccess
           /\ issued' \cap broken' = {}
           /\ LinksRecorded'
           /\ UNCHANGED <<active, panel, faults, crashes, toggles>>
<1> DEFINE o == sess[s].order
           fp == Fingerprint(Made(s))
           m == [order |-> o, access |-> Made(s), wanted |-> sess[s].wanted,
                 first |-> ~Replacing(s)]
           r == After(s, {m})
<1>1. /\ sess[s].pc = "finalize"
      /\ UNCHANGED <<active, panel, faults, crashes, toggles>>
  BY Finalizes
<1>2. /\ sess[s] \in Session /\ Good(sess[s]) /\ o \in Orders
      /\ m \in Message /\ MessageSound(m) /\ m.access = Made(s) /\ m.order = o
      /\ Made(s) \in AccessType /\ Made(s).mode = ModeOf[o]
      /\ Made(s).users = sess[s].got /\ sess[s].got # {}
      /\ ModeOf[o] = "mtproxy" => KeySound(o, Made(s))
      /\ ModeOf[o] # "mtproxy" => sess[s].open
      /\ ModeOf[o] = "mtproxy" /\ sess[s].open => sess[s].mem.server # NoServer
  BY <1>1, Assembled
<1> HIDE DEF m
<1>3. Good(r) /\ r.pc = "deliver" /\ r.open = sess[s].open /\ r.made = {m}
  BY <1>1, <1>2, AfterIsGood DEF Working
<1>4. Made(s) # NoAccess
  BY <1>2, NoAccessAssumption DEF AccessType
<1> HIDE DEF r, o, fp
<1>5. CASE sess' = [sess EXCEPT ![s] = Idle] /\ UNCHANGED <<orders, issued, broken>>
  <2>1. Becomes(s, Idle) /\ Idle.pc = "idle" /\ Idle.made = {}
    BY <1>5, IdleIsGood DEF Becomes, Idle
  <2>2. LinksRecorded'
    BY <1>5, <2>1 DEF LinksRecorded, StartsFromKey, Working, Shape
  <2> QED
    BY <1>1, <1>5, <2>1, <2>2 DEF Shape, OrdersSound
<1>6. CASE /\ sess' = [sess EXCEPT ![s] = r]
           /\ sess[s].open /\ UNCHANGED <<orders, issued, broken>>
  <2>1. ASSUME m.access.mode = "mtproxy" PROVE orders[m.order].key # NoAccess
    <3>1. ModeOf[o] = "mtproxy" /\ sess[s].mem.server # NoServer
      BY <1>2, <1>6, <2>1
    <3>2. StartsFromKey(sess[s])
      BY <1>1, <3>1 DEF StartsFromKey, Working, o
    <3> QED
      BY <1>2, <3>2 DEF LinksRecorded, o
  <2>2. LinksRecorded'
    <3> SUFFICES ASSUME NEW t \in Sessions
                 PROVE  /\ StartsFromKey(sess'[t]) => orders[sess'[t].order].key # NoAccess
                        /\ \A n \in sess'[t].made : n.access.mode = "mtproxy" =>
                              \/ Fingerprint(n.access) \in issued \cup broken
                              \/ sess'[t].open /\ orders[n.order].key # NoAccess
      BY <1>6 DEF LinksRecorded, StartsFromKey
    <3>1. CASE t = s
      BY <1>3, <1>6, <2>1, <3>1 DEF Shape, StartsFromKey, Working
    <3>2. CASE t # s
      BY <1>6, <3>2 DEF Shape, LinksRecorded
    <3> QED
      BY <3>1, <3>2
  <2>3. Becomes(s, r)
    BY <1>3, <1>6 DEF Becomes
  <2> QED
    BY <1>1, <1>3, <1>6, <2>2, <2>3 DEF Shape, OrdersSound
<1>7. CASE /\ sess' = [sess EXCEPT ![s] = r]
           /\ ~ sess[s].open
           /\ orders' = [orders EXCEPT ![o] = NewRow(s)]
           /\ broken' = BrokenBy(s, fp)
           /\ issued' = (issued \cup {fp}) \ broken'
  <2>1. ModeOf[o] = "mtproxy" /\ KeySound(o, Made(s))
    BY <1>2, <1>7
  <2>2. NewRow(s) \in Row /\ NewRow(s).key = Made(s)
    <3>1. orders[o] \in Row
      BY <1>2 DEF Shape
    <3>2. ServerOf(Made(s), orders[o].server) \in Servers
      <4>1. PICK u \in RemoteUser : u = CHOOSE w \in Made(s).users : TRUE
        BY <1>2 DEF Session
      <4> QED
        BY <1>2, <2>1, <4>1 DEF ServerOf, RemoteUser
    <3> QED
      BY <1>2, <3>1, <3>2 DEF NewRow, Row, OrderStatus, o
  <2>3. orders' \in [Orders -> Row]
    BY <1>2, <1>7, <2>2 DEF Shape
  <2>4. OrdersSound'
    <3> SUFFICES ASSUME NEW p \in Orders
                 PROVE  /\ orders'[p].key # NoAccess => KeySound(p, orders'[p].key)
                        /\ orders'[p].status = "issued" => orders'[p].key # NoAccess
                        /\ ModeOf[p] = "mtproxy" /\ orders'[p].server # NoServer
                             => orders'[p].key # NoAccess
                        /\ ModeOf[p] # "mtproxy" => orders'[p].server = ChosenServer[p]
      BY DEF OrdersSound
    <3>1. CASE p = o
      BY <1>2, <1>4, <1>7, <2>1, <2>2, <3>1 DEF Shape
    <3>2. CASE p # o
      BY <1>7, <3>2 DEF OrdersSound, Shape
    <3> QED
      BY <3>1, <3>2
  <2>5. issued \cup broken \cup {fp} \subseteq issued' \cup broken' /\ issued' \cap broken' = {}
    BY <1>7 DEF BrokenBy
  <2>6. \A p \in Orders : orders[p].key # NoAccess => orders'[p].key # NoAccess
    BY <1>2, <1>4, <1>7, <2>2 DEF Shape
  <2>7. LinksRecorded'
    <3> SUFFICES ASSUME NEW t \in Sessions
                 PROVE  /\ StartsFromKey(sess'[t]) => orders'[sess'[t].order].key # NoAccess
                        /\ \A n \in sess'[t].made : n.access.mode = "mtproxy" =>
                              \/ Fingerprint(n.access) \in issued' \cup broken'
                              \/ sess'[t].open /\ orders'[n.order].key # NoAccess
      BY <1>7 DEF LinksRecorded, StartsFromKey
    <3>1. CASE t = s
      BY <1>2, <1>3, <1>7, <2>5, <3>1 DEF Shape, StartsFromKey, Working, fp
    <3>2. CASE t # s
      <4>1. sess'[t] = sess[t]
        BY <1>7, <3>2 DEF Shape
      <4>2. StartsFromKey(sess[t]) => sess[t].order \in Orders
        BY DEF StartsFromKey, SessionsSound, RecordSound, OrderKnown
      <4>3. \A n \in sess[t].made : n.order \in Orders
        BY DEF Shape, Session, Message
      <4> QED
        BY <2>5, <2>6, <4>1, <4>2, <4>3 DEF LinksRecorded
    <3> QED
      BY <3>1, <3>2
  <2>8. Becomes(s, r)
    BY <1>3, <1>7 DEF Becomes
  <2> QED
    BY <1>1, <1>3, <2>3, <2>4, <2>5, <2>6, <2>7, <2>8
<1> QED
  BY <1>5, <1>6, <1>7, Finalizes DEF r, m, o, fp

(* A failed issue is recorded. *)
LEMMA IssueFailedKeeps ==
    ASSUME Shape, OrdersSound, SessionsSound, NEW s \in Sessions, IssueFailed(s)
    PROVE  /\ \E r : Becomes(s, r) /\ r.pc = "deliver" /\ r.made = {}
           /\ orders' \in [Orders -> Row] /\ OrdersSound'
           /\ UNCHANGED <<active, panel, broken, issued, faults, crashes, toggles>>
<1> DEFINE r == After(s, {})
           o == sess[s].order
           row == [orders[o] EXCEPT !.status = "paid_but_not_issued"]
<1>1. sess[s] \in Session /\ Good(sess[s]) /\ sess[s].pc = "fail" /\ o \in Orders
  BY SessionFields DEF IssueFailed, Good, RecordSound, Working, OrderKnown, Session
<1>2. Good(r) /\ r.pc = "deliver" /\ r.made = {}
  BY <1>1, AfterIsGood DEF Working
<1>3. /\ sess' = [sess EXCEPT ![s] = r]
      /\ UNCHANGED orders \/ orders' = [orders EXCEPT ![o].status = "paid_but_not_issued"]
      /\ UNCHANGED <<active, panel, broken, issued, faults, crashes, toggles>>
  BY DEF IssueFailed
<1> HIDE DEF r, o
<1>4. \E q : Becomes(s, q) /\ q.pc = "deliver" /\ q.made = {}
  BY <1>2, <1>3 DEF Becomes
<1>5. /\ row \in Row /\ row.key = orders[o].key /\ row.server = orders[o].server
      /\ row.status = "paid_but_not_issued"
  BY <1>1 DEF Shape, Row, OrderStatus
<1>6. orders' = orders \/ orders' = [orders EXCEPT ![o] = row]
  BY <1>3
<1> HIDE DEF row
<1>7. orders' \in [Orders -> Row] /\ OrdersSound'
  BY <1>1, <1>5, <1>6 DEF Shape, OrdersSound
<1> QED
  BY <1>3, <1>4, <1>7

(* Sessions that end. *)
LEMMA Ends ==
    ASSUME NEW s \in Sessions, sess' = [sess EXCEPT ![s] = Idle]
    PROVE  \E r : Becomes(s, r) /\ r.pc = "idle" /\ r.made = {}
<1>1. Becomes(s, Idle)
  BY IdleIsGood DEF Becomes
<1>2. Idle.pc = "idle" /\ Idle.made = {}
  BY DEF Idle
<1> QED
  BY <1>1, <1>2

(* A refund. *)
LEMMA RefundKeeps ==
    ASSUME Shape, OrdersSound, NEW o \in Orders, Refund(o)
    PROVE  orders' \in [Orders -> Row] /\ OrdersSound'
<1> DEFINE row == [orders[o] EXCEPT !.status = "refunded"]
<1>1. orders[o] \in Row
  BY DEF Shape
<1>2. /\ row \in Row /\ row.key = orders[o].key /\ row.server = orders[o].server
      /\ row.status = "refunded"
  BY <1>1 DEF Row, OrderStatus
<1>3. orders' = [orders EXCEPT ![o] = row]
  BY DEF Refund
<1> HIDE DEF row
<1> QED
  BY <1>2, <1>3 DEF Shape, OrdersSound

-----------------------------------------------------------------------------
(***************************************************************************)
(* The invariant                                                           *)
(***************************************************************************)

(* What any step does, as far as the invariant goes: one session moves, or *)
(* none, and the tables stay sound.                                        *)
Moves(s) == \E r : Becomes(s, r)

StepKeeps ==
    /\ active' \subseteq Servers
    /\ panel' \in [Servers -> SUBSET RemoteUser]
    /\ \A v \in Servers : IsFiniteSet(panel'[v]) /\ \A u \in panel'[v] : u.server = v
    /\ orders' \in [Orders -> Row] /\ OrdersSound'
    /\ issued' \cap broken' = {}
    /\ faults' \in 0..MaxFaults /\ crashes' \in 0..MaxCrashes /\ toggles' \in 0..MaxToggles
    /\ UNCHANGED sess \/ \E s \in Sessions : Moves(s)

(* Every step is one of these. *)
LEMMA StepsKeep ==
    ASSUME Shape, OrdersSound, SessionsSound, LinksRecorded, Next
    PROVE  StepKeeps
<1> USE DEF StepKeeps, Moves
<1>1. ASSUME NEW v \in Servers, Toggle(v) PROVE StepKeeps
  BY <1>1, ProvisioningAssumption DEF Toggle, Shape, OrdersSound
<1>2. ASSUME NEW o \in Orders, Refund(o) PROVE StepKeeps
  BY <1>2, RefundKeeps DEF Refund, Shape
<1>3. ASSUME NEW s \in Sessions, NEW o \in Orders, TakeForIssue(s, o) PROVE StepKeeps
  BY <1>3, TakesForIssue DEF Shape
<1>4. ASSUME NEW s \in Sessions, NEW o \in Orders, TakeForReplacement(s, o) PROVE StepKeeps
  BY <1>4, TakesForReplacement DEF Shape, OrdersSound
<1>5. ASSUME NEW s \in Sessions, SelectServers(s) PROVE StepKeeps
  BY <1>5, SelectsServers DEF SelectServers, Shape, OrdersSound
<1>6. ASSUME NEW s \in Sessions, SelectLeastLoaded(s) PROVE StepKeeps
  BY <1>6, SelectsLeastLoaded DEF Shape, OrdersSound
<1>7. ASSUME NEW s \in Sessions, Look(s) PROVE StepKeeps
  BY <1>7, Looks DEF Shape, OrdersSound
<1>8. ASSUME NEW s \in Sessions, Post(s) PROVE StepKeeps
  BY <1>8, Posts DEF Shape, OrdersSound
<1>9. ASSUME NEW s \in Sessions, FetchLinks(s) PROVE StepKeeps
  BY <1>9, FetchesLinks DEF Shape, OrdersSound
<1>10. ASSUME NEW s \in Sessions, Finalize(s) PROVE StepKeeps
  BY <1>10, FinalizeKeeps DEF Shape
<1>11. ASSUME NEW s \in Sessions, IssueFailed(s) PROVE StepKeeps
  BY <1>11, IssueFailedKeeps DEF Shape
<1>12. ASSUME NEW s \in Sessions, ReplacementFailed(s) \/ Deliver(s) \/ Crash(s) PROVE StepKeeps
  <2>1. sess' = [sess EXCEPT ![s] = Idle]
    BY <1>12 DEF ReplacementFailed, Deliver, Crash
  <2>2. \E r : Becomes(s, r)
    BY <2>1, Ends
  <2>3. crashes' \in 0..MaxCrashes
    BY <1>12, ProvisioningAssumption DEF ReplacementFailed, Deliver, Crash, Shape
  <2> QED
    BY <1>12, <2>2, <2>3 DEF ReplacementFailed, Deliver, Crash, Shape, OrdersSound
<1> QED
  BY <1>1, <1>2, <1>3, <1>4, <1>5, <1>6, <1>7, <1>8, <1>9, <1>10, <1>11, <1>12 DEF Next, Work

(* Types and sessions. *)
LEMMA ShapeKept ==
    ASSUME Shape, OrdersSound, SessionsSound, LinksRecorded, Next
    PROVE  Shape' /\ OrdersSound' /\ SessionsSound'
<1>1. StepKeeps
  BY StepsKeep
<1>2. ASSUME NEW s \in Sessions, NEW r, Becomes(s, r)
      PROVE  sess' \in [Sessions -> Session] /\ SessionsSound'
  <2>1. sess' = [sess EXCEPT ![s] = r] /\ r \in Session /\ RecordSound(r)
        /\ (OpenSound(r))
    BY <1>2 DEF Becomes, Good
  <2>2. sess' \in [Sessions -> Session]
    BY <2>1 DEF Shape
  <2>3. ASSUME NEW t \in Sessions PROVE RecordSound(sess'[t]) /\ (OpenSound(sess'[t]))
    BY <2>1 DEF Shape, SessionsSound
  <2> QED
    BY <2>2, <2>3 DEF SessionsSound, RecordSound, OpenSound, SourcesSound, OrderKnown
<1>3. sess' \in [Sessions -> Session] /\ SessionsSound'
  BY <1>1, <1>2 DEF StepKeeps, Moves, Shape, SessionsSound
<1> QED
  BY <1>1, <1>3 DEF StepKeeps, Shape

(* An order that has a key keeps having one. *)
LEMMA KeysStay ==
    ASSUME Shape, OrdersSound, SessionsSound, LinksRecorded, Next, NEW o \in Orders,
           orders[o].key # NoAccess
    PROVE  orders'[o].key # NoAccess
<1>1. ASSUME NEW s \in Sessions, Finalize(s) PROVE orders'[o].key # NoAccess
  BY <1>1, FinalizeKeeps
<1>2. ASSUME NEW p \in Orders, NEW status, orders' = [orders EXCEPT ![p].status = status]
      PROVE  orders'[o].key # NoAccess
  BY <1>2 DEF Shape, Row
<1>3. ASSUME NEW s \in Sessions, IssueFailed(s) PROVE orders'[o].key # NoAccess
  <2>1. sess[s].order \in Orders
    BY <1>3, SessionFields DEF IssueFailed, Good, RecordSound, Working, OrderKnown
  <2> QED
    BY <1>2, <1>3, <2>1 DEF IssueFailed
<1>4. ASSUME NEW s \in Sessions, NEW p \in Orders, TakeForIssue(s, p)
      PROVE  orders'[o].key # NoAccess
  BY <1>4 DEF TakeForIssue, Shape, Row
<1> QED
  BY <1>1, <1>2, <1>3, <1>4
  DEF Next, Work, Toggle, Refund, TakeForReplacement, SelectServers, SelectLeastLoaded, Look, Post,
      FetchLinks, ReplacementFailed, Deliver, Crash

(* Until the outcome is written a session stays with its order and what it *)
(* started from, unless it ends.                                           *)
StaysWith(s, r) ==
    /\ r.order = sess[s].order /\ r.mem = sess[s].mem /\ r.replaces = sess[s].replaces
    /\ r.made = sess[s].made /\ r.tag = sess[s].tag /\ r.pc \in Working

LEMMA Continues ==
    ASSUME Shape, NEW s \in Sessions,
           SelectServers(s) \/ SelectLeastLoaded(s) \/ Look(s) \/ Post(s) \/ FetchLinks(s)
    PROVE  /\ sess[s].pc \in Working
           /\ UNCHANGED <<orders, issued, broken>>
           /\ \A t \in Sessions \ {s} : sess'[t] = sess[t]
           /\ \/ sess'[s] = Idle /\ sess[s].mem.server # NoServer
              \/ StaysWith(s, sess'[s])
<1>1. sess \in [Sessions -> Session] /\ sess[s] \in Session
  BY DEF Shape
<1>2. /\ sess[s].pc \in Working /\ UNCHANGED <<orders, issued, broken>>
  BY DEF SelectServers, SelectLeastLoaded, Look, Post, FetchLinks, Working
<1>3. \E r : /\ sess' = [sess EXCEPT ![s] = r]
             /\ \/ r = Idle /\ sess[s].mem.server # NoServer
                \/ StaysWith(s, r)
  <2>1. \A pc \in Working : StaysWith(s, [sess[s] EXCEPT !.pc = pc])
    BY <1>1 DEF StaysWith, Session
  <2>2. \A pc \in Working : \A open : StaysWith(s, [sess[s] EXCEPT !.pc = pc, !.open = open])
    BY <1>1 DEF StaysWith, Session
  <2>3. ASSUME NEW todo, NEW open, Asking(s, todo, open)
        PROVE  \E r : sess' = [sess EXCEPT ![s] = r] /\ StaysWith(s, r)
    <3> DEFINE wanted == IF ModeOf[sess[s].order] = "superkey" THEN todo ELSE {}
    <3>1. StaysWith(s, [sess[s] EXCEPT !.pc = "ask", !.todo = todo, !.open = sess[s].open \/ open,
                                       !.wanted = wanted])
      BY <1>1 DEF StaysWith, Session, Working
    <3> QED
      BY <2>3, <3>1 DEF Asking
  <2>4. \A v, u : StaysWith(s, Got(s, v, u)) /\ StaysWith(s, Lost(s, v))
    BY <1>1 DEF Got, WithSource, Lost, Working, Session, StaysWith
  <2>5. CASE SelectServers(s)
    <3>1. Preferred(s) # NoServer => sess[s].mem.server # NoServer
      BY DEF Preferred
    <3> QED
      BY <2>2, <2>3, <2>5, <3>1 DEF SelectServers, Working
  <2>6. CASE SelectLeastLoaded(s)
    BY <2>1, <2>3, <2>6 DEF SelectLeastLoaded, Working
  <2>7. CASE Look(s)
    <3>1. \A v : StaysWith(s, [sess[s] EXCEPT !.pc = "post", !.at = v])
      BY <1>1 DEF StaysWith, Session, Working
    <3> QED
      BY <2>4, <2>7, <3>1 DEF Look
  <2>8. CASE Post(s)
    BY <2>4, <2>8 DEF Post
  <2>9. CASE FetchLinks(s)
    <3>1. \A pc : [sess EXCEPT ![s].pc = pc] = [sess EXCEPT ![s] = [sess[s] EXCEPT !.pc = pc]]
      OBVIOUS
    <3> QED
      BY <2>1, <2>9, <3>1 DEF FetchLinks, Working
  <2> QED
    BY <2>5, <2>6, <2>7, <2>8, <2>9
<1> QED
  BY <1>1, <1>2, <1>3

(* Links on record. *)
LEMMA LinksKept ==
    ASSUME Shape, OrdersSound, SessionsSound, LinksRecorded, Next
    PROVE  LinksRecorded'
<1>1. ASSUME NEW s \in Sessions, Finalize(s) PROVE LinksRecorded'
  BY <1>1, FinalizeKeeps
<1>2. ASSUME UNCHANGED <<issued, broken>>,
             \A t \in Sessions :
                 \/ sess'[t] = sess[t]
                 \/ /\ sess'[t].made = {}
                    /\ StartsFromKey(sess'[t]) =>
                          /\ sess'[t].order \in Orders
                          /\ orders[sess'[t].order].key # NoAccess
      PROVE  LinksRecorded'
  <2> SUFFICES ASSUME NEW t \in Sessions
               PROVE  /\ StartsFromKey(sess'[t]) => orders'[sess'[t].order].key # NoAccess
                      /\ \A m \in sess'[t].made : m.access.mode = "mtproxy" =>
                            \/ Fingerprint(m.access) \in issued \cup broken
                            \/ sess'[t].open /\ orders'[m.order].key # NoAccess
    BY <1>2 DEF LinksRecorded, StartsFromKey
  <2>1. CASE sess'[t] = sess[t]
    <3>1. StartsFromKey(sess[t]) => sess[t].order \in Orders
      BY DEF StartsFromKey, SessionsSound, RecordSound, OrderKnown
    <3>2. \A m \in sess[t].made : m.order \in Orders
      BY DEF Shape, Session, Message
    <3> QED
      BY <2>1, <3>1, <3>2, KeysStay DEF LinksRecorded
  <2>2. CASE /\ sess'[t].made = {}
             /\ StartsFromKey(sess'[t]) =>
                   sess'[t].order \in Orders /\ orders[sess'[t].order].key # NoAccess
    BY <2>2, KeysStay
  <2> QED
    BY <1>2, <2>1, <2>2
<1>3. ASSUME NEW s \in Sessions, NEW o \in Orders, TakeForIssue(s, o) \/ TakeForReplacement(s, o)
      PROVE  LinksRecorded'
  <2>1. PICK row, tag, replaces :
            /\ Take(s, o, row, tag, replaces) /\ row.server = orders[o].server
            /\ replaces # NoAccess => orders[o].key # NoAccess
    <3>1. [orders[o] EXCEPT !.status = "paid"].server = orders[o].server
      BY DEF Shape, Row
    <3> QED
      BY <1>3, <3>1 DEF TakeForIssue, TakeForReplacement
  <2>2. /\ sess'[s].order = o /\ sess'[s].mem = row /\ sess'[s].replaces = replaces
        /\ sess'[s].made = sess[s].made
        /\ \A t \in Sessions \ {s} : sess'[t] = sess[t]
    BY <2>1 DEF Take, Shape, Session
  <2>3. sess[s].made = {}
    BY <1>3 DEF TakeForIssue, TakeForReplacement, SessionsSound, OpenSound
  <2>4. StartsFromKey(sess'[s]) => orders[o].key # NoAccess
    BY <2>1, <2>2 DEF StartsFromKey, OrdersSound
  <2> QED
    BY <1>2, <1>3, <2>2, <2>3, <2>4 DEF TakeForIssue, TakeForReplacement
<1>4. ASSUME NEW s \in Sessions, UNCHANGED <<issued, broken>>,
             \E r : Becomes(s, r) /\ r.pc \in {"idle", "deliver"} /\ r.made = {}
      PROVE  LinksRecorded'
  <2>1. /\ sess'[s].pc \notin Working /\ sess'[s].made = {}
        /\ \A t \in Sessions \ {s} : sess'[t] = sess[t]
    BY <1>4 DEF Becomes, Shape, Working
  <2> QED
    BY <1>2, <1>4, <2>1 DEF StartsFromKey
<1>5. ASSUME NEW s \in Sessions, ReplacementFailed(s) \/ Deliver(s) \/ Crash(s) PROVE LinksRecorded'
  <2>1. sess' = [sess EXCEPT ![s] = Idle] /\ UNCHANGED <<issued, broken>>
    BY <1>5 DEF ReplacementFailed, Deliver, Crash
  <2> QED
    BY <1>4, <2>1, Ends
<1>6. ASSUME NEW s \in Sessions, IssueFailed(s) PROVE LinksRecorded'
  BY <1>4, <1>6, IssueFailedKeeps
<1>7. ASSUME NEW s \in Sessions,
             SelectServers(s) \/ SelectLeastLoaded(s) \/ Look(s) \/ Post(s) \/ FetchLinks(s)
      PROVE  LinksRecorded'
  <2>1. sess[s].made = {} /\ sess[s].order \in Orders
    BY <1>7, Continues DEF SessionsSound, OpenSound, RecordSound, OrderKnown, Working
  <2>2. StartsFromKey(sess'[s]) => sess'[s].order = sess[s].order /\ StartsFromKey(sess[s])
    BY <1>7, Continues DEF StaysWith, StartsFromKey, Idle, Working
  <2>3. sess'[s].made = {}
    BY <1>7, <2>1, Continues DEF StaysWith, Idle
  <2> QED
    BY <1>2, <1>7, <2>1, <2>2, <2>3, Continues DEF LinksRecorded
<1>8. ASSUME UNCHANGED <<sess, issued, broken>> PROVE LinksRecorded'
  BY <1>2, <1>8
<1> QED
  BY <1>1, <1>3, <1>5, <1>6, <1>7, <1>8 DEF Next, Work, Toggle, Refund

-----------------------------------------------------------------------------
(***************************************************************************)
(* Users and sessions that are about to create one                         *)
(***************************************************************************)

(* Both are finite sets. *)
LEMMA CountsAreFinite ==
    ASSUME Shape, NEW v \in Servers, NEW o, NEW t
    PROVE  /\ IsFiniteSet(UsersOf(v, o, t)) /\ Cardinality(UsersOf(v, o, t)) \in Nat
           /\ IsFiniteSet(Posters(v, o, t)) /\ Cardinality(Posters(v, o, t)) \in Nat
<1>1. UsersOf(v, o, t) \in SUBSET panel[v] /\ IsFiniteSet(panel[v])
  BY DEF UsersOf, Shape
<1>2. Posters(v, o, t) \in SUBSET Sessions /\ IsFiniteSet(Sessions)
  BY FiniteSets DEF Posters
<1> QED
  BY <1>1, <1>2, FS_Subset, FS_CardinalityType

(* Where neither grows, the count holds. *)
LEMMA CountShrinks ==
    ASSUME Shape, Counted, NEW v \in Servers, NEW o \in Orders, NEW t \in Tags,
           UsersOf(v, o, t)' = UsersOf(v, o, t), Posters(v, o, t)' \subseteq Posters(v, o, t)
    PROVE  (Cardinality(UsersOf(v, o, t)) + Cardinality(Posters(v, o, t))
              <= Cardinality(Sessions))'
<1>1. Cardinality(Posters(v, o, t)') <= Cardinality(Posters(v, o, t))
      /\ Cardinality(Posters(v, o, t)') \in Nat
  BY CountsAreFinite, FS_Subset, FS_CardinalityType
<1>2. Cardinality(UsersOf(v, o, t)) + Cardinality(Posters(v, o, t)) <= Cardinality(Sessions)
  BY DEF Counted
<1> QED
  BY <1>1, <1>2, CountsAreFinite, FiniteSets

(* A session that is not about to create a user is no poster. *)
LEMMA NoNewPoster ==
    ASSUME Shape, NEW s \in Sessions, NEW r, Becomes(s, r), NEW v, NEW o, NEW t,
           ~ (r.pc = "post" /\ r.at = v /\ r.order = o /\ r.tag = t)
    PROVE  Posters(v, o, t)' = Posters(v, o, t) \ {s}
<1>1. sess'[s] = r /\ \A q \in Sessions \ {s} : sess'[q] = sess[q]
  BY DEF Becomes, Shape
<1> QED
  BY <1>1 DEF Posters

(* A step that creates nothing, and after which nothing is to be created. *)
LEMMA CountedQuietly ==
    ASSUME Shape, Counted, UNCHANGED panel,
           UNCHANGED sess \/ \E s \in Sessions : \E r : Becomes(s, r) /\ r.pc # "post"
    PROVE  Counted'
<1> SUFFICES ASSUME NEW v \in Servers, NEW o \in Orders, NEW t \in Tags
             PROVE  (Cardinality(UsersOf(v, o, t)) + Cardinality(Posters(v, o, t))
                       <= Cardinality(Sessions))'
  BY DEF Counted
<1>1. UsersOf(v, o, t)' = UsersOf(v, o, t)
  BY DEF UsersOf
<1>2. Posters(v, o, t)' \subseteq Posters(v, o, t)
  <2>1. CASE UNCHANGED sess
    BY <2>1 DEF Posters
  <2>2. ASSUME NEW s \in Sessions, NEW r, Becomes(s, r), r.pc # "post"
        PROVE  Posters(v, o, t)' \subseteq Posters(v, o, t)
    BY <2>2, NoNewPoster
  <2> QED
    BY <2>1, <2>2
<1> QED
  BY <1>1, <1>2, CountShrinks

(* Who looked and found nobody is counted. *)
LEMMA CountedLooking ==
    ASSUME Shape, SessionsSound, Counted, NEW s \in Sessions, Look(s)
    PROVE  Counted'
<1>1. PICK r : /\ Becomes(s, r)
               /\ r.pc = "post" => /\ Found(s, r.at) = {}
                                   /\ r.order = sess[s].order /\ r.tag = sess[s].tag
  BY Looks
<1>2. UNCHANGED panel
  BY DEF Look
<1> SUFFICES ASSUME NEW v \in Servers, NEW o \in Orders, NEW t \in Tags
             PROVE  (Cardinality(UsersOf(v, o, t)) + Cardinality(Posters(v, o, t))
                       <= Cardinality(Sessions))'
  BY DEF Counted
<1>3. UsersOf(v, o, t)' = UsersOf(v, o, t)
  BY <1>2 DEF UsersOf
<1>4. CASE r.pc = "post" /\ r.at = v /\ r.order = o /\ r.tag = t
  <2>1. UsersOf(v, o, t) = {}
    BY <1>1, <1>4 DEF UsersOf, Found, Matches
  <2>2. Posters(v, o, t)' \in SUBSET Sessions
    BY DEF Posters
  <2>3. Cardinality(Posters(v, o, t)') <= Cardinality(Sessions)
        /\ Cardinality(Posters(v, o, t)') \in Nat
    BY <2>2, FiniteSets, FS_Subset, FS_CardinalityType
  <2>4. Cardinality(UsersOf(v, o, t)') = 0
    BY <1>3, <2>1, FS_EmptySet
  <2> QED
    BY <2>3, <2>4, FiniteSets
<1>5. CASE ~ (r.pc = "post" /\ r.at = v /\ r.order = o /\ r.tag = t)
  <2>1. Posters(v, o, t)' \subseteq Posters(v, o, t)
    BY <1>1, <1>5, NoNewPoster
  <2> QED
    BY <1>3, <2>1, CountShrinks
<1> QED
  BY <1>4, <1>5

(* A poster turns into the user it creates. *)
LEMMA CountedPosting ==
    ASSUME Shape, SessionsSound, Counted, NEW s \in Sessions, Post(s)
    PROVE  Counted'
<1>1. PICK r : Becomes(s, r) /\ r.pc # "post"
  BY Posts
<1>2. CASE UNCHANGED panel
  BY <1>1, <1>2, CountedQuietly
<1> DEFINE n == NewUser(s, sess[s].at)
<1>3. CASE panel' = [panel EXCEPT ![sess[s].at] = @ \cup {n}]
  <2>1. sess[s] \in Session /\ sess[s].order \in Orders /\ sess[s].at \in Servers
        /\ sess[s].pc = "post"
    BY SessionFields, Posts DEF Post, Good, RecordSound, Working, OrderKnown
  <2>2. n.order = sess[s].order /\ n.tag = sess[s].tag
    BY <2>1, CreatesUser
  <2> HIDE DEF n
  <2> SUFFICES ASSUME NEW v \in Servers, NEW o \in Orders, NEW t \in Tags
               PROVE  (Cardinality(UsersOf(v, o, t)) + Cardinality(Posters(v, o, t))
                         <= Cardinality(Sessions))'
    BY DEF Counted
  <2>3. Posters(v, o, t)' = Posters(v, o, t) \ {s}
    BY <1>1, NoNewPoster
  <2>4. CASE sess[s].at = v /\ sess[s].order = o /\ sess[s].tag = t
    <3>1. s \in Posters(v, o, t)
      BY <2>1, <2>4 DEF Posters
    <3>2. UsersOf(v, o, t)' = UsersOf(v, o, t) \cup {n}
      BY <1>3, <2>1, <2>2, <2>4 DEF UsersOf, Shape
    <3>3. /\ Cardinality(UsersOf(v, o, t)') <= Cardinality(UsersOf(v, o, t)) + 1
          /\ Cardinality(UsersOf(v, o, t)') \in Nat
      <4>1. IsFiniteSet(UsersOf(v, o, t)) /\ Cardinality(UsersOf(v, o, t)) \in Nat
        BY CountsAreFinite
      <4>2. Cardinality(UsersOf(v, o, t) \cup {n}) =
              IF n \in UsersOf(v, o, t) THEN Cardinality(UsersOf(v, o, t))
              ELSE Cardinality(UsersOf(v, o, t)) + 1
        BY <4>1, FS_AddElement
      <4> QED
        BY <3>2, <4>1, <4>2
    <3>4. Cardinality(Posters(v, o, t)') = Cardinality(Posters(v, o, t)) - 1
      BY <2>3, <3>1, CountsAreFinite, FS_RemoveElement
    <3>5. Cardinality(UsersOf(v, o, t)) + Cardinality(Posters(v, o, t)) <= Cardinality(Sessions)
      BY DEF Counted
    <3> QED
      BY <3>3, <3>4, <3>5, CountsAreFinite, FiniteSets
  <2>5. CASE ~ (sess[s].at = v /\ sess[s].order = o /\ sess[s].tag = t)
    <3>1. UsersOf(v, o, t)' = UsersOf(v, o, t)
      BY <1>3, <2>1, <2>2, <2>5 DEF UsersOf, Shape
    <3> QED
      BY <2>3, <3>1, CountShrinks
  <2> QED
    BY <2>4, <2>5
<1> QED
  BY <1>2, <1>3, Posts

(* No other step matters to the count. *)
LEMMA CountedKept ==
    ASSUME Shape, OrdersSound, SessionsSound, LinksRecorded, Counted, Next
    PROVE  Counted'
<1>1. ASSUME NEW s \in Sessions, NEW o \in Orders, TakeForIssue(s, o) \/ TakeForReplacement(s, o)
      PROVE  Counted'
  <2>1. UNCHANGED panel /\ \E r : Becomes(s, r) /\ r.pc # "post"
    BY <1>1, TakesForIssue, TakesForReplacement
  <2> QED
    BY <2>1, CountedQuietly
<1>2. ASSUME NEW s \in Sessions,
             \/ SelectServers(s) \/ SelectLeastLoaded(s) \/ FetchLinks(s)
             \/ Finalize(s) \/ IssueFailed(s)
      PROVE  Counted'
  <2>1. \E r : Becomes(s, r) /\ r.pc # "post"
    BY <1>2, SelectsServers, SelectsLeastLoaded, FetchesLinks, FinalizeKeeps, IssueFailedKeeps
  <2>2. UNCHANGED panel
    BY <1>2 DEF SelectServers, SelectLeastLoaded, FetchLinks, Finalize, IssueFailed
  <2> QED
    BY <2>1, <2>2, CountedQuietly
<1>3. ASSUME NEW s \in Sessions, ReplacementFailed(s) \/ Deliver(s) \/ Crash(s) PROVE Counted'
  <2>1. sess' = [sess EXCEPT ![s] = Idle] /\ UNCHANGED panel
    BY <1>3 DEF ReplacementFailed, Deliver, Crash
  <2> QED
    BY <2>1, Ends, CountedQuietly
<1>4. ASSUME UNCHANGED <<sess, panel>> PROVE Counted'
  BY <1>4, CountedQuietly
<1> QED
  BY <1>1, <1>2, <1>3, <1>4, CountedLooking, CountedPosting DEF Next, Work, Toggle, Refund

(* The invariant is inductive. *)
LEMMA ProvisioningInductive == ProvisioningInv /\ [Next]_vars => ProvisioningInv'
<1>1. CASE Next
  BY <1>1, ShapeKept, LinksKept, CountedKept DEF ProvisioningInv
<1>2. CASE UNCHANGED vars
  BY <1>2 DEF vars, ProvisioningInv, Shape, OrdersSound, SessionsSound, LinksRecorded, Counted,
              UsersOf, Posters
<1> QED
  BY <1>1, <1>2

(* The invariant of provisioning: rows keep to the servers they were made  *)
(* for, sessions to the sources they gathered, links that handlers made    *)
(* are on record, and users are counted with those about to be created.    *)
THEOREM ProvisioningInvariant == Spec => []ProvisioningInv
BY InitSound, ProvisioningInductive, PTL DEF Spec

(* Types (TypeOK). *)
THEOREM ProvisioningTypeCorrect == Spec => []TypeOK
<1>1. ProvisioningInv => TypeOK
  BY DEF ProvisioningInv, Shape, TypeOK, Row, Session
<1> QED
  BY <1>1, ProvisioningInvariant, PTL

(* However often orders are tried again, after lost answers, stops and     *)
(* rollbacks, a panel holds no more users of a marker than there are       *)
(* sessions (OneUserPerSession).                                           *)
THEOREM UsersStayFew == Spec => []OneUserPerSession
<1>1. ASSUME ProvisioningInv PROVE OneUserPerSession
  <2> SUFFICES ASSUME NEW v \in Servers, NEW o \in Orders, NEW t \in Tags
               PROVE  Cardinality(UsersOf(v, o, t)) <= Cardinality(Sessions)
    BY DEF OneUserPerSession, UsersOf
  <2>1. Cardinality(UsersOf(v, o, t)) + Cardinality(Posters(v, o, t)) <= Cardinality(Sessions)
    BY <1>1 DEF ProvisioningInv, Counted
  <2> QED
    BY <1>1, <2>1, CountsAreFinite, FiniteSets DEF ProvisioningInv
<1> QED
  BY <1>1, ProvisioningInvariant, PTL

(* However sessions overlap and panels fail, the link a buyer of MTProxy   *)
(* is sent is on record, unless the order has an older one on record       *)
(* (FirstLinksRecorded).                                                   *)
THEOREM LinksSentAreRecorded == Spec => []FirstLinksRecorded
<1>1. ProvisioningInv => FirstLinksRecorded
  BY DEF ProvisioningInv, LinksRecorded, FirstLinksRecorded, ToSend
<1> QED
  BY <1>1, ProvisioningInvariant, PTL

(* Who chose a server is served in its country (ServedInCountry).          *)
THEOREM CountriesAreKept == Spec => []ServedInCountry
<1>1. ASSUME ProvisioningInv PROVE ServedInCountry
  <2> SUFFICES ASSUME NEW m \in Outgoing, m.access.mode = "server", NEW u \in m.access.users
               PROVE  CountryOf[u.server] = CountryOf[ChosenServer[m.order]]
    BY DEF ServedInCountry
  <2>1. PICK s \in Sessions : m \in sess[s].made
    BY DEF Outgoing, ToSend
  <2> QED
    BY <1>1, <2>1 DEF ProvisioningInv, SessionsSound, RecordSound, MessageSound
<1> QED
  BY <1>1, ProvisioningInvariant, PTL

(* A superkey that is sent has a source on every server it was to be made  *)
(* of, and at least two (SuperkeyWhole).                                   *)
THEOREM SuperkeysAreWhole == Spec => []SuperkeyWhole
<1>1. ASSUME ProvisioningInv PROVE SuperkeyWhole
  <2> SUFFICES ASSUME NEW m \in Outgoing, m.access.mode = "superkey"
               PROVE  /\ {u.server : u \in m.access.users} = m.wanted
                      /\ Cardinality(m.wanted) >= 2
    BY DEF SuperkeyWhole
  <2>1. PICK s \in Sessions : m \in sess[s].made
    BY DEF Outgoing, ToSend
  <2> QED
    BY <1>1, <2>1 DEF ProvisioningInv, SessionsSound, RecordSound, MessageSound
<1> QED
  BY <1>1, ProvisioningInvariant, PTL

-----------------------------------------------------------------------------
(***************************************************************************)
(* What searches come upon                                                 *)
(***************************************************************************)

(* A user that was created for the order, or that is known as a stray.     *)
OwnOrStray(o, u) == u.order = o \/ u \in strays

(* No key and no source is another order's unnoticed. *)
StraysKnown ==
    /\ \A o \in Orders :
          orders[o].key # NoAccess => \A u \in orders[o].key.users : OwnOrStray(o, u)
    /\ \A s \in Sessions :
          sess[s].pc \in Working =>
              /\ \A u \in sess[s].got : OwnOrStray(sess[s].order, u)
              /\ sess[s].replaces # NoAccess =>
                    \A u \in sess[s].replaces.users : OwnOrStray(sess[s].order, u)

(* Strays are never forgotten. *)
LEMMA StraysGrow == ASSUME Next PROVE strays \subseteq strays'
<1>1. ASSUME NEW s \in Sessions, Look(s) \/ Post(s) PROVE strays \subseteq strays'
  BY <1>1 DEF Look, Post, ComesUpon
<1> QED
  BY <1>1
  DEF Next, Work, Toggle, Refund, TakeForIssue, TakeForReplacement, SelectServers,
      SelectLeastLoaded, FetchLinks, Finalize, IssueFailed, ReplacementFailed, Deliver, Crash

(* All steps but finalizing leave the keys alone.                          *)
LEMMA OtherSteps ==
    ASSUME Shape, SessionsSound, Next, \A s \in Sessions : ~ Finalize(s), NEW o \in Orders
    PROVE  /\ UNCHANGED <<issued, broken>>
           /\ orders'[o].key = orders[o].key
           /\ orders'[o].status \in {orders[o].status, "paid", "paid_but_not_issued", "refunded"}
           /\ orders'[o].status = "paid" =>
                 orders[o].status = "paid" \/ \E s \in Sessions : TakeForIssue(s, o)
<1> DEFINE Fits == /\ orders'[o].key = orders[o].key
                   /\ orders'[o].status \in {orders[o].status, "paid", "paid_but_not_issued", "refunded"}
                   /\ orders'[o].status = "paid" =>
                         orders[o].status = "paid" \/ \E s \in Sessions : TakeForIssue(s, o)
<1>1. UNCHANGED <<issued, broken>>
  BY DEF Next, Work, Toggle, Refund, TakeForIssue, TakeForReplacement, SelectServers,
         SelectLeastLoaded, Look, Post, FetchLinks, IssueFailed, ReplacementFailed, Deliver, Crash
<1>2. ASSUME NEW p \in Orders, NEW status \in {"paid_but_not_issued", "refunded"},
             orders' = [orders EXCEPT ![p].status = status]
      PROVE  Fits
  BY <1>2 DEF Shape, Row
<1>3. ASSUME NEW s \in Sessions, NEW p \in Orders, TakeForIssue(s, p) PROVE Fits
  <2>1. orders' = [orders EXCEPT ![p] = [orders[p] EXCEPT !.status = "paid"]]
    BY <1>3 DEF TakeForIssue
  <2>2. CASE o = p
    BY <1>3, <2>1, <2>2 DEF Shape, Row
  <2>3. CASE o # p
    BY <2>1, <2>3 DEF Shape
  <2> QED
    BY <2>2, <2>3
<1>4. ASSUME NEW s \in Sessions, IssueFailed(s) PROVE Fits
  <2>1. sess[s].order \in Orders
    BY <1>4, SessionFields DEF IssueFailed, Good, RecordSound, Working, OrderKnown
  <2> QED
    BY <1>2, <1>4, <2>1 DEF IssueFailed
<1>5. ASSUME NEW p \in Orders, Refund(p) PROVE Fits
  BY <1>2, <1>5 DEF Refund
<1>6. ASSUME UNCHANGED orders PROVE Fits
  BY <1>6
<1> HIDE DEF Fits
<1>7. Fits
  BY <1>3, <1>4, <1>5, <1>6
  DEF Next, Work, Toggle, TakeForReplacement, SelectServers, SelectLeastLoaded, Look, Post,
      FetchLinks, ReplacementFailed, Deliver, Crash
<1> QED
  BY <1>1, <1>7 DEF Fits

(* The sources a session gathers are its order's, or known as strays. *)
LEMMA GathersKnown ==
    ASSUME Shape, NEW s \in Sessions,
           SelectServers(s) \/ SelectLeastLoaded(s) \/ Look(s) \/ Post(s) \/ FetchLinks(s),
           NEW u \in sess'[s].got
    PROVE  u \in sess[s].got \/ u.order = sess[s].order \/ u \in strays'
<1>1. sess \in [Sessions -> Session] /\ sess[s] \in Session /\ Idle.got = {}
  BY DEF Shape, Idle
<1>2. \A v, w : Got(s, v, w).got = sess[s].got \cup {w} /\ Lost(s, v).got = sess[s].got
  BY <1>1 DEF Got, WithSource, Lost, Session
<1>3. CASE SelectServers(s)
  <2>1. ASSUME NEW todo, Asking(s, todo, TRUE) PROVE sess'[s].got = sess[s].got
    BY <1>1, <2>1 DEF Asking, Session
  <2>2. CASE sess' = [sess EXCEPT ![s] = [sess[s] EXCEPT !.pc = "fail", !.open = TRUE]]
    BY <1>1, <2>2 DEF Session
  <2>3. CASE sess' = [sess EXCEPT ![s] = Idle]
    BY <1>1, <2>3
  <2> QED
    BY <1>3, <2>1, <2>2, <2>3 DEF SelectServers
<1>4. CASE SelectLeastLoaded(s)
  <2>1. ASSUME NEW todo, Asking(s, todo, FALSE) PROVE sess'[s].got = sess[s].got
    BY <1>1, <2>1 DEF Asking, Session
  <2>2. CASE sess' = [sess EXCEPT ![s] = [sess[s] EXCEPT !.pc = "fail"]]
    BY <1>1, <2>2 DEF Session
  <2> QED
    BY <1>4, <2>1, <2>2 DEF SelectLeastLoaded
<1>5. ASSUME NEW v, NEW w, sess' = [sess EXCEPT ![s] = Got(s, v, w)], ComesUpon(s, w)
      PROVE  u \in sess[s].got \/ u.order = sess[s].order \/ u \in strays'
  <2>1. u \in sess[s].got \/ u = w
    BY <1>1, <1>2, <1>5
  <2> QED
    BY <1>5, <2>1 DEF ComesUpon
<1>6. ASSUME NEW v, sess' = [sess EXCEPT ![s] = Lost(s, v)] PROVE u \in sess[s].got
  BY <1>1, <1>2, <1>6
<1>7. CASE Look(s)
  <2>1. ASSUME NEW v, sess' = [sess EXCEPT ![s] = [sess[s] EXCEPT !.pc = "post", !.at = v]]
        PROVE  u \in sess[s].got
    BY <1>1, <2>1 DEF Session
  <2> QED
    BY <1>5, <1>6, <1>7, <2>1 DEF Look
<1>8. CASE Post(s)
  BY <1>5, <1>6, <1>8 DEF Post
<1>9. CASE FetchLinks(s)
  BY <1>1, <1>9 DEF FetchLinks, Session
<1> QED
  BY <1>3, <1>4, <1>7, <1>8, <1>9

(* What is known of the strays stays known. *)
LEMMA StraysStayKnown ==
    ASSUME ProvisioningInv, StraysKnown, Next
    PROVE  StraysKnown'
<1>1. Shape /\ OrdersSound /\ SessionsSound /\ LinksRecorded
  BY DEF ProvisioningInv
<1>2. strays \subseteq strays'
  BY StraysGrow
<1>3. ASSUME NEW o \in Orders, orders'[o].key # NoAccess, NEW u \in orders'[o].key.users
      PROVE  u.order = o \/ u \in strays'
  <2>1. CASE \A s \in Sessions : ~ Finalize(s)
    BY <1>1, <1>2, <1>3, <2>1, OtherSteps DEF StraysKnown, OwnOrStray
  <2>2. ASSUME NEW s \in Sessions, Finalize(s) PROVE u.order = o \/ u \in strays'
    <3>1. /\ sess[s].pc = "finalize" /\ sess[s].order \in Orders /\ Made(s).users = sess[s].got
          /\ UNCHANGED orders \/ orders' = [orders EXCEPT ![sess[s].order] = NewRow(s)]
      BY <1>1, <2>2, Finalizes, Assembled
    <3>2. \A w \in sess[s].got : OwnOrStray(sess[s].order, w)
      BY <3>1 DEF StraysKnown, Working
    <3>3. orders'[o].key = orders[o].key
          \/ (o = sess[s].order /\ orders'[o].key = Made(s))
      BY <1>1, <3>1 DEF Shape, NewRow
    <3> QED
      BY <1>2, <1>3, <3>1, <3>2, <3>3 DEF StraysKnown, OwnOrStray
  <2> QED
    BY <2>1, <2>2
<1> DEFINE Known(t) ==
      sess'[t].pc \in Working =>
          /\ \A u \in sess'[t].got : u.order = sess'[t].order \/ u \in strays'
          /\ sess'[t].replaces # NoAccess =>
                \A u \in sess'[t].replaces.users : u.order = sess'[t].order \/ u \in strays'
<1>4. ASSUME NEW t \in Sessions, sess'[t] = sess[t] PROVE Known(t)
  BY <1>2, <1>4 DEF StraysKnown, OwnOrStray
<1>5. ASSUME NEW s \in Sessions, NEW o \in Orders, TakeForIssue(s, o) \/ TakeForReplacement(s, o)
      PROVE  \A t \in Sessions : Known(t)
  <2>1. PICK row, tag, replaces : /\ Take(s, o, row, tag, replaces)
                                  /\ replaces \in {NoAccess, orders[o].key}
    BY <1>5 DEF TakeForIssue, TakeForReplacement
  <2>2. /\ sess'[s].order = o /\ sess'[s].replaces = replaces /\ sess'[s].got = sess[s].got
        /\ \A t \in Sessions \ {s} : sess'[t] = sess[t]
    BY <1>1, <2>1 DEF Take, Shape, Session
  <2>3. sess[s].got = {}
    BY <1>1, <1>5 DEF TakeForIssue, TakeForReplacement, SessionsSound, RecordSound
  <2>4. Known(s)
    BY <1>2, <2>1, <2>2, <2>3 DEF StraysKnown, OwnOrStray
  <2> QED
    BY <1>4, <2>2, <2>4
<1>6. ASSUME NEW s \in Sessions,
             SelectServers(s) \/ SelectLeastLoaded(s) \/ Look(s) \/ Post(s) \/ FetchLinks(s)
      PROVE  \A t \in Sessions : Known(t)
  <2>1. /\ sess[s].pc \in Working /\ \A t \in Sessions \ {s} : sess'[t] = sess[t]
        /\ sess'[s] = Idle \/ StaysWith(s, sess'[s])
    BY <1>1, <1>6, Continues
  <2>2. CASE sess'[s] = Idle
    BY <1>4, <2>1, <2>2 DEF Idle, Working
  <2>3. CASE StaysWith(s, sess'[s])
    <3>1. \A u \in sess'[s].got :
              u \in sess[s].got \/ u.order = sess[s].order \/ u \in strays'
      BY <1>1, <1>6, GathersKnown
    <3>2. Known(s)
      BY <1>2, <2>1, <2>3, <3>1 DEF StaysWith, StraysKnown, OwnOrStray
    <3> QED
      BY <1>4, <2>1, <3>2
  <2> QED
    BY <2>1, <2>2, <2>3
<1>7. ASSUME NEW s \in Sessions, NEW r, sess' = [sess EXCEPT ![s] = r], r.pc \notin Working
      PROVE  \A t \in Sessions : Known(t)
  BY <1>1, <1>4, <1>7 DEF Shape
<1>8. ASSUME NEW s \in Sessions,
             Finalize(s) \/ IssueFailed(s) \/ ReplacementFailed(s) \/ Deliver(s) \/ Crash(s)
      PROVE  \A t \in Sessions : Known(t)
  <2>1. Idle.pc \notin Working
    BY DEF Idle, Working
  <2>2. \A made : After(s, made).pc \notin Working
    BY DEF After, Idle, Working
  <2> QED
    BY <1>7, <1>8, <2>1, <2>2 DEF Finalize, IssueFailed, ReplacementFailed, Deliver, Crash
<1>9. ASSUME UNCHANGED sess PROVE \A t \in Sessions : Known(t)
  BY <1>4, <1>9
<1> HIDE DEF Known
<1>10. \A t \in Sessions : Known(t)
  BY <1>5, <1>6, <1>8, <1>9 DEF Next, Work, Toggle, Refund
<1> QED
  BY <1>3, <1>10 DEF StraysKnown, OwnOrStray, Known

(* The strays are known in every state. *)
LEMMA StraysInvariant == Spec => []StraysKnown
<1>1. Init => StraysKnown
  BY DEF Init, StraysKnown, Idle, Working
<1>2. ProvisioningInv /\ StraysKnown /\ [Next]_vars => StraysKnown'
  <2>1. CASE UNCHANGED vars
    BY <2>1 DEF vars, StraysKnown, OwnOrStray
  <2> QED
    BY <2>1, StraysStayKnown
<1> QED
  BY <1>1, <1>2, ProvisioningInvariant, PTL DEF Spec

(***************************************************************************)
(* The key an order shows                                                  *)
(***************************************************************************)

(* Two orders have one user in their hands only if it is a stray. *)
LEMMA SharedIsStray ==
    ASSUME NEW o, NEW p, o # p, NEW a, NEW b, KeySound(o, a), KeySound(p, b),
           \A u \in a.users : OwnOrStray(o, u), \A u \in b.users : OwnOrStray(p, u),
           Fingerprint(a) = Fingerprint(b)
    PROVE  \E u \in a.users \cap b.users : u \in strays
<1>1. a.users = b.users /\ a.users # {}
  BY DEF Fingerprint, KeySound
<1> QED
  BY <1>1 DEF OwnOrStray

(* Finalizing breaks the key the session started from and no other.        *)
LEMMA FinalizeKeepsKeys ==
    ASSUME ProvisioningInv, StraysKnown, KeyInForce, NEW s \in Sessions, Finalize(s)
    PROVE  KeyInForce'
<1> DEFINE o == sess[s].order
           fp == Fingerprint(Made(s))
<1>0. Shape /\ OrdersSound /\ SessionsSound
  BY DEF ProvisioningInv
<1>1. sess[s].pc = "finalize" /\ sess[s] \in Session /\ o \in Orders
  BY <1>0, Finalizes, Assembled
<1>2. strays' = strays
  BY DEF Finalize
<1>3. CASE UNCHANGED <<orders, issued>>
  BY <1>2, <1>3 DEF KeyInForce
<1>4. CASE /\ ~ Refused(s, fp)
           /\ orders' = [orders EXCEPT ![o] = NewRow(s)]
           /\ broken' = BrokenBy(s, fp)
           /\ issued' = (issued \cup {fp}) \ broken'
  <2> SUFFICES ASSUME NEW p \in Orders, orders'[p].status = "issued"
               PROVE  \/ Fingerprint(orders'[p].key) \in issued'
                      \/ orders'[p].key.users \cap strays # {}
    BY <1>2 DEF KeyInForce
  <2>1. CASE p = o
    <3>1. orders'[p].key = Made(s)
      BY <1>0, <1>1, <1>4, <2>1 DEF Shape, NewRow
    <3>2. fp \notin broken'
      BY <1>4 DEF BrokenBy, Refused
    <3> QED
      BY <1>4, <3>1, <3>2
  <2>2. CASE p # o
    <3>1. orders'[p] = orders[p]
      BY <1>0, <1>1, <1>4, <2>2 DEF Shape
    <3>2. KeySound(p, orders[p].key) /\ \A u \in orders[p].key.users : OwnOrStray(p, u)
      BY <1>0, <3>1 DEF OrdersSound, StraysKnown
    <3>3. CASE orders[p].key.users \cap strays # {}
      BY <3>1, <3>3
    <3>4. CASE Replacing(s) /\ Fingerprint(sess[s].replaces) = Fingerprint(orders[p].key)
      <4>1. /\ KeySound(o, sess[s].replaces)
            /\ \A u \in sess[s].replaces.users : OwnOrStray(o, u)
        BY <1>0, <1>1, <3>4 DEF SessionsSound, RecordSound, OrderKnown, StraysKnown, Working,
                               Replacing
      <4>2. \E u \in orders[p].key.users \cap sess[s].replaces.users : u \in strays
        BY <2>2, <3>2, <3>4, <4>1, SharedIsStray
      <4> QED
        BY <3>1, <4>2
    <3>5. CASE /\ orders[p].key.users \cap strays = {}
               /\ ~ (Replacing(s) /\ Fingerprint(sess[s].replaces) = Fingerprint(orders[p].key))
      <4>1. Fingerprint(orders[p].key) \in issued \ broken
        BY <1>0, <3>1, <3>5 DEF KeyInForce, Shape
      <4>2. Fingerprint(orders[p].key) \notin broken'
        BY <1>4, <3>5, <4>1 DEF BrokenBy
      <4> QED
        BY <1>4, <3>1, <4>1, <4>2
    <3> QED
      BY <3>3, <3>4, <3>5
  <2> QED
    BY <2>1, <2>2
<1> QED
  BY <1>0, <1>3, <1>4, Finalizes DEF o, fp

(* However issues and replacements overlap, and whatever the numbers of    *)
(* orders: an order shown as issued has a key in force, unless the search  *)
(* for another order came upon the key's user (KeyInForce).                *)
THEOREM IssuedKeysInForce == Spec => []KeyInForce
<1>1. Init => KeyInForce
  BY DEF Init, KeyInForce
<1>2. ASSUME ProvisioningInv, StraysKnown, KeyInForce, [Next]_vars PROVE KeyInForce'
  <2>1. CASE UNCHANGED vars
    BY <1>2, <2>1 DEF vars, KeyInForce
  <2>2. ASSUME NEW s \in Sessions, Finalize(s) PROVE KeyInForce'
    BY <1>2, <2>2, FinalizeKeepsKeys
  <2>3. CASE Next /\ \A s \in Sessions : ~ Finalize(s)
    <3> SUFFICES ASSUME NEW o \in Orders, orders'[o].status = "issued"
                 PROVE  \/ Fingerprint(orders'[o].key) \in issued'
                        \/ orders'[o].key.users \cap strays' # {}
      BY DEF KeyInForce
    <3>1. orders[o].status = "issued" /\ orders'[o].key = orders[o].key /\ issued' = issued
      BY <1>2, <2>3, OtherSteps DEF ProvisioningInv
    <3>2. strays \subseteq strays'
      BY <2>3, StraysGrow
    <3> QED
      BY <1>2, <3>1, <3>2 DEF KeyInForce
  <2> QED
    BY <1>2, <2>1, <2>2, <2>3
<1> QED
  BY <1>1, <1>2, ProvisioningInvariant, StraysInvariant, PTL DEF Spec

(***************************************************************************)
(* Orders in the state paid                                                *)
(***************************************************************************)

(* Somebody works on the order, or one of the exceptions has happened.     *)
InHand(o) == \E s \in Sessions : sess[s].order = o /\ sess[s].pc \in Working
Excepted(o) ==
    \/ crashes > 0
    \/ orders[o].key # NoAccess
    \/ \E u \in strays : Matches(o, 0, u)

PaidKnown ==
    \A o \in Orders :
        ModeOf[o] = "mtproxy" /\ orders[o].status = "paid" => InHand(o) \/ Excepted(o)

(* The exceptions are not taken back. *)
LEMMA ExceptionsStay ==
    ASSUME ProvisioningInv, Next, NEW o \in Orders, Excepted(o) PROVE Excepted(o)'
<1>1. Shape /\ OrdersSound /\ SessionsSound /\ LinksRecorded
  BY DEF ProvisioningInv
<1>2. CASE crashes > 0
  <2>1. crashes' = crashes \/ crashes' = crashes + 1
    BY DEF Next, Work, Toggle, Refund, TakeForIssue, TakeForReplacement, SelectServers,
           SelectLeastLoaded, Look, Post, FetchLinks, Finalize, IssueFailed, ReplacementFailed,
           Deliver, Crash
  <2>2. crashes \in Nat
    BY <1>1, ProvisioningAssumption DEF Shape
  <2> QED
    BY <1>2, <2>1, <2>2 DEF Excepted
<1>3. CASE orders[o].key # NoAccess
  BY <1>1, <1>3, KeysStay DEF Excepted
<1>4. CASE \E u \in strays : Matches(o, 0, u)
  BY <1>4, StraysGrow DEF Excepted, Matches
<1> QED
  BY <1>2, <1>3, <1>4 DEF Excepted

(* A key that is refused is another order's, whose user is a stray, or the *)
(* one that was to be replaced.                                            *)
LEMMA RefusedIsExcepted ==
    ASSUME ProvisioningInv, StraysKnown, NEW s \in Sessions, sess[s].pc = "finalize",
           ModeOf[sess[s].order] = "mtproxy", Refused(s, Fingerprint(Made(s)))
    PROVE  Excepted(sess[s].order)
<1> DEFINE o == sess[s].order
<1>1. Shape /\ OrdersSound /\ SessionsSound /\ LinksRecorded
  BY DEF ProvisioningInv
<1>2. o \in Orders /\ KeySound(o, Made(s)) /\ Made(s).users = sess[s].got
  BY <1>1, Assembled
<1>3. CASE Replacing(s)
  BY <1>1, <1>3 DEF Replacing, LinksRecorded, StartsFromKey, Working, Excepted
<1>4. ASSUME NEW p \in Orders \ {o}, orders[p].key # NoAccess,
             Fingerprint(orders[p].key) = Fingerprint(Made(s))
      PROVE  Excepted(o)
  <2>1. KeySound(p, orders[p].key) /\ \A u \in orders[p].key.users : OwnOrStray(p, u)
    BY <1>1, <1>4 DEF OrdersSound, StraysKnown
  <2>2. \A u \in Made(s).users : OwnOrStray(o, u)
    BY <1>2 DEF StraysKnown, Working
  <2>3. PICK u \in Made(s).users \cap orders[p].key.users : u \in strays
    BY <1>2, <1>4, <2>1, <2>2, SharedIsStray
  <2>4. Matches(o, 0, u)
    BY <1>2, <2>3 DEF KeySound, Given, Matches
  <2> QED
    BY <2>3, <2>4 DEF Excepted
<1> QED
  BY <1>3, <1>4 DEF Refused

(* A session lets go of an order in the state paid only by an exception.   *)
LEMMA LetsGo ==
    ASSUME ProvisioningInv, StraysKnown, Next, NEW s \in Sessions, sess[s].pc \in Working,
           NEW o \in Orders, sess[s].order = o, ModeOf[o] = "mtproxy", orders'[o].status = "paid"
    PROVE  \/ sess'[s].order = o /\ sess'[s].pc \in Working
           \/ Excepted(o)
           \/ Excepted(o)'
<1> DEFINE Held == sess'[s].order = o /\ sess'[s].pc \in Working
           Goal == Held \/ Excepted(o) \/ Excepted(o)'
<1>1. Shape /\ OrdersSound /\ SessionsSound /\ LinksRecorded
  BY DEF ProvisioningInv
<1>2. sess[s].mem.server # NoServer \/ sess[s].replaces # NoAccess => Excepted(o)
  BY <1>1 DEF LinksRecorded, StartsFromKey, Excepted
<1>3. ASSUME sess'[s] = sess[s] PROVE Goal
  BY <1>3
<1>4. ASSUME SelectServers(s) \/ SelectLeastLoaded(s) \/ Look(s) \/ Post(s) \/ FetchLinks(s)
      PROVE  Goal
  BY <1>1, <1>2, <1>4, Continues DEF StaysWith
<1>5. ASSUME Finalize(s) PROVE Goal
  <2>1. sess[s].pc = "finalize"
    BY <1>5 DEF Finalize
  <2>2. CASE Refused(s, Fingerprint(Made(s)))
    BY <2>1, <2>2, RefusedIsExcepted
  <2>3. CASE sess[s].open
    BY <1>1, <1>2, <2>1, <2>3, Assembled
  <2>4. CASE ~ Refused(s, Fingerprint(Made(s))) /\ ~ sess[s].open
    <3>1. orders'[o].key = Made(s)
      BY <1>1, <1>5, <2>4 DEF Finalize, Shape
    <3>2. Made(s) # NoAccess
      BY <1>1, <2>1, Assembled, NoAccessAssumption DEF AccessType
    <3> QED
      BY <3>1, <3>2 DEF Excepted
  <2> QED
    BY <2>2, <2>3, <2>4
<1>6. ASSUME IssueFailed(s) PROVE Goal
  <2>1. CASE sess[s].open
    BY <1>1, <1>2, <2>1 DEF SessionsSound, OpenSound
  <2>2. CASE ~ sess[s].open
    BY <1>1, <1>6, <2>2 DEF IssueFailed, Shape, Row
  <2> QED
    BY <2>1, <2>2
<1>7. ASSUME ReplacementFailed(s) PROVE Goal
  BY <1>2, <1>7 DEF ReplacementFailed, Replacing
<1>8. ASSUME Deliver(s) PROVE Goal
  BY <1>8 DEF Deliver, Working
<1>9. ASSUME Crash(s) PROVE Goal
  <2>1. crashes' = crashes + 1 /\ crashes \in Nat
    BY <1>1, <1>9, ProvisioningAssumption DEF Crash, Shape
  <2> QED
    BY <2>1 DEF Excepted
<1>10. ASSUME NEW t \in Sessions, NEW p \in Orders, TakeForIssue(t, p) \/ TakeForReplacement(t, p)
       PROVE  Goal
  <2>1. t # s
    BY <1>10 DEF TakeForIssue, TakeForReplacement, Working
  <2> QED
    BY <1>1, <1>3, <1>10, <2>1 DEF TakeForIssue, TakeForReplacement, Take, Shape
<1>11. ASSUME NEW t \in Sessions \ {s}, Work(t) \/ Crash(t) PROVE Goal
  <2>1. \A r : sess' = [sess EXCEPT ![t] = r] => sess'[s] = sess[s]
    BY <1>1 DEF Shape
  <2>2. CASE SelectServers(t) \/ SelectLeastLoaded(t) \/ Look(t) \/ Post(t) \/ FetchLinks(t)
    BY <1>1, <1>3, <2>2, Continues
  <2> QED
    BY <1>3, <1>11, <2>1, <2>2 DEF Work, Finalize, IssueFailed, ReplacementFailed, Deliver, Crash
<1> HIDE DEF Goal
<1>12. Goal
  BY <1>3, <1>4, <1>5, <1>6, <1>7, <1>8, <1>9, <1>10, <1>11 DEF Next, Work, Toggle, Refund
<1> QED
  BY <1>12 DEF Goal

(* Every step keeps it. *)
LEMMA PaidStaysKnown ==
    ASSUME ProvisioningInv, StraysKnown, PaidKnown, Next, NEW o \in Orders,
           ModeOf[o] = "mtproxy", orders'[o].status = "paid"
    PROVE  InHand(o)' \/ Excepted(o)'
<1>1. Shape /\ OrdersSound /\ SessionsSound /\ LinksRecorded
  BY DEF ProvisioningInv
<1>2. ASSUME NEW s \in Sessions, TakeForIssue(s, o) PROVE InHand(o)'
  <2>1. sess'[s].order = o /\ sess'[s].pc = "select"
    BY <1>1, <1>2 DEF TakeForIssue, Take, Shape, Session
  <2> QED
    BY <2>1 DEF InHand, Working
<1>3. CASE orders[o].status = "paid"
  <2>1. CASE Excepted(o)
    BY <2>1, ExceptionsStay
  <2>2. ASSUME NEW s \in Sessions, sess[s].order = o, sess[s].pc \in Working
        PROVE  InHand(o)' \/ Excepted(o)'
    <3>1. \/ sess'[s].order = o /\ sess'[s].pc \in Working
          \/ Excepted(o) \/ Excepted(o)'
      BY <2>2, LetsGo
    <3> QED
      BY <3>1, ExceptionsStay DEF InHand
  <2> QED
    BY <1>3, <2>1, <2>2 DEF PaidKnown, InHand
<1>4. ASSUME NEW s \in Sessions, Finalize(s) PROVE InHand(o)' \/ Excepted(o)'
  <2>1. /\ sess[s].pc = "finalize" /\ sess[s].order \in Orders
        /\ UNCHANGED orders \/ orders' = [orders EXCEPT ![sess[s].order] = NewRow(s)]
    BY <1>1, <1>4, Finalizes, Assembled
  <2>2. CASE o = sess[s].order /\ orders' = [orders EXCEPT ![o] = NewRow(s)]
    <3>1. orders'[o].key = Made(s) /\ Made(s) # NoAccess
      BY <1>1, <2>1, <2>2, Assembled, NoAccessAssumption DEF Shape, NewRow, AccessType
    <3> QED
      BY <3>1 DEF Excepted
  <2>3. CASE UNCHANGED orders \/ o # sess[s].order
    BY <1>1, <1>3, <2>1, <2>3 DEF Shape
  <2> QED
    BY <2>1, <2>2, <2>3
<1>5. CASE \A s \in Sessions : ~ Finalize(s)
  BY <1>1, <1>2, <1>3, <1>5, OtherSteps
<1> QED
  BY <1>4, <1>5

(* However panels fail and issues overlap: nobody but its session looks    *)
(* after a paid order of MTProxy links, and the session lets go of it only *)
(* with the outcome written, but for the exceptions that PaidIsInHand      *)
(* names.                                                                  *)
THEOREM PaidOrdersAreInHand == Spec => []PaidIsInHand
<1>1. Init => PaidKnown
  BY DEF Init, PaidKnown
<1>2. ASSUME ProvisioningInv, StraysKnown, PaidKnown, [Next]_vars PROVE PaidKnown'
  <2>1. CASE UNCHANGED vars
    BY <1>2, <2>1 DEF vars, PaidKnown, InHand, Excepted, Matches
  <2>2. CASE Next
    BY <1>2, <2>2, PaidStaysKnown DEF PaidKnown
  <2> QED
    BY <1>2, <2>1, <2>2
<1>3. PaidKnown => PaidIsInHand
  BY DEF PaidKnown, PaidIsInHand, InHand, Excepted
<1> QED
  BY <1>1, <1>2, <1>3, ProvisioningInvariant, StraysInvariant, PTL DEF Spec

(* What is behind the rolled back issues: no order of a server and no      *)
(* superkey is ever committed as issued.                                   *)
ServersNeverIssued ==
    \A o \in Orders : ModeOf[o] # "mtproxy" => orders[o].status # "issued"

(* Whatever operators do, an order on a chosen server or for  *)
(* a superkey does not come to be issued in the database: the session that *)
(* provisions it read the servers outside of a block.                      *)
THEOREM ServerIssuesAreLost == Spec => []ServersNeverIssued
<1>1. ProvisioningInv => ServersNeverIssued
  BY DEF ProvisioningInv, OrdersSound, KeySound, ServersNeverIssued
<1> QED
  BY <1>1, ProvisioningInvariant, PTL
=============================================================================
