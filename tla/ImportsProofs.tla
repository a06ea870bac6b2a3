---------------------------- MODULE ImportsProofs ----------------------------
(* Proofs about Imports, for every value of its constants: any number of   *)
(* chats and handlers, any files and panels, stops at any point.           *)
EXTENDS Imports, TLAPS

(***************************************************************************)
(* The inductive invariant                                                 *)
(***************************************************************************)

(* An address as it is stored. *)
Bared(x) == x \in Servers /\ Bare[x[1]] = x[1] /\ Bare[x[2]] = x[2]

(* The next question of a dialogue comes after the answers it needs. *)
Prepared(c) ==
    /\ \A i \in 1..5 : c.state \in {Fields[j] : j \in (i + 1)..6} => Fields[i] \in DOMAIN c.data
    /\ c.state = "keys_confirmation" => Content("keys") \in DOMAIN c.data
    /\ c.state = "servers_confirmation" => Content("servers") \in DOMAIN c.data

(* What a chat remembers of an address is as it will be stored. *)
ChatSound(c) ==
    /\ DOMAIN c = {"state", "data"}
    /\ c.state \in States
    /\ Prepared(c)
    /\ "base_url" \in DOMAIN c.data =>
          c.data["base_url"] \in Bases /\ Bare[c.data["base_url"]] = c.data["base_url"]
    /\ "admin_proxy_path" \in DOMAIN c.data =>
          c.data["admin_proxy_path"] \in Paths
          /\ Bare[c.data["admin_proxy_path"]] = c.data["admin_proxy_path"]

(* A single registration has one address, asks before it writes, and holds *)
(* nothing that is not in the table; nothing else writes outside of an     *)
(* open session.                                                           *)
RunSound(r, stored) ==
    /\ DOMAIN r = {"pc", "chat", "kind", "file", "todo", "made"}
    /\ r.kind \in {"none", "one", "keys", "servers"}
    /\ r.pc \in {"ask", "save"} => r.kind \in {"one", "servers"}
    /\ r.pc = "insert" => r.kind = "keys"
    /\ r.pc = "saved" => r.kind = "one" /\ r.made \subseteq stored
    /\ r.pc = "preview" => r.kind \in {"keys", "servers"}
    /\ r.pc \in {"ask", "save"} /\ r.kind = "one" =>
          r.made = {} /\ \E x \in Servers : Bared(x) /\ r.todo = <<x>>
    /\ r.pc = "save" => Answers(Head(r.todo))

Chats == DOMAIN fsm = Operators /\ \A a \in Operators : ChatSound(fsm[a])
Runs == DOMAIN run = Handlers /\ \A h \in Handlers : RunSound(run[h], servers)
Stored == \A x \in servers : Bared(x) /\ Answers(x)

ImportsInv == Chats /\ Runs /\ Stored /\ connected \subseteq servers /\ keys \subseteq Fingerprints

-----------------------------------------------------------------------------
(* What the first five answers, and the sixth, are asked for. *)
LEMMA FieldsAre ==
    /\ Asking = {"server_name", "country_name", "base_url", "admin_proxy_path",
                 "client_proxy_path", "api_key"}
    /\ Fields[1] = "server_name" /\ Fields[2] = "country_name" /\ Fields[3] = "base_url"
    /\ Fields[4] = "admin_proxy_path" /\ Fields[5] = "client_proxy_path"
    /\ Fields[6] = "api_key"
<1>1. /\ Fields[1] = "server_name" /\ Fields[2] = "country_name" /\ Fields[3] = "base_url"
      /\ Fields[4] = "admin_proxy_path" /\ Fields[5] = "client_proxy_path"
      /\ Fields[6] = "api_key" /\ DOMAIN Fields = 1..6
  BY DEF Fields
<1>2. Asking = {Fields[i] : i \in 1..6}
  BY <1>1, Zenon DEF Asking, Range
<1>3. 1..6 = {1, 2, 3, 4, 5, 6}
  OBVIOUS
<1> QED
  BY <1>1, <1>2, <1>3

(* A chat that is cleared, asked or begins a dialogue. *)
LEMMA ClearedChat ==
    ASSUME NEW c, NEW next \in {"none", "server_name", "servers_document"}
    PROVE  ChatSound([state |-> next, data |-> Nothing])
<1>1. DOMAIN Nothing = {}
  BY DEF Nothing
<1>2. Prepared([state |-> next, data |-> Nothing])
  <2>1. \A i \in 1..5 : next \notin {Fields[j] : j \in (i + 1)..6}
    <3> SUFFICES ASSUME NEW i \in 1..5, NEW j \in (i + 1)..6
                 PROVE  next # Fields[j]
      OBVIOUS
    <3>1. j \in {2, 3, 4, 5, 6}
      OBVIOUS
    <3> QED
      BY <3>1, FieldsAre
  <2> QED
    BY <2>1 DEF Prepared
<1> QED
  BY <1>1, <1>2, FieldsAre DEF ChatSound, States

(* The invariant holds as the program starts. *)
LEMMA ImportsInit == Init => ImportsInv
<1> SUFFICES ASSUME Init PROVE ImportsInv
  OBVIOUS
<1> USE DEF Init
<1>1. Chats
  BY ClearedChat DEF Chats
<1>2. Runs
  BY DEF Runs, RunSound, Idle
<1>3. Stored
  <2> SUFFICES ASSUME NEW x \in InitialServers PROVE Bared(x) /\ Answers(x)
    BY DEF Stored
  <2>1. PICK y \in Reachable : x = <<Bare[y[1]], Bare[y[2]]>>
    BY ImportsAssumption
  <2>2. x \in Reachable /\ x \in Servers /\ y \in Servers
    BY ImportsAssumption
  <2>3. y[1] \in Bases /\ y[2] \in Paths /\ x[1] = Bare[y[1]] /\ x[2] = Bare[y[2]]
    BY <2>1, <2>2 DEF Servers
  <2>4. Bare[x[1]] = x[1] /\ Bare[x[2]] = x[2]
    BY <2>3, ImportsAssumption
  <2> QED
    BY <2>1, <2>2, <2>3, <2>4 DEF Bared, Answers
<1> QED
  BY <1>1, <1>2, <1>3, ImportsAssumption DEF ImportsInv

-----------------------------------------------------------------------------
(* The chats stay sound, whatever arrives in which order. *)
LEMMA ChatsNext ==
    ASSUME ImportsInv, Next
    PROVE  Chats'
<1> USE DEF ImportsInv, Chats
<1>1. ASSUME NEW a \in Operators, KeysDialogue(a) PROVE Chats'
  <2>1. ChatSound([fsm[a] EXCEPT !.state = "keys_document"])
    <3>1. \A j \in 1..6 : "keys_document" # Fields[j]
      <4> SUFFICES ASSUME NEW j \in 1..6 PROVE "keys_document" # Fields[j]
        OBVIOUS
      <4>1. j \in {1, 2, 3, 4, 5, 6}
        OBVIOUS
      <4> QED
        BY <4>1, FieldsAre
    <3> QED
      BY <3>1 DEF ChatSound, Prepared, States
  <2> QED
    BY <1>1, <2>1 DEF KeysDialogue
<1>2. ASSUME NEW a \in Operators, NEW next \in States, ServersDialogue(a, next) PROVE Chats'
  <2>1. [Cleared(fsm[a]) EXCEPT !.state = next] = [state |-> next, data |-> Nothing]
    BY DEF Cleared
  <2> QED
    BY <1>2, <2>1, ClearedChat DEF ServersDialogue
<1>3. ASSUME NEW a \in Operators, Leave(a) PROVE Chats'
  BY <1>3, ClearedChat DEF Leave, Cleared
<1>4. ASSUME NEW a \in Operators, NEW i \in 1..5, NEW text \in Bases \cup Paths \cup {Blank},
             Answer(a, i, text)
      PROVE  Chats'
  <2> DEFINE data == Updated(fsm[a].data, Fields[i], Normal(text))
             c == [state |-> Fields[i + 1], data |-> data]
  <2>1. fsm' = [fsm EXCEPT ![a] = c]
    BY <1>4 DEF Answer
  <2>2. ChatSound(fsm[a]) /\ fsm[a].state = Fields[i]
    BY <1>4 DEF Answer
  <2>3. /\ DOMAIN data = DOMAIN fsm[a].data \cup {Fields[i]}
        /\ data[Fields[i]] = Normal(text)
        /\ \A m \in DOMAIN fsm[a].data : m # Fields[i] => data[m] = fsm[a].data[m]
    BY DEF Updated
  <2>4. i \in {1, 2, 3, 4, 5}
    OBVIOUS
  <2>5. Fields[i] = "base_url" => Normal(text) \in Bases /\ Bare[Normal(text)] = Normal(text)
    BY <1>4, <2>4, FieldsAre, ImportsAssumption DEF Answer, Normal
  <2>6. Fields[i] = "admin_proxy_path" => Normal(text) \in Paths /\ Bare[Normal(text)] = Normal(text)
    BY <1>4, <2>4, FieldsAre, ImportsAssumption DEF Answer, Normal
  <2>7. Prepared(c)
    <3> HIDE DEF data
    <3>1. ASSUME NEW k \in 1..5, NEW j \in (k + 1)..6, Fields[i + 1] = Fields[j]
          PROVE  Fields[k] \in DOMAIN data
      <4>1. k \in {1, 2, 3, 4, 5} /\ j \in {2, 3, 4, 5, 6}
        OBVIOUS
      <4>2. j = i + 1
        BY <2>4, <3>1, <4>1, FieldsAre
      <4>3. k = i \/ (k < i /\ i \in (k + 1)..6)
        BY <4>2
      <4>4. k = i \/ Fields[k] \in DOMAIN fsm[a].data
        BY <2>2, <4>3 DEF ChatSound, Prepared
      <4> QED
        BY <4>4, <2>3
    <3>2. Fields[i + 1] \notin {"keys_confirmation", "servers_confirmation"}
      BY <2>4, FieldsAre
    <3> QED
      BY <3>1, <3>2 DEF Prepared
  <2>8. c.state \in States
    BY <2>4, FieldsAre DEF States
  <2>9. ChatSound(c)
    <3> HIDE DEF data
    <3> QED
      BY <2>2, <2>3, <2>5, <2>6, <2>7, <2>8 DEF ChatSound
  <2> QED
    BY <2>1, <2>9
<1>5. ASSUME NEW h \in Handlers, NEW readable \in BOOLEAN, Preview(h, readable) PROVE Chats'
  <2>1. CASE ~ readable
    BY <1>5, <2>1 DEF Preview
  <2>2. CASE readable
    <3> DEFINE a == run[h].chat
               n == Content(run[h].kind)
               data == Updated(fsm[a].data, n, run[h].file)
               c == [state |-> IF run[h].kind = "keys" THEN "keys_confirmation"
                               ELSE "servers_confirmation", data |-> data]
    <3>1. fsm' = [fsm EXCEPT ![a] = c]
      BY <1>5, <2>2 DEF Preview
    <3>2. ASSUME a \in Operators PROVE ChatSound(c)
      <4>1. ChatSound(fsm[a]) /\ run[h].kind \in {"keys", "servers"}
        BY <1>5, <3>2 DEF Preview, Runs, RunSound
      <4>2. n \in {"import_content", "hiddify_import_content"}
        BY DEF Content
      <4>3. /\ DOMAIN data = DOMAIN fsm[a].data \cup {n}
            /\ \A m \in DOMAIN fsm[a].data : m # n => data[m] = fsm[a].data[m]
        BY DEF Updated
      <4>4. Prepared(c)
        <5> HIDE DEF data
        <5>1. \A j \in 1..6 : c.state # Fields[j]
          <6> SUFFICES ASSUME NEW j \in 1..6 PROVE c.state # Fields[j]
            OBVIOUS
          <6>1. j \in {1, 2, 3, 4, 5, 6}
            OBVIOUS
          <6> QED
            BY <6>1, FieldsAre
        <5> QED
          BY <4>1, <4>3, <5>1 DEF Prepared, Content
      <4> HIDE DEF data, n
      <4> QED
        BY <4>1, <4>2, <4>3, <4>4 DEF ChatSound, States
    <3> HIDE DEF c
    <3> QED
      BY <3>1, <3>2
  <2> QED
    BY <2>1, <2>2
<1>6. ASSUME NEW h \in Handlers, Told(h) \/ Complete(h) PROVE Chats'
  BY <1>6, ClearedChat DEF Told, Complete, Cleared
<1>7. ASSUME Crash PROVE Chats'
  BY <1>7, ClearedChat DEF Crash
<1>8. ASSUME fsm' = fsm PROVE Chats'
  BY <1>8
<1> QED
  BY <1>1, <1>2, <1>3, <1>4, <1>5, <1>6, <1>7, <1>8
  DEF Next, Register, ConfirmKeys, ConfirmServers, KeyDocument, ServerDocument, Fetch, Ask,
      Save, Insert

(* Handlers stay sound when only one of them changes, or none. *)
LEMMA OneRuns ==
    ASSUME ImportsInv, NEW h \in Handlers, NEW r, run' = [run EXCEPT ![h] = r],
           servers \subseteq servers', RunSound(r, servers')
    PROVE  Runs'
BY DEF ImportsInv, Runs, RunSound

(* An idle handler. *)
LEMMA IdleSound == \A stored : RunSound(Idle, stored)
BY DEF RunSound, Idle

(* A row that has failed is left out. *)
LEMMA WithoutSound ==
    ASSUME NEW r, NEW stored, RunSound(r, stored), r.pc \in {"ask", "save"}
    PROVE  RunSound(Without(r), stored)
BY DEF RunSound, Without

(* The handlers stay sound, and so does what is in the tables. *)
LEMMA RunsNext ==
    ASSUME ImportsInv, Next
    PROVE  Runs' /\ Stored' /\ connected' \subseteq servers' /\ keys' = keys
<1> USE DEF ImportsInv
<1> DEFINE Tables == servers' = servers /\ connected' = connected /\ keys' = keys
<1>1. ASSUME Tables PROVE Stored' /\ connected' \subseteq servers' /\ keys' = keys
  BY <1>1 DEF Stored, Bared, Answers
<1>2. ASSUME NEW a \in Operators, NEW h \in Handlers, Register(a, h) PROVE Runs' /\ Tables
  <2> DEFINE x == <<fsm[a].data["base_url"], fsm[a].data["admin_proxy_path"]>>
             r == [Idle EXCEPT !.pc = "ask", !.chat = a, !.kind = "one", !.todo = <<x>>]
  <2>1. run' = [run EXCEPT ![h] = r] /\ Tables
    BY <1>2 DEF Register
  <2>2. Bared(x)
    BY <1>2 DEF Register, Chats, ChatSound, Bared, Servers
  <2>3. RunSound(r, servers)
    <3> HIDE DEF x
    <3> QED
      BY <2>2 DEF RunSound, Idle, Bared
  <2> HIDE DEF r
  <2> QED
    BY <2>1, <2>3, OneRuns
<1>3. ASSUME NEW a \in Operators, NEW h \in Handlers, NEW kind \in {"keys", "servers"}, NEW file,
             Fetch(a, h, kind, file)
      PROVE  Runs' /\ Tables
  <2> DEFINE r == [Idle EXCEPT !.pc = "preview", !.chat = a, !.kind = kind, !.file = file]
  <2>1. RunSound(r, servers)
    BY DEF RunSound, Idle
  <2>2. run' = [run EXCEPT ![h] = r] /\ Tables
    BY <1>3 DEF Fetch
  <2> HIDE DEF r
  <2> QED
    BY <2>1, <2>2, OneRuns
<1>4. ASSUME NEW a \in Operators, NEW h \in Handlers, ConfirmKeys(a, h) \/ ConfirmServers(a, h)
      PROVE  Runs' /\ Tables
  <2>1. PICK kind, todo :
          /\ kind \in {"keys", "servers"}
          /\ run' = [run EXCEPT ![h] = Importing(a, kind, IF kind = "keys" THEN "insert" ELSE "ask",
                                                 todo)]
    BY <1>4 DEF ConfirmKeys, ConfirmServers
  <2>2. RunSound(Importing(a, kind, IF kind = "keys" THEN "insert" ELSE "ask", todo), servers)
    BY <2>1 DEF RunSound, Importing, Idle
  <2>3. Tables
    BY <1>4 DEF ConfirmKeys, ConfirmServers
  <2> QED
    BY <2>1, <2>2, <2>3, OneRuns
<1>5. ASSUME NEW h \in Handlers, Ask(h) PROVE Runs' /\ Tables
  <2>1. RunSound(run[h], servers) /\ run[h].pc = "ask" /\ Tables
    BY <1>5 DEF Ask, Runs
  <2>2. CASE run' = [run EXCEPT ![h] = Without(@)]
    BY <2>1, <2>2, WithoutSound, OneRuns
  <2>3. CASE Answers(Head(run[h].todo)) /\ run' = [run EXCEPT ![h].pc = "save"]
    <3>1. RunSound([run[h] EXCEPT !.pc = "save"], servers)
      BY <2>1, <2>3 DEF RunSound
    <3> QED
      BY <2>1, <2>3, <3>1, OneRuns
  <2> QED
    BY <1>5, <2>2, <2>3 DEF Ask
<1>6. ASSUME NEW h \in Handlers, Save(h)
      PROVE  Runs' /\ Stored' /\ connected' \subseteq servers' /\ keys' = keys
  <2> DEFINE x == Head(run[h].todo)
             r == With(run[h], x)
  <2>1. RunSound(run[h], servers) /\ run[h].pc = "save" /\ connected' = connected /\ keys' = keys
    BY <1>6 DEF Save, Runs
  <2>2. CASE run' = [run EXCEPT ![h] = Without(@)] /\ servers' = servers
    BY <1>1, <2>1, <2>2, WithoutSound, OneRuns
  <2>3. CASE /\ run' = [run EXCEPT ![h] = r]
             /\ servers' = IF Open(h) THEN servers ELSE servers \cup {x}
    <3>1. CASE run[h].kind = "one"
      <4>1. Bared(x) /\ Answers(x) /\ run[h].made = {}
        BY <2>1, <3>1 DEF RunSound
      <4>2. servers' = servers \cup {x}
        BY <2>3, <3>1 DEF Open
      <4> HIDE DEF x
      <4>3. RunSound(r, servers')
        BY <2>1, <3>1, <4>1, <4>2 DEF RunSound, With
      <4>4. Stored'
        BY <4>1, <4>2 DEF Stored, Bared, Answers
      <4> HIDE DEF r
      <4> QED
        BY <2>1, <2>3, <4>2, <4>3, <4>4, OneRuns
    <3>2. CASE run[h].kind # "one"
      <4>1. run[h].kind = "servers"
        BY <2>1, <3>2 DEF RunSound
      <4>2. servers' = servers
        BY <2>3, <4>1 DEF Open
      <4>3. RunSound(r, servers)
        BY <2>1, <4>1 DEF RunSound, With
      <4> HIDE DEF r
      <4> QED
        BY <1>1, <2>1, <2>3, <4>2, <4>3, OneRuns
    <3> QED
      BY <3>1, <3>2
  <2> QED
    BY <1>6, <2>2, <2>3 DEF Save
<1>7. ASSUME NEW h \in Handlers, Told(h)
      PROVE  Runs' /\ Stored' /\ connected' \subseteq servers' /\ keys' = keys
  <2>1. run' = [run EXCEPT ![h] = Idle] /\ servers' = servers /\ keys' = keys
    BY <1>7 DEF Told
  <2>2. connected' \subseteq servers
    BY <1>7 DEF Told, Runs, RunSound
  <2>3. Stored'
    BY <2>1 DEF Stored, Bared, Answers
  <2> QED
    BY <2>1, <2>2, <2>3, IdleSound, OneRuns
<1>8. ASSUME NEW h \in Handlers, Insert(h) PROVE Runs' /\ Tables
  <2> DEFINE new == Range(run[h].todo)
             r == [run[h] EXCEPT !.pc = "inserted", !.todo = <<>>, !.made = new]
  <2>1. RunSound(run[h], servers) /\ run[h].kind = "keys"
    BY <1>8 DEF Insert, Runs, RunSound
  <2>2. Tables
    BY <1>8, <2>1 DEF Insert, Open
  <2>3. RunSound(r, servers)
    BY <2>1 DEF RunSound
  <2>4. run' = [run EXCEPT ![h] = Idle] \/ run' = [run EXCEPT ![h] = r]
    BY <1>8 DEF Insert
  <2> HIDE DEF r
  <2> QED
    BY <2>2, <2>3, <2>4, IdleSound, OneRuns
<1>9. ASSUME NEW h \in Handlers, Complete(h) \/ \E readable \in BOOLEAN : Preview(h, readable)
      PROVE  Runs' /\ Tables
  <2>1. run' = [run EXCEPT ![h] = Idle] /\ Tables
    BY <1>9 DEF Complete, Preview
  <2> QED
    BY <2>1, IdleSound, OneRuns
<1>10. ASSUME Crash PROVE Runs' /\ Tables
  BY <1>10, IdleSound DEF Crash, Runs
<1>11. ASSUME run' = run, Tables PROVE Runs'
  BY <1>11 DEF Runs, RunSound, Answers
<1>12. ASSUME NEW a \in Operators,
              \/ KeysDialogue(a) \/ Leave(a) \/ \E next \in States : ServersDialogue(a, next)
              \/ \E i \in 1..5, text \in Bases \cup Paths \cup {Blank} : Answer(a, i, text)
       PROVE  Runs' /\ Tables
  BY <1>11, <1>12 DEF KeysDialogue, Leave, ServersDialogue, Answer
<1>13. ASSUME NEW a \in Operators, NEW h \in Handlers,
              \/ \E file \in KeyFiles : KeyDocument(a, h, file)
              \/ \E file \in ServerFiles : ServerDocument(a, h, file)
       PROVE  Runs' /\ Tables
  BY <1>3, <1>13 DEF KeyDocument, ServerDocument
<1> HIDE DEF Tables
<1> QED
  BY <1>1, <1>2, <1>4, <1>5, <1>6, <1>7, <1>8, <1>9, <1>10, <1>12, <1>13 DEF Next

(* The invariant holds in every reachable state: handlers find prepared    *)
(* data in the chat, and a single registration asks before it writes.      *)
THEOREM ImportsInvariant == Spec => []ImportsInv
<1>1. ASSUME ImportsInv, [Next]_vars PROVE ImportsInv'
  <2>1. CASE Next
    BY <1>1, <2>1, ChatsNext, RunsNext DEF ImportsInv
  <2>2. CASE UNCHANGED vars
    BY <1>1, <2>2 DEF vars, ImportsInv, Chats, Runs, Stored, ChatSound, Prepared, RunSound, Bared,
       Answers
  <2> QED
    BY <1>1, <2>1, <2>2
<1> QED
  BY <1>1, ImportsInit, PTL DEF Spec

(* The type invariant: whatever the chat came to while documents were      *)
(* fetched, a state that reads the chat's data finds it there.             *)
THEOREM ImportsTypeCorrect == Spec => []TypeOK
<1>1. ASSUME ImportsInv PROVE TypeOK
  <2>1. ASSUME NEW a \in Operators
        PROVE  /\ fsm[a].state \in States
               /\ CASE fsm[a].state \in Asking ->
                         \A i \in 1..5 : fsm[a].state \in {Fields[j] : j \in (i + 1)..6} =>
                             Fields[i] \in DOMAIN fsm[a].data
                    [] fsm[a].state = "keys_confirmation" -> Content("keys") \in DOMAIN fsm[a].data
                    [] fsm[a].state = "servers_confirmation" ->
                         Content("servers") \in DOMAIN fsm[a].data
                    [] OTHER -> TRUE
    <3>1. fsm[a].state \in States /\ Prepared(fsm[a])
      BY <1>1 DEF ImportsInv, Chats, ChatSound
    <3>2. \A s \in {"keys_confirmation", "servers_confirmation"} : s \notin Asking
      BY FieldsAre
    <3> QED
      BY <3>1, <3>2 DEF Prepared
  <2>2. servers \subseteq Servers
    BY <1>1 DEF ImportsInv, Stored, Bared
  <2> QED
    BY <1>1, <2>1, <2>2 DEF ImportsInv, TypeOK
<1> QED
  BY <1>1, ImportsInvariant, PTL

(* However addresses are spelled and whoever registers them at once, a     *)
(* panel is in the table once (uq_hiddify_servers_base_admin_path).        *)
THEOREM PanelsStoredOnce == Spec => []NoPanelTwice
<1>1. ASSUME ImportsInv PROVE NoPanelTwice
  BY <1>1 DEF ImportsInv, Stored, Bared, Servers, NoPanelTwice
<1> QED
  BY <1>1, ImportsInvariant, PTL

(* A server is in the table only if its panel answered at that address.    *)
THEOREM SavedPanelsAnswered == Spec => []SavedIsReachable
<1>1. ASSUME ImportsInv PROVE SavedIsReachable
  BY <1>1 DEF ImportsInv, Stored, Answers, SavedIsReachable
<1> QED
  BY <1>1, ImportsInvariant, PTL

(* A server the operator was told is connected is in the table.            *)
THEOREM ConnectedStays == Spec => []ConnectedIsThere
<1>1. ASSUME ImportsInv PROVE ConnectedIsThere
  BY <1>1 DEF ImportsInv, ConnectedIsThere
<1> QED
  BY <1>1, ImportsInvariant, PTL

(* Only a row that is saved outside of an open session reaches the table.  *)
LEMMA OnlySavesStore ==
    ASSUME ImportsInv, [Next]_vars, servers' # servers
    PROVE  \E h \in Handlers : run[h].kind = "one" /\ servers' = servers \cup run'[h].made
<1>1. PICK h \in Handlers : Save(h)
  <2>1. ASSUME NEW a
        PROVE  /\ ~ KeysDialogue(a) /\ ~ Leave(a)
               /\ \A next : ~ ServersDialogue(a, next)
               /\ \A i, text : ~ Answer(a, i, text)
               /\ \A h : ~ Register(a, h) /\ ~ ConfirmKeys(a, h) /\ ~ ConfirmServers(a, h)
               /\ \A h, file : ~ KeyDocument(a, h, file) /\ ~ ServerDocument(a, h, file)
    BY DEF KeysDialogue, Leave, ServersDialogue, Answer, Register, ConfirmKeys, ConfirmServers,
       KeyDocument, ServerDocument, Fetch
  <2>2. ASSUME NEW h
        PROVE  /\ ~ Ask(h) /\ ~ Told(h) /\ ~ Insert(h) /\ ~ Complete(h)
               /\ \A readable : ~ Preview(h, readable)
    BY DEF Ask, Told, Insert, Complete, Preview
  <2>3. ~ Crash /\ ~ UNCHANGED vars
    BY DEF Crash, vars
  <2> QED
    BY <2>1, <2>2, <2>3 DEF Next
<1> DEFINE x == Head(run[h].todo)
<1>2. /\ run[h].pc = "save" /\ ~ Open(h) /\ servers' = servers \cup {x}
      /\ run' = [run EXCEPT ![h] = With(run[h], x)]
  BY <1>1 DEF Save
<1>3. RunSound(run[h], servers) /\ DOMAIN run = Handlers
  BY DEF ImportsInv, Runs
<1>4. run[h].kind = "one" /\ run[h].made = {}
  BY <1>2, <1>3 DEF RunSound, Open
<1>5. With(run[h], x).made = {x}
  BY <1>3, <1>4 DEF With, RunSound
<1> HIDE DEF x
<1>6. run'[h].made = {x}
  BY <1>2, <1>3, <1>5
<1> QED
  BY <1>2, <1>4, <1>6

(* Whatever files operators import, in however many handlers, no key and   *)
(* no server of a file ever comes into the tables.                         *)
THEOREM FileImportsAreLost == Spec => ImportsAreLost
<1>1. ImportsInv /\ [Next]_vars =>
        [/\ keys' = keys
         /\ servers' # servers =>
              \E h \in Handlers : run[h].kind = "one" /\ servers' = servers \cup run'[h].made]_vars
  BY RunsNext, OnlySavesStore DEF vars
<1> QED
  BY <1>1, ImportsInvariant, PTL DEF Spec, ImportsAreLost
=============================================================================
