------------------------------- MODULE Imports -------------------------------
(***************************************************************************)
(* The operators' dialogues that fill the tables: keys from a workbook or  *)
(* a SQLite bundle, panels from a workbook or from six answers in a row.   *)
(*                                                                         *)
(* A dialogue is the state and data of the chat in MemoryStorage.  Updates *)
(* of a chat are handled side by side: one that fetches a document,        *)
(* registers or imports waits for Telegram, panels and the database, and   *)
(* the chat goes on meanwhile.  What an import writes stays in its         *)
(* session: it has read the tables before its first transactional block,   *)
(* which is then a savepoint of a transaction nobody commits.              *)
(***************************************************************************)
EXTENDS Integers, Sequences, FiniteSets, SequencesExt, Functions

CONSTANTS
    Operators, Handlers,    \* chats of operators; updates at work at a time
    Plans, Fingerprints,    \* codes in table plans; keys a file may hold
    KeyFiles,               \* [kind, rows]: rows are [plan, key, fits]
    ServerFiles,            \* sequences of [base, path, rest]
    Bases, Paths,           \* base_url and admin_proxy_path as entered:
    Bare,                   \* without the slashes around it
    Reachable,              \* <<base, path>> of the panels that answer
    Blank,                  \* an empty cell
    InitialKeys, InitialServers

Fields == <<"server_name", "country_name", "base_url", "admin_proxy_path",
            "client_proxy_path", "api_key">>

(* States of the chat: of AdminHiddifyState and AdminImportState. *)
Asking == Range(Fields)
States == Asking \cup {"none", "servers_document", "servers_confirmation",
                       "keys_document", "keys_confirmation"}

Servers == Bases \X Paths
Nothing == [x \in {} |-> Blank]

ASSUME ImportsAssumption ==
    /\ IsFiniteSet(Operators) /\ IsFiniteSet(Handlers)
    /\ Blank \notin Plans \cup Fingerprints \cup Bases \cup Paths
    /\ Bare \in [Bases \cup Paths -> Bases \cup Paths]
    /\ \A x \in Bases : Bare[x] \in Bases
    /\ \A x \in Paths : Bare[x] \in Paths
    /\ \A x \in Bases \cup Paths : Bare[Bare[x]] = Bare[x]
    /\ Reachable \subseteq Servers
    /\ InitialServers \subseteq {<<Bare[x[1]], Bare[x[2]]>> : x \in Reachable} \cap Reachable
    /\ InitialKeys \subseteq Fingerprints

VARIABLES
    fsm,       \* of each chat: [state, data]
    run,       \* of each handler: the preview, registration or import it is in
    keys,      \* fingerprints in table vpn_keys
    servers,   \* <<base_url, admin_proxy_path>> in table hiddify_servers
    connected, \* the server an operator was last told is connected
    imported   \* the rows the last report of an import named or counted

vars == <<fsm, run, keys, servers, connected, imported>>

(* todo: the rows still to be written; made: those written, in the session *)
(* if it is open; file: the document whose preview is being made.          *)
Idle == [pc |-> "idle", chat |-> Blank, kind |-> "none", file |-> Blank, todo |-> <<>>,
         made |-> {}]

(* state.update_data(name=value) *)
Updated(data, name, value) ==
    [n \in DOMAIN data \cup {name} |-> IF n = name THEN value ELSE data[n]]

(* Mutant: the data is forgotten and the state is not. *)
ClearedOfData(c) == [c EXCEPT !.data = Nothing]

(* state.clear() *)
Cleared(c) == [state |-> "none", data |-> Nothing]

Init ==
    /\ fsm = [a \in Operators |-> [state |-> "none", data |-> Nothing]]
    /\ run = [h \in Handlers |-> Idle]
    /\ keys = InitialKeys
    /\ servers = InitialServers
    /\ connected = {}
    /\ imported = {}

-----------------------------------------------------------------------------
(* Files                                                                   *)

(* Rows of a workbook with nothing in them are skipped. *)
Rows(file) ==
    IF file.kind = "sqlite" THEN file.rows
    ELSE SelectSeq(file.rows, LAMBDA r : r.plan # Blank \/ r.key # Blank)

(* Neither in another row of the file nor in the table. *)
Once(i, rows) ==
    /\ \A j \in DOMAIN rows : rows[j].key = rows[i].key => j = i
    /\ rows[i].key \notin keys

(* _parse_and_validate of both kinds: the row numbers that have no errors. *)
ValidKeys(file) ==
    LET rows == Rows(file) IN
    {i \in DOMAIN rows :
        /\ rows[i].plan \in Plans
        /\ rows[i].key # Blank /\ Once(i, rows)
        /\ file.kind = "sqlite" => rows[i].fits}

(* Mutant: slashes are kept. *)
NormalAsEntered(x) == x

(* _normalize_base_url and _normalize_path, and the same in                *)
(* register_server.                                                        *)
Normal(x) == IF x = Blank THEN Blank ELSE Bare[x]

Pair(row) == <<Normal(row.base), Normal(row.path)>>

ServerRows(file) == SelectSeq(file, LAMBDA r : r.base # Blank \/ r.path # Blank \/ r.rest)

ValidServers(file) ==
    LET rows == ServerRows(file) IN
    {i \in DOMAIN rows :
        /\ rows[i].rest /\ Blank \notin Range(Pair(rows[i]))
        /\ \A j \in DOMAIN rows : Pair(rows[j]) = Pair(rows[i]) => j = i
        /\ Pair(rows[i]) \notin servers}

-----------------------------------------------------------------------------
(* The chat                                                                *)

(* The buttons that begin a dialogue, whatever the state is.  The one of   *)
(* keys sets the state alone, and what an earlier dialogue kept stays.     *)
KeysDialogue(a) ==
    /\ fsm' = [fsm EXCEPT ![a].state = "keys_document"]
    /\ UNCHANGED <<run, keys, servers, connected, imported>>

ServersDialogue(a, next) ==
    /\ next \in {"server_name", "servers_document"}
    /\ fsm' = [fsm EXCEPT ![a] = [Cleared(@) EXCEPT !.state = next]]
    /\ UNCHANGED <<run, keys, servers, connected, imported>>

(* The buttons that lead back to a menu. *)
Leave(a) ==
    /\ fsm' = [fsm EXCEPT ![a] = Cleared(@)]
    /\ UNCHANGED <<run, keys, servers, connected, imported>>

(* The first five answers. *)
Answer(a, i, text) ==
    /\ i \in 1..5 /\ fsm[a].state = Fields[i]
    /\ text \in CASE Fields[i] = "base_url"         -> Bases
                  [] Fields[i] = "admin_proxy_path" -> Paths
                  [] OTHER                          -> {Blank}
    /\ fsm' = [fsm EXCEPT ![a] = [state |-> Fields[i + 1],
                                  data |-> Updated(@.data, Fields[i], Normal(text))]]
    /\ UNCHANGED <<run, keys, servers, connected, imported>>

(* The API key: the handler reads the data and asks the panel. *)
Register(a, h) ==
    LET data == fsm[a].data IN
    /\ run[h] = Idle
    /\ fsm[a].state = "api_key"
    /\ {"base_url", "admin_proxy_path"} \subseteq DOMAIN data
    /\ run' = [run EXCEPT ![h] =
                 [Idle EXCEPT !.pc = "ask", !.chat = a, !.kind = "one",
                              !.todo = <<<<data["base_url"], data["admin_proxy_path"]>>>>]]
    /\ UNCHANGED <<fsm, keys, servers, connected, imported>>

(* A document is fetched and parsed for its preview. *)
Fetch(a, h, kind, file) ==
    /\ run[h] = Idle
    /\ run' = [run EXCEPT ![h] = [Idle EXCEPT !.pc = "preview", !.chat = a, !.kind = kind,
                                             !.file = file]]
    /\ UNCHANGED <<fsm, keys, servers, connected, imported>>

KeyDocument(a, h, file) == fsm[a].state = "keys_document" /\ Fetch(a, h, "keys", file)

ServerDocument(a, h, file) == fsm[a].state = "servers_document" /\ Fetch(a, h, "servers", file)

(* The preview is answered and the document kept for the confirmation,     *)
(* whatever the chat has come to; a file that cannot be read leaves the    *)
(* chat as it is.                                                          *)
Content(kind) == IF kind = "keys" THEN "import_content" ELSE "hiddify_import_content"

Preview(h, readable) ==
    LET r == run[h] IN
    /\ r.pc = "preview"
    /\ run' = [run EXCEPT ![h] = Idle]
    /\ fsm' = IF ~ readable THEN fsm
              ELSE [fsm EXCEPT ![r.chat] =
                      [state |-> IF r.kind = "keys" THEN "keys_confirmation"
                                 ELSE "servers_confirmation",
                       data |-> Updated(@.data, Content(r.kind), r.file)]]
    /\ UNCHANGED <<keys, servers, connected, imported>>

(* The rows of a file that are valid, in their order. *)
Picked(rows, valid) ==
    [k \in 1..Cardinality(valid) |-> rows[SetToSortSeq(valid, <)[k]]]

Importing(a, kind, pc, todo) ==
    [Idle EXCEPT !.pc = pc, !.chat = a, !.kind = kind, !.todo = todo]

(* import_file parses the file again, against the tables as they are now. *)
ConfirmKeys(a, h) ==
    LET file == fsm[a].data[Content("keys")]
        valid == Picked(Rows(file), ValidKeys(file)) IN
    /\ run[h] = Idle
    /\ fsm[a].state = "keys_confirmation"
    /\ run' = [run EXCEPT ![h] =
                 Importing(a, "keys", "insert", [k \in DOMAIN valid |-> valid[k].key])]
    /\ UNCHANGED <<fsm, keys, servers, connected, imported>>

ConfirmServers(a, h) ==
    LET file == fsm[a].data[Content("servers")]
        valid == Picked(ServerRows(file), ValidServers(file)) IN
    /\ run[h] = Idle
    /\ fsm[a].state = "servers_confirmation"
    /\ run' = [run EXCEPT ![h] =
                 Importing(a, "servers", "ask", [k \in DOMAIN valid |-> Pair(valid[k])])]
    /\ UNCHANGED <<fsm, keys, servers, connected, imported>>

-----------------------------------------------------------------------------
(* Registering and importing                                               *)

(* Mutant: a single registration reads the table first as well. *)
OpenAlways(h) == run[h].kind # "none"

(* The session was in a transaction before the first block. *)
Open(h) == run[h].kind \in {"keys", "servers"}

(* A row that is not committed makes another insertion of it wait. *)
Waits(h, x) == \E g \in Handlers \ {h} : Open(g) /\ x \in run[g].made

(* The first row has failed: an import goes on with the next one. *)
Without(r) ==
    [r EXCEPT !.pc = IF r.kind = "one" THEN "refused" ELSE "ask",
              !.todo = Tail(@)]

(* It is written. *)
With(r, x) ==
    [r EXCEPT !.pc = IF r.kind = "one" THEN "saved" ELSE "ask",
              !.todo = Tail(@), !.made = @ \cup {x}]

(* _check_connection: an address reaches its panel however it is spelled. *)
Answers(x) == <<Bare[x[1]], Bare[x[2]]>> \in Reachable

(* A panel may fail to answer for a while, too. *)
Ask(h) ==
    LET x == Head(run[h].todo) IN
    /\ run[h].pc = "ask" /\ run[h].todo # <<>>
    /\ \/ /\ Answers(x)
          /\ run' = [run EXCEPT ![h].pc = "save"]
       \/ run' = [run EXCEPT ![h] = Without(@)]
    /\ UNCHANGED <<fsm, keys, servers, connected, imported>>

(* hiddify_servers_repo.create: the unique constraint refuses what is in   *)
(* the table, and the database one of two that wait for each other.        *)
Save(h) ==
    LET x == Head(run[h].todo)
        eachOther == \E g \in Handlers : /\ run[g].pc = "save" /\ Open(g) /\ Open(h)
                                         /\ x \in run[g].made
                                         /\ Head(run[g].todo) \in run[h].made IN
    /\ run[h].pc = "save"
    /\ \/ /\ x \in servers \/ x \in run[h].made \/ eachOther
          /\ run' = [run EXCEPT ![h] = Without(@)]
          /\ UNCHANGED servers
       \/ /\ x \notin servers /\ x \notin run[h].made /\ ~ Waits(h, x)
          /\ run' = [run EXCEPT ![h] = With(@, x)]
          /\ servers' = IF Open(h) THEN servers ELSE servers \cup {x}
    /\ UNCHANGED <<fsm, keys, connected, imported>>

(* The answer to a single registration: the chat is cleared, whatever it   *)
(* has come to meanwhile, or the operator may send another API key.        *)
Told(h) ==
    LET r == run[h] IN
    /\ r.pc \in {"saved", "refused"}
    /\ run' = [run EXCEPT ![h] = Idle]
    /\ connected' = IF r.pc = "saved" THEN r.made ELSE connected
    /\ fsm' = IF r.pc = "saved" THEN [fsm EXCEPT ![r.chat] = Cleared(@)] ELSE fsm
    /\ UNCHANGED <<keys, servers, imported>>

(* The keys of a file are written in one flush; if one is refused nothing  *)
(* is, and the operator hears nothing.                                     *)
Insert(h) ==
    LET new == Range(run[h].todo) IN
    /\ run[h].pc = "insert"
    /\ \A x \in new : ~ Waits(h, x)
    /\ run' = [run EXCEPT ![h] =
                 IF new \cap keys # {} \/ Cardinality(new) # Len(@.todo) THEN Idle
                 ELSE [@ EXCEPT !.pc = "inserted", !.todo = <<>>, !.made = new]]
    /\ keys' = IF Open(h) \/ run'[h] = Idle THEN keys ELSE keys \cup new
    /\ UNCHANGED <<fsm, servers, connected, imported>>

(* The operator is told that the import is complete, and the session is    *)
(* closed: what it held is gone.                                           *)
Complete(h) ==
    LET r == run[h] IN
    /\ r.kind \in {"keys", "servers"} /\ r.pc \in {"inserted", "ask"} /\ r.todo = <<>>
    /\ run' = [run EXCEPT ![h] = Idle]
    /\ imported' = r.made
    /\ fsm' = [fsm EXCEPT ![r.chat] = Cleared(@)]
    /\ UNCHANGED <<keys, servers, connected>>

(* MemoryStorage and the sessions are lost. *)
Crash ==
    /\ fsm' = [a \in Operators |-> [state |-> "none", data |-> Nothing]]
    /\ run' = [h \in Handlers |-> Idle]
    /\ UNCHANGED <<keys, servers, connected, imported>>

Next ==
    \/ \E a \in Operators :
         \/ KeysDialogue(a) \/ Leave(a)
         \/ \E next \in States : ServersDialogue(a, next)
         \/ \E i \in 1..5, text \in Bases \cup Paths \cup {Blank} : Answer(a, i, text)
         \/ \E h \in Handlers :
              \/ Register(a, h) \/ ConfirmKeys(a, h) \/ ConfirmServers(a, h)
              \/ \E file \in KeyFiles : KeyDocument(a, h, file)
              \/ \E file \in ServerFiles : ServerDocument(a, h, file)
    \/ \E h \in Handlers :
         \/ Ask(h) \/ Save(h) \/ Told(h) \/ Insert(h) \/ Complete(h)
         \/ \E readable \in BOOLEAN : Preview(h, readable)
    \/ Crash

Spec == Init /\ [][Next]_vars

-----------------------------------------------------------------------------
(* Properties                                                              *)

(* Every variable has its type, and what a chat is asked next has been     *)
(* prepared: the handlers read the data of the chat by these names.        *)
TypeOK ==
    /\ \A a \in Operators :
         /\ fsm[a].state \in States
         /\ CASE fsm[a].state \in Asking ->
                   \A i \in 1..5 : fsm[a].state \in {Fields[j] : j \in (i + 1)..6} =>
                       Fields[i] \in DOMAIN fsm[a].data
              [] fsm[a].state = "keys_confirmation" -> Content("keys") \in DOMAIN fsm[a].data
              [] fsm[a].state = "servers_confirmation" ->
                   Content("servers") \in DOMAIN fsm[a].data
              [] OTHER -> TRUE
    /\ keys \subseteq Fingerprints /\ servers \subseteq Servers
    /\ connected \subseteq Servers

(* However an address is spelled and whoever registers it at the same      *)
(* time, a panel is in the table once (uq_hiddify_servers_base_admin_path, *)
(* register_server).                                                       *)
NoPanelTwice ==
    \A x, y \in servers :
        Bare[x[1]] = Bare[y[1]] /\ Bare[x[2]] = Bare[y[2]] => x = y

(* A server is in the table only if a panel answered under the address     *)
(* that is stored (register_server).                                       *)
SavedIsReachable == \A x \in servers : <<Bare[x[1]], Bare[x[2]]>> \in Reachable

(* An operator who was told that a server is connected finds it in the     *)
(* table, after a crash as well (admin_hiddify_api_key_step).              *)
ConnectedIsThere == connected \subseteq servers

(* No import of a file ever writes to the tables: both read them before    *)
(* their first block, so the session that closes rolls everything back.    *)
(* All that comes into the tables is a server registered by itself.        *)
ImportsAreLost ==
    [][/\ keys' = keys
       /\ servers' # servers =>
            \E h \in Handlers : run[h].kind = "one" /\ servers' = servers \cup run'[h].made]_vars

(* What an import reported as imported is in the table, as                 *)
(* tests/test_import_export.py asserts of the audit log.                   *)
ImportedIsThere == imported \subseteq keys \cup servers
=============================================================================
