---------------------------- MODULE UsageMonitor ----------------------------
(***************************************************************************)
(* HiddifyUsageMonitorService: samples of how full the panels are, and     *)
(* alerts to the operators when every server of a location is.             *)
(*                                                                         *)
(* The background loop samples what is due, an operator's button samples   *)
(* everything now, and both then compare what is stored with the           *)
(* thresholds.  An alert goes out first and is written to audit_logs       *)
(* after that; the row is what keeps the next session quiet for the        *)
(* cooldown.  With a provider of payments that answers succeeded, which    *)
(* those there are do not, reconcile may issue in the same session before, *)
(* and leave it in a transaction (see Provisioning): what follows in the   *)
(* iteration then writes nothing that lasts.                               *)
(***************************************************************************)
EXTENDS Integers, FiniteSets, Sequences, FiniteSetsExt

CONSTANTS
    Servers,       \* ids
    Locations,     \* country_name as an operator may enter it
    LocationOf,    \* country_name of each server
    KeyOf,         \* _country_key: aliases of a location have one key
    Loop,          \* the session of an iteration of the background loop
    Operators,     \* sessions of the operator's button
    Panels,        \* the lists of users a panel may answer with
    NoAnswer,      \* the panel did not answer
    Default,       \* the threshold of each kind of alert; 0 switches it off
    Overrides,     \* entries [name, value] of the thresholds of locations
    Interval, Cooldown, Window,
    LoopIsOpen,    \* reconcile has issued an order of a server or a superkey
    MaxTime, MaxEvents   \* bounds

Kinds == {"percent", "gb"}
Monitors == {Loop} \cup Operators
Times == 0..MaxTime
None == -1
Known == Nat \cup {None}

(* A user of a panel: the flags, where they are there, and the traffic in  *)
(* GB under the names that panels give it.                                 *)
RemoteUser == [enable : BOOLEAN, is_active : BOOLEAN,
               gb : Known, bytes : Known, upload : Known, download : Known]

ASSUME UsageAssumption ==
    /\ Servers \subseteq Nat /\ IsFiniteSet(Servers) /\ IsFiniteSet(Locations)
    /\ Loop \notin Operators
    /\ LocationOf \in [Servers -> Locations]
    /\ Panels \subseteq Seq(RemoteUser) /\ NoAnswer \notin Panels
    /\ Default \in [Kinds -> Nat]
    /\ Overrides \in [Kinds -> Seq([name : Locations, value : Known])]
    /\ Interval \in Nat \ {0} /\ Cooldown \in Nat \ {0} /\ Window \in Nat \ {0}
    /\ LoopIsOpen \in BOOLEAN
    /\ MaxTime \in Nat /\ MaxEvents \in Nat

Snapshot == [id : Nat, server : Servers, at : Times, by : Monitors,
             percent : Known, gb : Known]

(* A row of audit_logs: created_at, and who wrote it in a session begun    *)
(* when.                                                                   *)
AlertRow == [key : {KeyOf[l] : l \in Locations}, kind : Kinds, at : Times,
             by : Monitors, began : Times]

VARIABLES
    now,
    active,     \* hiddify_servers with is_active
    snapshots,  \* table hiddify_server_usage_snapshots
    alerts,     \* audit_logs: the rows of alerts
    lastSent,   \* when the loop last sent an alert of a key and kind, or None
    run,        \* what each session is in the middle of
    events      \* presses of the button, switches of a server, failed answers, crashes

vars == <<now, active, snapshots, alerts, lastSent, run, events>>

(* rows and records are what an open session has written. *)
Idle == [pc |-> "idle", began |-> 0, listed |-> {}, todo |-> {},
         hot |-> {}, sending |-> <<>>, rows |-> {}, records |-> {}]

Init ==
    /\ now = 0
    /\ active \in SUBSET Servers
    /\ snapshots = {}
    /\ alerts = {}
    /\ lastSent = [x \in {KeyOf[l] : l \in Locations} \X Kinds |-> None]
    /\ run = [m \in Monitors |-> Idle]
    /\ events = 0

-----------------------------------------------------------------------------
(* What a panel's answer says                                              *)

CountsAsActive(u) == u.enable /\ u.is_active

(* The traffic of a user: the first name the panel knows. *)
UsageOf(u) ==
    CASE u.gb # None -> u.gb
      [] u.gb = None /\ u.bytes # None -> u.bytes
      [] OTHER -> IF u.upload = None /\ u.download = None THEN None
                  ELSE Max({u.upload, 0}) + Max({u.download, 0})

(* total_current_usage_gb: of the users whose traffic is known. *)
CurrentUsage(users) ==
    LET known == {i \in DOMAIN users : UsageOf(users[i]) # None} IN
    IF known = {} THEN None ELSE MapThenSumSet(LAMBDA i : UsageOf(users[i]), known)

(* A load is what there is of a server: nothing, when the panel failed.    *)
(* The percentage is taken without its decimal.                            *)
LoadOf(users) ==
    IF users = NoAnswer THEN [percent |-> None, gb |-> None]
    ELSE [percent |-> IF users = <<>> THEN 0
                      ELSE (100 * Cardinality({i \in DOMAIN users : CountsAsActive(users[i])}))
                               \div Len(users),
          gb |-> CurrentUsage(users)]

-----------------------------------------------------------------------------
(* What is stored                                                          *)

RowsOf(v, rows) == {r \in rows : r.server = v}

(* The row with the last sampled_at, and of those the one with the highest *)
(* id.                                                                     *)
Latest(v, rows) ==
    CHOOSE r \in RowsOf(v, rows) : \A q \in RowsOf(v, rows) :
        q.at < r.at \/ (q.at = r.at /\ q.id <= r.id)

Due(v, rows, t) == \A r \in RowsOf(v, rows) : r.at <= t - Interval

(* average_total_current_usage_gb of the window; samples that failed do    *)
(* not count.                                                              *)
Average(v, rows, t) ==
    LET known == {r \in RowsOf(v, rows) : r.at >= t - Window /\ r.gb # None} IN
    IF known = {} THEN None
    ELSE MapThenSumSet(LAMBDA r : r.gb, known) \div Cardinality(known)

(* Mutant: an alert looks at any sample there is. *)
ValueOfFirst(kind, v, rows, t) ==
    IF kind = "gb" THEN Average(v, rows, t)
    ELSE IF RowsOf(v, rows) = {} THEN None
    ELSE (CHOOSE r \in RowsOf(v, rows) :
              \A q \in RowsOf(v, rows) : r.percent >= q.percent).percent

(* What a kind of alert looks at. *)
Value(kind, v, rows, t) ==
    IF kind = "gb" THEN Average(v, rows, t)
    ELSE IF RowsOf(v, rows) = {} THEN None ELSE Latest(v, rows).percent

Values(kind, l, servers, rows, t) ==
    [v \in {u \in servers : LocationOf[u] = l} |-> Value(kind, v, rows, t)]

(* Thresholds of locations are entered by any name of the location; an     *)
(* entry that is no number is passed over, and the last one counts.        *)
Parsed(entries) ==
    LET read == {i \in DOMAIN entries : entries[i].value # None}
        of(key) == {i \in read : KeyOf[entries[i].name] = key} IN
    [key \in {KeyOf[entries[i].name] : i \in read} |-> entries[Max(of(key))].value]

Threshold(kind, l) ==
    LET parsed == Parsed(Overrides[kind]) IN
    IF KeyOf[l] \in DOMAIN parsed THEN parsed[KeyOf[l]] ELSE Default[kind]

(* The test before an alert: every server has a value, and none is below   *)
(* the threshold.                                                          *)
AllHot(values, threshold) ==
    /\ threshold > 0 /\ DOMAIN values # {}
    /\ \A v \in DOMAIN values : values[v] # None /\ values[v] >= threshold

HotCount(values, threshold) ==
    IF threshold = 0 THEN 0
    ELSE Cardinality({v \in DOMAIN values : values[v] # None /\ values[v] >= threshold})

(* _capacity_state: what the operators' screen says of a location. *)
CapacityState(values, threshold) ==
    LET unknown == {v \in DOMAIN values : values[v] = None}
        hot == HotCount(values, threshold) IN
    IF threshold = 0 THEN "disabled"
    ELSE IF unknown = DOMAIN values THEN "unknown"
    ELSE IF hot = Cardinality(DOMAIN values) /\ unknown = {} THEN "needs_capacity"
    ELSE IF hot > 0 THEN "watch"
    ELSE IF unknown # {} THEN "unknown" ELSE "ok"

(* HiddifyLocationCapacityStatus of each location that has a server: the   *)
(* state of each kind, and whether one of them asks for a server.          *)
Statuses(servers, rows, t) ==
    [l \in {LocationOf[v] : v \in servers} |->
        LET state == [kind \in Kinds |->
                         CapacityState(Values(kind, l, servers, rows, t), Threshold(kind, l))] IN
        [state |-> state,
         capacity_needed |-> \E kind \in Kinds : state[kind] = "needs_capacity"]]

-----------------------------------------------------------------------------
(* A session                                                               *)

(* Mutant: what an operator's session writes is not committed either. *)
OpenAlways(m) == LoopIsOpen \/ m \in Operators

Open(m) == m = Loop /\ LoopIsOpen

Event == events < MaxEvents /\ events' = events + 1

Seen(m) == snapshots \cup run[m].rows

(* collect_due_snapshots and collect_snapshots_now list the servers; the   *)
(* loop takes those whose last sample is an interval old.                  *)
Begin(m) ==
    /\ run[m].pc = "idle"
    /\ LET todo == IF m = Loop THEN {v \in active : Due(v, snapshots, now)} ELSE active IN
         /\ todo # {}
         /\ run' = [run EXCEPT ![m] = [Idle EXCEPT !.pc = "measure", !.began = now,
                                          !.listed = active, !.todo = todo]]
    /\ m \in Operators => Event
    /\ m = Loop => UNCHANGED events
    /\ UNCHANGED <<now, active, snapshots, alerts, lastSent>>

(* _measure_server_load asks the panel, and its answer, or that there was  *)
(* none, is a row; one server after the other.  One that was switched off  *)
(* since it was listed is measured all the same: the session still has it  *)
(* as active.                                                              *)
Measure(m, users) ==
    LET v == Min(run[m].todo)
        load == LoadOf(users)
        row == [id |-> Cardinality(Seen(m)) + 1, server |-> v, at |-> run[m].began, by |-> m,
                percent |-> load.percent, gb |-> load.gb] IN
    /\ run[m].pc = "measure"
    /\ run[m].todo # {}
    /\ IF users = NoAnswer THEN Event ELSE UNCHANGED events
    /\ IF Open(m)
       THEN /\ run' = [run EXCEPT ![m].todo = @ \ {v}, ![m].rows = @ \cup {row}]
            /\ UNCHANGED snapshots
       ELSE /\ run' = [run EXCEPT ![m].todo = @ \ {v}]
            /\ snapshots' = snapshots \cup {row}
    /\ UNCHANGED <<now, active, alerts, lastSent>>

(* Servers that are active now and were when the session began. *)
Considered(m) == active \cap run[m].listed

Hot(m) ==
    {x \in Locations \X Kinds :
        AllHot(Values(x[2], x[1], Considered(m), Seen(m), run[m].began), Threshold(x[2], x[1]))}

(* _build_location_usage_states, and what to alert on. *)
Compare(m) ==
    /\ run[m].pc = "measure"
    /\ run[m].todo = {}
    /\ run' = [run EXCEPT ![m].pc = "alert", ![m].hot = Hot(m)]
    /\ UNCHANGED <<now, active, snapshots, alerts, lastSent, events>>

(* Mutant: the cooldown is a moment short. *)
RecentShort(m, x) ==
    \E r \in alerts \cup run[m].records :
        r.key = KeyOf[x[1]] /\ r.kind = x[2] /\ r.at > run[m].began - Cooldown

(* _alert_recently_sent, by the key of the location. *)
Recent(m, x) ==
    \E r \in alerts \cup run[m].records :
        r.key = KeyOf[x[1]] /\ r.kind = x[2] /\ r.at >= run[m].began - Cooldown

Quiet(m, x) ==
    /\ run[m].pc = "alert" /\ x \in run[m].hot
    /\ Recent(m, x)
    /\ run' = [run EXCEPT ![m].hot = @ \ {x}]
    /\ UNCHANGED <<now, active, snapshots, alerts, lastSent, events>>

(* The operators get the message; nothing is written yet. *)
Send(m, x) ==
    /\ run[m].pc = "alert" /\ x \in run[m].hot
    /\ ~ Recent(m, x)
    /\ run' = [run EXCEPT ![m].pc = "record", ![m].sending = x]
    /\ lastSent' = IF m = Loop THEN [lastSent EXCEPT ![<<KeyOf[x[1]], x[2]>>] = now]
                   ELSE lastSent
    /\ UNCHANGED <<now, active, snapshots, alerts, events>>

Record(m) ==
    LET x == run[m].sending
        row == [key |-> KeyOf[x[1]], kind |-> x[2], at |-> now, by |-> m,
                began |-> run[m].began]
        after == [run[m] EXCEPT !.pc = "alert", !.hot = @ \ {x}, !.sending = Idle.sending] IN
    /\ run[m].pc = "record"
    /\ IF Open(m)
       THEN /\ run' = [run EXCEPT ![m] = [after EXCEPT !.records = @ \cup {row}]]
            /\ UNCHANGED alerts
       ELSE /\ run' = [run EXCEPT ![m] = after]
            /\ alerts' = alerts \cup {row}
    /\ UNCHANGED <<now, active, snapshots, lastSent, events>>

(* The session is closed, and what an open one wrote is gone. *)
Finish(m) ==
    /\ run[m].pc = "alert" /\ run[m].hot = {}
    /\ run' = [run EXCEPT ![m] = Idle]
    /\ UNCHANGED <<now, active, snapshots, alerts, lastSent, events>>

Crash(m) ==
    /\ Event
    /\ run[m].pc # "idle"
    /\ run' = [run EXCEPT ![m] = Idle]
    /\ UNCHANGED <<now, active, snapshots, alerts, lastSent>>

Toggle(v) ==
    /\ Event
    /\ active' = IF v \in active THEN active \ {v} ELSE active \cup {v}
    /\ UNCHANGED <<now, snapshots, alerts, lastSent, run>>

Tick ==
    /\ now < MaxTime
    /\ now' = now + 1
    /\ UNCHANGED <<active, snapshots, alerts, lastSent, run, events>>

Next ==
    \/ \E m \in Monitors :
         \/ Begin(m) \/ Compare(m) \/ Record(m) \/ Finish(m) \/ Crash(m)
         \/ \E users \in Panels \cup {NoAnswer} : Measure(m, users)
         \/ \E x \in Locations \X Kinds : Quiet(m, x) \/ Send(m, x)
    \/ \E v \in Servers : Toggle(v)
    \/ Tick

Spec == Init /\ [][Next]_vars

-----------------------------------------------------------------------------
(* Properties                                                              *)

(* Every variable has its type, and only an open session holds rows back.  *)
TypeOK ==
    /\ now \in Times
    /\ active \subseteq Servers
    /\ snapshots \subseteq Snapshot
    /\ alerts \subseteq AlertRow
    /\ DOMAIN run = Monitors
    /\ \A m \in Monitors :
         /\ run[m].pc \in {"idle", "measure", "alert", "record"}
         /\ run[m].began \in Times
         /\ run[m].listed \subseteq Servers /\ run[m].todo \subseteq run[m].listed
         /\ run[m].hot \subseteq Locations \X Kinds
         /\ run[m].rows \subseteq Snapshot /\ run[m].records \subseteq AlertRow
         /\ run[m].rows \cup run[m].records # {} => m = Loop /\ LoopIsOpen
    /\ events \in 0..MaxEvents

(* The loop samples a server once per interval, whatever fails between two *)
(* samples and whatever operators sample (collect_due_snapshots).          *)
SamplesSpaced ==
    \A r, q \in snapshots :
        r # q /\ r.server = q.server /\ r.by = Loop /\ q.by = Loop =>
            r.at >= q.at + Interval \/ q.at >= r.at + Interval

(* An alert that is recorded before a session begins keeps that session    *)
(* quiet on the same key and kind for the cooldown: names that are aliases *)
(* of a location share it, other sessions and crashes do not break it.     *)
CooldownHolds ==
    \A r, q \in alerts :
        r.key = q.key /\ r.kind = q.kind /\ r.at < q.began => r.at < q.began - Cooldown

(* Sample r by itself says, to a session that begins then, that a kind of  *)
(* alert is due: it is of the last interval, or of the window of averages. *)
Supports(r, kind, l, began) ==
    IF kind = "percent"
    THEN r.at > began - Interval /\ r.percent >= Threshold(kind, l)
    ELSE r.at >= began - Window /\ r.gb >= Threshold(kind, l)

(* A session that finds a location near capacity has such a sample of      *)
(* every server of it that was active all along; for the traffic, of which *)
(* only averages are compared, too                                         *)
(* (_send_location_active_users_alert_if_needed: "every active server").   *)
AlertsAreFresh ==
    [][\A m \in Monitors, l \in Locations, kind \in Kinds :
          <<l, kind>> \in run'[m].hot /\ <<l, kind>> \notin run[m].hot =>
            \A v \in active \cap run[m].listed : LocationOf[v] = l =>
                \E r \in Seen(m) : r.server = v /\ Supports(r, kind, l, run[m].began)]_vars

(* The operators' screen asks for one more server for a location exactly   *)
(* when one of the two alerts does, though the tests are written apart     *)
(* (_capacity_state and the two senders of alerts).                        *)
ScreenAgrees ==
    LET screen == Statuses(active, snapshots, now) IN
    \A l \in DOMAIN screen :
        screen[l].capacity_needed <=>
            \E kind \in Kinds :
                AllHot(Values(kind, l, active, snapshots, now), Threshold(kind, l))

(* In an iteration whose session is open the loop samples and alerts, and  *)
(* nothing of it is ever in a table: it samples the same servers again and *)
(* nothing keeps it quiet (_background_loop calls collect_due_snapshots in *)
(* the session reconcile has left, open where a provider answered          *)
(* succeeded).                                                             *)
OpenLoopLeavesNothing ==
    LoopIsOpen => \A r \in snapshots \cup alerts : r.by # Loop

(* The loop alerts on a key and kind once per cooldown, as                 *)
(* tests/test_hiddify_usage.py asserts of two collections in a row.        *)
AlertedOncePerCooldown ==
    [][\A x \in DOMAIN lastSent :
          lastSent'[x] # lastSent[x] /\ lastSent[x] # None => now > lastSent[x] + Cooldown]_vars

(* The loop does not stop between a message and its row. *)
MessagesAreRecorded == [][~ (Crash(Loop) /\ run[Loop].pc = "record")]_vars
=============================================================================
