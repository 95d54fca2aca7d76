----------------------------- MODULE MetroScan -----------------------------
(* scan_metro and reload_app (connectionTools.ts, debugGlobals.ts) over
   several Metro servers that may list one device, over devices that run
   several apps of which one answers, and the memory of which Metro process
   serves a port (metroIdentity.ts), from which a device's bundle is suspected
   to be old.  A runtime is an app's, or a page's of a browser, which a dialog
   may pause; one that an app of before left behind is listed and never answers.
   The connection itself, its retries and its races are Connection. *)
EXTENDS Naturals, Sequences, FiniteSets, SequencesExt

CONSTANTS
    Ports,          \* the ports that answer, 1..n in the order they are scanned
    Targets,        \* JavaScript runtimes, 1..n in the order Metro lists them
    Pages,          \* those of a browser, or of an Electron app
    DeviceOf,       \* the device each runs on; a page's is its name
    AppOf,          \* the app each is of
    Name,           \* a device's name, as the set of words it has
    Lists,          \* the runtimes each Metro lists while they are attached
    Calls,          \* bound on calls, 1..n in the order they begin
    MaxEvents,      \* bound on what happens meanwhile
    Casts           \* bound on what is attached together: one of these sets of runtimes

ASSUME ScanAssumption ==
    /\ IsFiniteSet(Ports) /\ Ports = 1..Cardinality(Ports) /\ Ports # {}
    /\ IsFiniteSet(Targets) /\ Targets \subseteq Nat \ {0} /\ Calls \subseteq Nat \ {0}
    /\ Lists \in [Ports -> SUBSET Targets] /\ \A t \in Targets : \E p \in Ports : t \in Lists[p]
    /\ Pages \subseteq Targets /\ \A t \in Pages, u \in Targets : DeviceOf[u] = DeviceOf[t] => u = t
    /\ Casts \subseteq SUBSET Targets
    /\ "none" \notin {DeviceOf[t] : t \in Targets}

VARIABLES
    pid,            \* the process that listens on each port
    page,           \* the number of each runtime's page
    attached,       \* the runtimes Metro lists
    left,           \* those an app of before left behind
    front,          \* on each device the runtime that answers; others are suspended
    paused,         \* the pages that wait for a dialog to be answered
    registry,       \* connectedApps
    metroPidByPort, \* the process last seen on each port; 0 before one was
    stale,          \* staleBundleDevices
    call,           \* the calls
    lone,           \* the call that nothing has come between
    events,
    seenFirst, said, \* the processes seen first, and those a scan said were new
    fell            \* the apps that stopped answering after a call had found that they do

vars == <<pid, page, attached, left, front, paused, registry, metroPidByPort, stale, call, lone, events,
          seenFirst, said, fell>>
world == <<pid, page, attached, left, front, paused, events, fell>>
identity == <<metroPidByPort, seenFirst, said>>

Devices == {DeviceOf[t] : t \in Targets}
NoCall == 0
NoDevice == "none"
Idle == [pc |-> "idle", at |-> 1, groups |-> <<>>, read |-> 0, restarted |-> {}, device |-> NoDevice,
         t |-> 0, healthCheck |-> FALSE, reconnected |-> FALSE, unhealthy |-> FALSE,
         passed |-> {}, dialogs |-> {}]
Entry(p, t, n) == [port |-> p, target |-> t, page |-> n]
InFlight == {c \in Calls : call[c].pc \in {"list", "purge", "pids", "connect", "answer",
                                        "reload", "reconnect", "ensure", "check"}}

(* the other runtimes of t's app on its device *)
SameApp(t) == {u \in Targets \ {t} : DeviceOf[u] = DeviceOf[t] /\ AppOf[u] = AppOf[t]}

(* none or all of the apps have started, in one runtime each, and an earlier scan
   has looked at the processes or none has *)
Init ==
    /\ pid = [p \in Ports |-> 1]
    /\ attached \in {{}} \union {{t \in cast : \A u \in SameApp(t) \intersect cast : t < u} : cast \in Casts}
    /\ page = [t \in Targets |-> IF t \in attached THEN 1 ELSE 0]
    /\ left = {} /\ paused = {} /\ fell = {}
    /\ front = [d \in Devices |-> CHOOSE t \in Targets : DeviceOf[t] = d]
    /\ registry = {} /\ metroPidByPort \in {[p \in Ports |-> 0], pid} /\ stale = {}
    /\ call = [c \in Calls |-> Idle] /\ lone = NoCall /\ events = 0
    /\ seenFirst = metroPidByPort /\ said = {}

-----------------------------------------------------------------------------
(* Metro and the apps *)

Without(ts) == {e \in registry : e.target \notin ts}

(* these answer no more, whatever a call has found before *)
Fall(ts) == fell' = fell \union UNION {{c} \X {e \in call[c].passed : e.target \in ts} :
                                        c \in {b \in Calls : call[b].healthCheck}}

Happens == events < MaxEvents /\ events' = events + 1 /\ lone' = NoCall

MetroRestarts(p) ==
    /\ Happens /\ Fall(Lists[p])
    /\ pid' = [pid EXCEPT ![p] = @ + 1]
    /\ attached' = attached \ Lists[p] /\ registry' = Without(Lists[p])
    /\ left' = left \ Lists[p] /\ paused' = paused \ Lists[p]
    /\ UNCHANGED <<page, front, stale, call, identity>>

(* an app starts, or takes its place at Metro again, in front of the others; of
   its runtimes of before Metro still lists some *)
AppAttaches(t, kept) ==
    /\ Happens /\ Fall({u \in Targets : DeviceOf[u] = DeviceOf[t]})
    /\ page' = [page EXCEPT ![t] = @ + 1]
    /\ attached' = (attached \ (SameApp(t) \ kept)) \union {t}
    /\ \E cast \in Casts : attached' \subseteq cast
    /\ left' = (left \ (SameApp(t) \union {t})) \union (kept \intersect attached \intersect SameApp(t))
    /\ paused' = paused \ {t}
    /\ registry' = Without(SameApp(t) \union {t})
    /\ front' = [front EXCEPT ![DeviceOf[t]] = t]
    /\ UNCHANGED <<pid, stale, call, identity>>

AppComesToFront(t) ==
    /\ Happens /\ t \in attached \ left /\ front[DeviceOf[t]] # t
    /\ Fall({front[DeviceOf[t]]})
    /\ front' = [front EXCEPT ![DeviceOf[t]] = t]
    /\ UNCHANGED <<pid, page, attached, left, paused, registry, stale, call, identity>>

(* alert, confirm or prompt; the server is told of it on a connection made before *)
DialogOpens(t) ==
    /\ Happens /\ t \in attached \intersect Pages /\ t \notin paused
    /\ Fall({t}) /\ paused' = paused \union {t}
    /\ UNCHANGED <<pid, page, attached, left, front, registry, stale, call, identity>>

DialogCloses(t) ==
    /\ Happens /\ t \in paused /\ paused' = paused \ {t}
    /\ UNCHANGED <<pid, page, attached, left, front, fell, registry, stale, call, identity>>

Answers(t) == t \in attached \ paused /\ front[DeviceOf[t]] = t

-----------------------------------------------------------------------------
(* scan_metro: list every port, then purge, then look at the processes, then connect *)

BeginWith(c, pc, d, t, healthCheck) ==
    /\ call[c] = Idle /\ \A b \in Calls : b < c => call[b] # Idle
    /\ call' = [call EXCEPT ![c] = [Idle EXCEPT !.pc = pc, !.device = d, !.t = t,
                                               !.healthCheck = healthCheck]]
    /\ lone' = IF InFlight = {} THEN c ELSE NoCall

Begin(c, pc, d, t) == BeginWith(c, pc, d, t, FALSE)

BeginScan(c) == Begin(c, "list", NoDevice, 0) /\ UNCHANGED <<world, registry, stale, identity>>

Ended(c, pc) == call' = [call EXCEPT ![c] = [Idle EXCEPT !.pc = pc]]

(* after the last port, on to the next stage *)
Advance(c, pc) ==
    IF call[c].at = Cardinality(Ports) THEN [call EXCEPT ![c].at = 1, ![c].pc = pc]
    ELSE [call EXCEPT ![c].at = @ + 1]

AppsInListedOrder(p, apps) == [order |-> apps, dropped |-> {}]      \* mutant

(* orderAppsOnDevice: a connected app that answers keeps the device; one that
   does not is dropped, so another app on the device can take it *)
OrderAppsOnDevice(p, apps) ==
    LET held == {i \in DOMAIN apps : Entry(p, apps[i], page[apps[i]]) \in registry}
        t == apps[Min(held)]
        rest == RemoveAt(apps, Min(held))
    IN  IF Len(apps) < 2 \/ held = {} THEN [order |-> apps, dropped |-> {}]
        ELSE IF Answers(t) THEN [order |-> <<t>> \o rest, dropped |-> {}]
        ELSE [order |-> Append(rest, t), dropped |-> {Entry(p, t, page[t])}]

InOrder(S) == CHOOSE s \in [1..Cardinality(S) -> S] : \A i, j \in DOMAIN s : i < j => s[i] < s[j]

(* what a port lists of one device, and of that what a scan tries: the main one,
   listed first, and those of other apps *)
RuntimesAt(p, d) == {t \in Lists[p] \intersect attached : DeviceOf[t] = d}
AppsAt(p, d) == LET main == Min(RuntimesAt(p, d))
                IN  {t \in RuntimesAt(p, d) : t = main \/ AppOf[t] # AppOf[main]}
AppsOf(p, d) == InOrder(AppsAt(p, d))
ListedDevices(p) == {DeviceOf[t] : t \in Lists[p] \intersect attached}

ListPort(c) ==
    LET p == call[c].at
        ordered == [d \in ListedDevices(p) |-> OrderAppsOnDevice(p, AppsOf(p, d))]
    IN  /\ call[c].pc = "list"
        /\ registry' = registry \ UNION {ordered[d].dropped : d \in DOMAIN ordered}
        /\ call' = [Advance(c, "purge") EXCEPT
                       ![c].groups = Append(@, [d \in DOMAIN ordered |->
                           [i \in DOMAIN ordered[d].order |->
                               Entry(p, ordered[d].order[i], page[ordered[d].order[i]])]])]
        /\ UNCHANGED <<world, stale, lone, identity>>

(* what is connected on a port with something to debug, and is not what the
   scan chose to debug there, goes *)
PurgeStaleConnectionsForPorts(groups) ==
    {e \in registry : LET listed == groups[e.port]
                      IN  DOMAIN listed = {} \/ \E d \in DOMAIN listed : listed[d][1] = e}

Purge(c) ==
    /\ call[c].pc = "purge"
    /\ registry' = PurgeStaleConnectionsForPorts(call[c].groups)
    /\ call' = [call EXCEPT ![c].pc = "pids"]
    /\ UNCHANGED <<world, stale, lone, identity>>

ChangedAtFirstSight(p, n) == metroPidByPort[p] # n      \* mutant

(* a first observation is not a change *)
Changed(p, n) == metroPidByPort[p] # 0 /\ metroPidByPort[p] # n

OfBrowser(p) == Lists[p] \intersect Pages # {}

(* lsof names the process, for one port after the other *)
ReadListenerPid(c) ==
    LET p == call[c].at
    IN  /\ call[c].pc = "pids" /\ call[c].read = 0 /\ ~ OfBrowser(p)
        /\ call' = [call EXCEPT ![c].read = pid[p]]
        /\ UNCHANGED <<world, registry, stale, lone, identity>>

(* and is noted when its answer is there *)
MetroProcessChanged(c) ==
    LET p == call[c].at
        n == call[c].read
    IN  /\ call[c].pc = "pids" /\ n # 0
        /\ metroPidByPort' = [metroPidByPort EXCEPT ![p] = n]
        /\ seenFirst' = [seenFirst EXCEPT ![p] = IF @ = 0 THEN n ELSE @]
        /\ call' = [Advance(c, "connect") EXCEPT ![c].read = 0,
                       ![c].restarted = IF Changed(p, n) THEN @ \union {<<p, n>>} ELSE @]
        /\ UNCHANGED <<world, registry, stale, lone, said>>

(* lsof is missing or fails, or the port is a browser's: no change is seen *)
PidUnreadable(c) ==
    /\ call[c].pc = "pids" /\ call[c].read = 0
    /\ call' = Advance(c, "connect")
    /\ UNCHANGED <<world, registry, stale, lone, identity>>

(* a device two Metros list goes to the one with the fewest other devices *)
AssignedPort(groups, d) ==
    LET ports == {p \in Ports : d \in DOMAIN groups[p]}
        Others(p) == Cardinality(DOMAIN groups[p] \ {d})
    IN  CHOOSE p \in ports : \A q \in ports : Others(p) < Others(q) \/ (Others(p) = Others(q) /\ p <= q)

(* connectToDevice, seen from its caller *)
Outcome(reg, e) ==
    IF e \in reg THEN "already"
    ELSE IF \E x \in reg : DeviceOf[x.target] = DeviceOf[e.target] THEN "skipped"
    ELSE IF e.target \notin attached \/ e.page # page[e.target] THEN "failed"
    ELSE IF ~ Answers(e.target) THEN "stale"
    ELSE "connected"

FirstOnly(reg, apps) == 1       \* mutant

(* the first app that is not stale, or the first of all *)
Chosen(reg, apps) ==
    LET live == {i \in DOMAIN apps : Outcome(reg, apps[i]) # "stale"}
    IN  IF live = {} THEN 1 ELSE Min(live)

(* one port: every device assigned to it is connected, and marked if its Metro
   is another process than before *)
ConnectPort(c) ==
    LET p == call[c].at
        groups == call[c].groups
        mine == {d \in DOMAIN groups[p] : AssignedPort(groups, d) = p}
        Try(d) == groups[p][d][Chosen(registry, groups[p][d])]
        Got(d) == Outcome(registry, Try(d))
    IN  /\ call[c].pc = "connect"
        /\ registry' = registry \union {Try(d) : d \in {x \in mine : Got(x) = "connected"}}
        /\ stale' = IF p \in {r[1] : r \in call[c].restarted}
                    THEN stale \union {d \in mine : Got(d) \notin {"stale", "failed"}} ELSE stale
        /\ call' = Advance(c, "answer")
        /\ UNCHANGED <<world, lone, identity>>

SaidIfConnected(c) == {r \in call[c].restarted : DOMAIN call[c].groups[r[1]] # {}}    \* mutant

(* "METRO RESTARTED since this session last attached" *)
SaidRestarted(c) == call[c].restarted

AnswerScan(c) ==
    /\ call[c].pc = "answer"
    /\ said' = said \union SaidRestarted(c)
    /\ Ended(c, "scanned")
    /\ UNCHANGED <<world, registry, stale, lone, metroPidByPort, seenFirst>>

-----------------------------------------------------------------------------
(* reload_app *)

BeginReload(c, d) ==
    \E e \in registry :
        /\ IF d = NoDevice THEN registry = {e} ELSE DeviceOf[e.target] = d
        /\ Begin(c, "reload", d, e.target)
        /\ UNCHANGED <<world, registry, stale, identity>>

(* fire-and-forget: the app takes it, or not; the connection is closed either way *)
Reload(c, takes) ==
    LET t == call[c].t
    IN  /\ call[c].pc = "reload"
        /\ takes => t \in attached \ Pages
        /\ IF takes THEN Fall({t}) ELSE fell' = fell
        /\ page' = IF takes THEN [page EXCEPT ![t] = @ + 1] ELSE page
        /\ registry' = Without({t})
        /\ call' = [call EXCEPT ![c].pc = "reconnect"]
        /\ UNCHANGED <<pid, attached, left, front, paused, events, stale, lone, identity>>

Within(d, e) == Name[d] \subseteq Name[e]

(* any name that contains the one given, or is contained in it *)
ClearBundleStale(d) ==
    IF d = NoDevice THEN {} ELSE {e \in stale : ~ Within(d, e) /\ ~ Within(e, d)}

ReloadApp(c) ==
    LET t == call[c].t
        where == {Entry(p, t, page[t]) : p \in {q \in Ports : t \in Lists[q]}}
    IN  /\ call[c].pc = "reconnect"
        /\ \E e \in where : registry' = IF Outcome(registry, e) = "connected"
                                        THEN registry \union {e} ELSE registry
        /\ stale' = ClearBundleStale(call[c].device)
        /\ Ended(c, "reloaded")
        /\ UNCHANGED <<world, lone, identity>>

-----------------------------------------------------------------------------
(* ensure_connection, connect_metro and disconnect_metro *)

BeginEnsure(c, forceRefresh, healthCheck) ==
    /\ BeginWith(c, "ensure", NoDevice, 0, healthCheck)
    /\ registry' = IF forceRefresh THEN {} ELSE registry
    /\ UNCHANGED <<world, stale, identity>>

(* the main device of a port *)
Main(p) == LET t == Min(Lists[p] \intersect attached) IN Entry(p, t, page[t])

(* nothing is open: the main device of a port is connected, and what is open then
   is checked once; with waitMs it waits for one *)
Establish(c, p) ==
    /\ call[c].pc = "ensure" /\ registry = {}
    /\ Lists[p] \intersect attached # {} /\ Outcome(registry, Main(p)) = "connected"
    /\ registry' = {Main(p)}
    /\ call' = [call EXCEPT ![c].pc = "check", ![c].groups = <<Main(p)>>, ![c].reconnected = TRUE]
    /\ UNCHANGED <<world, stale, lone, identity>>

(* no Metro is found, none lists an app, or the app refuses or does not answer *)
NotEstablished(c) ==
    /\ call[c].pc = "ensure" /\ registry = {} /\ Ended(c, "failed")
    /\ UNCHANGED <<world, registry, stale, lone, identity>>

WithOpenApps(c) ==
    /\ call[c].pc = "ensure" /\ registry # {}
    /\ call' = [call EXCEPT ![c].pc = "check", ![c].groups = SetToSeq(registry)]
    /\ UNCHANGED <<world, registry, stale, lone, identity>>

TakenOver(reg, e) == e \in reg                          \* mutant

(* runQuickHealthCheck *)
Healthy(reg, e) == e \in reg /\ Answers(e.target)

(* openDialog: a page that was connected when its dialog opened *)
Waits(e) == e \in registry /\ e.target \in paused

(* the same page, or for an app whose page has gone the main device of the port *)
PickReconnectTarget(e) ==
    IF e.target \in Lists[e.port] \intersect attached /\ e.page = page[e.target] THEN {e}
    ELSE IF e.target \in Pages \/ Lists[e.port] \intersect attached = {} THEN {}
    ELSE {Main(e.port)}

(* what an app's check leaves: the registry, what the answer shows as healthy, and
   whether a connection was made anew; a refused dial makes none *)
Checked(c, e, refused) ==
    LET retry == ~ Healthy(registry, e) /\ ~ call[c].reconnected
        without == registry \ {e}
        dialled == IF refused THEN {} ELSE PickReconnectTarget(e)
        now == without \union {d \in dialled : Outcome(without, d) = "connected"}
    IN  IF ~ call[c].healthCheck THEN [registry |-> registry, passed |-> {e}, anew |-> FALSE]
        ELSE IF ~ retry
        THEN [registry |-> registry, passed |-> {x \in {e} : Healthy(registry, x)}, anew |-> FALSE]
        ELSE [registry |-> now, anew |-> dialled # {},
              passed |-> {x \in now : Healthy(now, x) /\ \E d \in dialled : <<d.target, d.page>> = <<x.target, x.page>>}]

(* one device's check; a dead one is closed and dialled again, but one only; a page
   that waits for its dialog is left alone *)
CheckOne(c, refused) ==
    LET e == Head(call[c].groups)
        checked == Checked(c, e, refused)
    IN  /\ call[c].pc = "check" /\ call[c].groups # <<>> /\ ~ Waits(e)
        /\ registry' = checked.registry
        /\ call' = [call EXCEPT ![c].groups = Tail(@), ![c].reconnected = @ \/ checked.anew,
                       ![c].passed = @ \union checked.passed, ![c].unhealthy = @ \/ checked.passed = {}]
        /\ UNCHANGED <<world, stale, lone, identity>>

PausedByDialog(c) ==
    LET e == Head(call[c].groups)
    IN  /\ call[c].pc = "check" /\ call[c].groups # <<>> /\ Waits(e)
        /\ call' = [call EXCEPT ![c].groups = Tail(@), ![c].dialogs = @ \union {e}]
        /\ UNCHANGED <<world, registry, stale, lone, identity>>

(* "Connection Ensured", when none that was checked failed and one is still open *)
AnswerEnsure(c) ==
    /\ call[c].pc = "check" /\ call[c].groups = <<>>
    /\ IF call[c].unhealthy \/ registry \intersect (call[c].passed \union call[c].dialogs) = {}
       THEN Ended(c, "failed")
       ELSE call' = [call EXCEPT ![c].pc = "ensured"]
    /\ UNCHANGED <<world, registry, stale, lone, identity>>

(* connect_metro: every target the port lists, or those of the device named; of
   several on one device the first that answers takes it *)
ConnectMetro(c, p, d) ==
    LET devices == IF d = NoDevice THEN ListedDevices(p) ELSE ListedDevices(p) \intersect {d}
        all(x) == InOrder(RuntimesAt(p, x))
        apps == [x \in devices |-> [i \in DOMAIN all(x) |-> Entry(p, all(x)[i], page[all(x)[i]])]]
        Try(x) == apps[x][Chosen(registry, apps[x])]
    IN  /\ d \in devices \union {NoDevice} /\ Begin(c, "connected", NoDevice, 0)
        /\ registry' = registry \union {Try(x) : x \in {y \in devices : Outcome(registry, Try(y)) = "connected"}}
        /\ UNCHANGED <<world, stale, identity>>

DisconnectMetro(c, d) ==
    /\ registry # {} /\ d \in {DeviceOf[e.target] : e \in registry} \union {NoDevice}
    /\ Begin(c, "disconnected", NoDevice, 0)
    /\ registry' = {e \in registry : d # NoDevice /\ DeviceOf[e.target] # d}
    /\ UNCHANGED <<world, stale, identity>>

Next ==
    \/ \E p \in Ports : MetroRestarts(p)
    \/ \E t \in Targets : AppComesToFront(t) \/ DialogOpens(t) \/ DialogCloses(t)
    \/ \E t \in Targets : \E kept \in SUBSET SameApp(t) : AppAttaches(t, kept)
    \/ \E c \in Calls : \/ BeginScan(c) \/ ListPort(c) \/ Purge(c)
                        \/ ReadListenerPid(c) \/ MetroProcessChanged(c)
                        \/ PidUnreadable(c) \/ ConnectPort(c) \/ AnswerScan(c) \/ ReloadApp(c)
                        \/ NotEstablished(c) \/ WithOpenApps(c) \/ PausedByDialog(c) \/ AnswerEnsure(c)
    \/ \E c \in Calls, d \in Devices \union {NoDevice} : BeginReload(c, d) \/ DisconnectMetro(c, d)
    \/ \E c \in Calls, b \in BOOLEAN : Reload(c, b) \/ CheckOne(c, b)
    \/ \E c \in Calls, forceRefresh, healthCheck \in BOOLEAN : BeginEnsure(c, forceRefresh, healthCheck)
    \/ \E c \in Calls, p \in Ports : Establish(c, p)
    \/ \E c \in Calls, p \in Ports, d \in Devices \union {NoDevice} : ConnectMetro(c, p, d)

Spec == Init /\ [][Next]_vars

-----------------------------------------------------------------------------
(* the devices with a warning of a tool's answer about d *)
BundleStaleWarning(d) ==
    IF d \in stale THEN {d} ELSE {e \in stale : Within(d, e) \/ Within(e, d)}

(* A restart that was noticed is said: of every process taken note of after the
   first, some scan has said that it is new, or is about to. *)
RestartIsTold ==
    \A p \in Ports : metroPidByPort[p] # seenFirst[p] =>
        \/ <<p, metroPidByPort[p]>> \in said
        \/ \E c \in InFlight : <<p, metroPidByPort[p]>> \in call[c].restarted

(* A bundle is suspected only when a Metro that lists the device did restart. *)
SuspectedForCause ==
    \A d \in stale : \E p \in Ports : pid[p] > 1 /\ \E t \in Lists[p] : DeviceOf[t] = d

(* A scan that nothing came between leaves every device whose apps one Metro
   lists connected to the app that answers, unless that is hidden behind a runtime
   its own app left there. *)
OnlyAt(d, p) == \A q \in Ports, t \in Targets : t \in Lists[q] /\ DeviceOf[t] = d => q = p
FrontIsConnected ==
    lone # NoCall /\ call[lone].pc = "scanned" =>
        \A p \in Ports, d \in Devices :
            OnlyAt(d, p) /\ Answers(front[d]) /\ front[d] \in AppsAt(p, d) =>
                Entry(p, front[d], page[front[d]]) \in registry

(* Under "Connection Ensured", with the health check on, an app shown as PASSED
   answers on the page it is shown with, unless it has stopped after its own turn;
   so one that was dead when its turn came is never passed for one that is not,
   whatever the calls and the apps do meanwhile. *)
PassedAnswers ==
    \A c \in Calls : call[c].pc = "ensured" /\ call[c].healthCheck =>
        \A e \in call[c].passed :
            (Answers(e.target) /\ e.page = page[e.target]) \/ <<c, e>> \in fell

(* And when nothing came between, every app that is connected is in the answer: as
   one that answers, or as a page that waits for its dialog; without the health
   check the first are not said to have been asked. *)
NoneLeftOut ==
    lone # NoCall /\ call[lone].pc = "ensured" =>
        \A e \in registry :
            \/ e \in call[lone].passed /\ (call[lone].healthCheck => Answers(e.target))
            \/ e \in call[lone].dialogs /\ e.target \in paused

(* The code breaks this one (README, section 6).
   Failed devices are reconnected "individually so a dead Android doesn't take down
   a healthy iOS report and vice versa" (connection.ts:2394): a check that passes is
   reported of the device it was of. *)
ReportedAsItself ==
    [][\A c \in Calls, refused \in BOOLEAN : CheckOne(c, refused) /\ ~ call'[c].unhealthy =>
          \E e \in call'[c].passed : DeviceOf[e.target] = DeviceOf[Head(call[c].groups).target]]_vars

(* The code breaks this one (README, section 6).
   "Returns true when it demonstrably changed.  A first observation is not a
   change" (metroIdentity.ts:51): no scan says of the process seen first that it
   is new. *)
FirstIsNotNew == \A p \in Ports : <<p, seenFirst[p]>> \notin said

(* The code breaks this one (README, section 6).
   Purge "removes connections on scanned ports whose device IDs are no longer
   present in the fresh device list from Metro" (connection.ts:359): a
   connection on a page this scan was listed is spared. *)
ListedIn(groups, e) == \E d \in DOMAIN groups[e.port] : e \in Range(groups[e.port][d])
PurgeSparesListed ==
    [][\A c \in Calls : Purge(c) =>
          \A e \in registry \ registry' : ~ ListedIn(call[c].groups, e)]_vars

(* The code breaks this one (README, section 6).
   "so 'iPhone 17 Pro' does not inherit 'iPhone 17 Pro Max''s warning"
   (metroIdentity.ts:110) *)
WarningIsOwn == \A d \in Devices : BundleStaleWarning(d) \subseteq {d}
=============================================================================
