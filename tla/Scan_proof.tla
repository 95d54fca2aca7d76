----------------------------- MODULE Scan_proof -----------------------------
(* Metro and its devices, for any Metros, devices and apps, and any number of *)
(* calls and events: a Metro that restarted is told, a bundle is suspected    *)
(* with a reason, and the apps a scan or ensure_connection leaves are the     *)
(* ones that answer; no build error is lost unseen; and a name given to a     *)
(* window stays with its page.                                                *)
EXTENDS MCScan, FiniteSetTheorems, SequenceTheorems, WellFoundedInduction, TLAPS

Ends   == {"idle", "scanned", "reloaded", "failed", "ensured", "connected", "disconnected"}
Stages == {"list", "purge", "pids", "connect", "answer"}
Under  == Stages \union {"reload", "reconnect", "ensure", "check"}
Conns  == [port : Ports, target : Targets, page : Nat]
Deviceless == Devices \union {NoDevice}

-----------------------------------------------------------------------------
(* The processes.                                                          *)

Identity ==
    /\ pid \in [Ports -> Nat \ {0}]
    /\ metroPidByPort \in [Ports -> Nat] /\ seenFirst \in [Ports -> Nat]
    /\ \A p \in Ports : (metroPidByPort[p] = 0 <=> seenFirst[p] = 0) /\ metroPidByPort[p] <= pid[p]

\* What a call has to say of a Metro: its port had another process before.
Restarted(r) == r[1] \in Ports /\ pid[r[1]] > 1

-----------------------------------------------------------------------------
(* The apps.                                                               *)

World ==
    /\ page \in [Targets -> Nat] /\ attached \subseteq Targets
    /\ left \subseteq Targets /\ paused \subseteq Targets
    /\ front \in [Devices -> Targets] /\ \A d \in Devices : DeviceOf[front[d]] = d

Registered(e) ==
    /\ e \in Conns /\ e.target \in attached /\ e.target \in Lists[e.port]
    /\ e.page = page[e.target]
OnePerDevice == \A e, f \in registry : DeviceOf[e.target] = DeviceOf[f.target] => e = f
Registry == OnePerDevice /\ \A e \in registry : Registered(e)

-----------------------------------------------------------------------------
(* The calls.                                                              *)

\* The apps of a device as a port listed them.
AppList(p, d, apps) ==
    /\ apps \in Seq(Conns) /\ apps # <<>>
    /\ \A i \in DOMAIN apps : /\ apps[i].port = p /\ apps[i].target \in Lists[p]
                              /\ DeviceOf[apps[i].target] = d
Group(p, g) == \A d \in DOMAIN g : d \in Devices /\ AppList(p, d, g[d])

AppLists == UNION {[S -> Seq(Conns)] : S \in SUBSET Devices}

CallFields == {"pc", "at", "groups", "read", "restarted", "device", "t", "healthCheck", "reconnected",
               "unhealthy", "passed", "dialogs"}
CallOK(x) ==
    /\ DOMAIN x = CallFields
    /\ x.pc \in Ends \union Under /\ x.at \in Ports
    /\ x.device \in Deviceless /\ x.reconnected \in BOOLEAN /\ x.unhealthy \in BOOLEAN
    /\ x.healthCheck \in BOOLEAN /\ x.passed \subseteq Conns /\ x.dialogs \subseteq Conns
    /\ x.read \in Nat /\ x.read <= pid[x.at] /\ (x.pc # "pids" => x.read = 0)
    /\ x.pc \notin {"list", "pids", "connect"} => x.at = 1
    /\ x.pc = "list" => x.groups \in Seq(AppLists) /\ Len(x.groups) = x.at - 1
    /\ x.pc \in Stages \ {"list"} => DOMAIN x.groups = Ports
    /\ x.pc \in Stages => \A p \in DOMAIN x.groups : Group(p, x.groups[p])
    /\ x.pc \in {"reload", "reconnect"} => x.t \in Targets
    /\ x.pc = "check" =>
        x.groups \in Seq(Conns) /\ \A i \in DOMAIN x.groups : x.groups[i].target \in Lists[x.groups[i].port]
    /\ x.restarted # {} => x.pc \in {"pids", "connect", "answer"}
    /\ \A r \in x.restarted : Restarted(r)
CallsOK == call = [c \in Calls |-> call[c]] /\ \A c \in Calls : CallOK(call[c])

\* What most steps of a call leave of it.
Carried(x, y) ==
    /\ x.read = y.read /\ x.restarted = y.restarted /\ x.device = y.device /\ x.t = y.t
    /\ x.healthCheck = y.healthCheck /\ x.reconnected = y.reconnected /\ x.unhealthy = y.unhealthy
    /\ x.passed = y.passed /\ x.dialogs = y.dialogs /\ DOMAIN x = CallFields

\* An app that passed a check answers on that page, or stopped after its turn.
Good(e) == Answers(e.target) /\ e.page = page[e.target]
PassedHolds ==
    \A c \in Calls : call[c].healthCheck => \A e \in call[c].passed : Good(e) \/ <<c, e>> \in fell

-----------------------------------------------------------------------------
(* A call that nothing comes between.                                      *)

\* The port's apps are as the call listed them.
Current(p, g) ==
    /\ DOMAIN g = ListedDevices(p)
    /\ \A d \in DOMAIN g :
        /\ \A i \in DOMAIN g[d] : /\ g[d][i].target \in AppsAt(p, d) /\ g[d][i].target \in attached
                                  /\ g[d][i].page = page[g[d][i].target]
        /\ \A t \in AppsAt(p, d) : \E i \in DOMAIN g[d] : g[d][i] = Entry(p, t, page[t])

\* What a scan tries of what is connected on the port is the app that answers.
Tried(e) == e.target \in AppsAt(e.port, DeviceOf[e.target])
FrontHeld(p) ==
    \A e \in registry : e.port = p /\ Tried(e) /\ front[DeviceOf[e.target]] \in AppsAt(p, DeviceOf[e.target]) =>
        front[DeviceOf[e.target]] = e.target
AllTried == \A e \in registry : Tried(e)

Served(p) ==
    \A d \in Devices : OnlyAt(d, p) /\ Answers(front[d]) /\ front[d] \in AppsAt(p, d) =>
        Entry(p, front[d], page[front[d]]) \in registry

Waiting(x, e) == \E i \in DOMAIN x.groups : x.groups[i] = e
Reported(x, e) ==
    \/ e \in x.passed /\ (x.healthCheck => Answers(e.target))
    \/ e \in x.dialogs /\ e.target \in paused

Undisturbed(x) ==
    /\ x.pc \in Stages \ {"answer"} =>
        \A p \in DOMAIN x.groups : Current(p, x.groups[p]) /\ FrontHeld(p)
    /\ x.pc \in {"pids", "connect"} => AllTried
    /\ x.pc = "connect" => \A p \in Ports : p < x.at => Served(p)
    /\ x.pc \in {"answer", "scanned"} => \A p \in Ports : Served(p)
    /\ x.pc = "check" => \A e \in registry : Reported(x, e) \/ Waiting(x, e) \/ x.unhealthy
    /\ x.pc = "ensured" => \A e \in registry : Reported(x, e)

Alone == lone # NoCall => lone \in Calls /\ InFlight \subseteq {lone} /\ Undisturbed(call[lone])

-----------------------------------------------------------------------------
\* The inductive invariant.
Parts ==
    /\ Identity /\ World /\ Registry /\ CallsOK
    /\ PassedHolds /\ Alone /\ RestartIsTold /\ SuspectedForCause

(*************************************************************************)
(* Lists.                                                                *)
(*************************************************************************)

LEMMA MinIs ==
  ASSUME NEW S, S \subseteq Nat, S # {}
  PROVE  Min(S) \in S /\ \A i \in S : Min(S) <= i
<1>1. PICK n \in S : \A m \in S : <<m, n>> \notin OpToRel(<, Nat)
  BY NatLessThanWellFounded, WFMin
<1>2. \A m \in S : ~(m < n)
  BY <1>1 DEF OpToRel
<1>3. \A m \in S : n <= m
  BY <1>2
<1> QED BY <1>3 DEF Min

\* Finitely many numbers are listed in order, each of them.
LEMMA InOrderLists ==
  ASSUME NEW S, S \subseteq Nat, IsFiniteSet(S)
  PROVE  /\ Cardinality(S) \in Nat
         /\ InOrder(S) \in [1..Cardinality(S) -> S]
         /\ \A t \in S : \E i \in 1..Cardinality(S) : InOrder(S)[i] = t
<1> DEFINE n == Cardinality(S)
           Upto(t) == {u \in S : u <= t}
           rank == [t \in S |-> Cardinality(Upto(t))]
<1>1. n \in Nat
  BY FS_CardinalityType
<1>2. ASSUME NEW t \in S
      PROVE  IsFiniteSet(Upto(t)) /\ Cardinality(Upto(t)) \in 1..n
  <2>1. IsFiniteSet(Upto(t)) /\ Cardinality(Upto(t)) <= n
    BY FS_Subset
  <2>2. t \in Upto(t)
    BY <1>2
  <2>3. Cardinality(Upto(t)) # 0
    BY <2>1, <2>2, FS_EmptySet
  <2>4. Cardinality(Upto(t)) \in Nat
    BY <2>1, FS_CardinalityType
  <2> QED BY <1>1, <2>1, <2>3, <2>4
<1>3. ASSUME NEW t \in S, NEW u \in S, t < u
      PROVE  rank[t] < rank[u]
  <2>1. t \in Nat /\ u \in Nat
    OBVIOUS
  <2>2. ASSUME NEW v \in S, v <= t
        PROVE  v <= u
    BY <1>3, <2>1, <2>2
  <2>5. Upto(t) \in SUBSET Upto(u)
    BY <2>2
  <2>3. u \in Upto(u) /\ u \notin Upto(t)
    BY <1>3, <2>1
  <2> HIDE DEF Upto
  <2>4. Cardinality(Upto(t)) <= Cardinality(Upto(u)) /\ Cardinality(Upto(t)) # Cardinality(Upto(u))
    BY <1>2, <2>5, <2>3, FS_Subset
  <2> QED BY <1>1, <1>2, <2>4
<1>4. rank \in Injection(S, 1..n)
  <2>1. rank \in [S -> 1..n]
    BY <1>2
  <2>2. \A t, u \in S : t # u => t < u \/ u < t
    OBVIOUS
  <2>3. \A t \in S : rank[t] \in Nat
    BY <1>1, <2>1
  <2> HIDE DEF rank, Upto
  <2>4. IsInjective(rank)
    BY <1>3, <2>1, <2>2, <2>3 DEF IsInjective
  <2> QED BY <2>1, <2>4 DEF Injection
<1>5. IsFiniteSet(1..n) /\ Cardinality(1..n) = n
  BY <1>1, FS_Interval
<1>6. rank \in Surjection(S, 1..n)
  <2> HIDE DEF rank, n
  <2> QED BY <1>4, <1>5, FS_Injection DEF n
<1> DEFINE f == [i \in 1..n |-> CHOOSE t \in S : rank[t] = i]
           Sorted(s) == \A i, j \in DOMAIN s : i < j => s[i] < s[j]
<1> HIDE DEF rank
<1>7. ASSUME NEW i \in 1..n
      PROVE  f[i] \in S /\ rank[f[i]] = i
  BY <1>6 DEF Surjection
<1>8. f \in [1..n -> S] /\ Sorted(f)
  <2>1. f \in [1..n -> S]
    BY <1>7
  <2>2. ASSUME NEW i \in 1..n, NEW j \in 1..n, i < j
        PROVE  f[i] < f[j]
    <3> HIDE DEF f
    <3>1. f[i] \in S /\ f[j] \in S /\ rank[f[i]] = i /\ rank[f[j]] = j
      BY <1>7
    <3>4. f[i] \in Nat /\ f[j] \in Nat
      BY <3>1
    <3>2. ~(f[j] < f[i])
      BY <1>1, <1>3, <2>2, <3>1, <3>4
    <3>3. f[j] # f[i]
      BY <1>1, <2>2, <3>1
    <3> QED BY <3>2, <3>3, <3>4
  <2> HIDE DEF f
  <2> QED BY <2>1, <2>2
<1>9. InOrder(S) \in [1..n -> S] /\ Sorted(InOrder(S))
  <2> HIDE DEF f
  <2> QED BY <1>8 DEF InOrder
<1>10. InOrder(S) \in Injection(1..n, S)
  <2> DEFINE s == InOrder(S)
  <2>1. s \in [1..n -> S] /\ \A i, j \in 1..n : i < j => s[i] < s[j]
    BY <1>9
  <2> HIDE DEF s
  <2>2. ASSUME NEW i \in 1..n, NEW j \in 1..n, s[i] = s[j]
        PROVE  i = j
    <3>1. s[i] \in Nat /\ s[j] \in Nat
      BY <2>1
    <3>2. ~(i < j) /\ ~(j < i)
      BY <2>1, <2>2, <3>1
    <3> QED BY <1>1, <3>2
  <2> QED BY <2>1, <2>2 DEF Injection, IsInjective, s
<1>11. InOrder(S) \in Surjection(1..n, S)
  BY <1>5, <1>10, FS_Injection
<1> QED BY <1>1, <1>9, <1>11 DEF Surjection

\* A finite set is listed, each of its members.
LEMMA SetListed ==
  ASSUME NEW S, IsFiniteSet(S)
  PROVE  /\ SetToSeq(S) \in Seq(S)
         /\ \A e \in S : \E i \in DOMAIN SetToSeq(S) : SetToSeq(S)[i] = e
<1> DEFINE n == Cardinality(S)
           s == SetToSeq(S)
<1>1. n \in Nat /\ ExistsBijection(1..n, S)
  BY FS_CardinalityType
<1>2. \E f \in [1..n -> S] : IsInjective(f)
  BY <1>1 DEF ExistsBijection, Bijection, Injection
<1>3. s \in [1..n -> S] /\ IsInjective(s)
  BY <1>2 DEF SetToSeq
<1>4. s \in Injection(1..n, S) /\ IsFiniteSet(1..n) /\ Cardinality(1..n) = n
  BY <1>1, <1>3, FS_Interval DEF Injection
<1>5. s \in Surjection(1..n, S)
  <2> HIDE DEF s
  <2> QED BY <1>4, FS_Injection
<1> QED BY <1>1, <1>3, <1>5 DEF Surjection

LEMMA Joined ==
  ASSUME NEW T, NEW s \in Seq(T), NEW r \in Seq(T)
  PROVE  s \o r \in Seq(T) /\ Len(s \o r) = Len(s) + Len(r)
OBVIOUS

LEMMA RemovedOne ==
  ASSUME NEW T, NEW s \in Seq(T), NEW i \in 1..Len(s)
  PROVE  /\ RemoveAt(s, i) \in Seq(T)
         /\ \A j \in DOMAIN s : j # i => \E k \in DOMAIN RemoveAt(s, i) : RemoveAt(s, i)[k] = s[j]
<1> DEFINE a == SubSeq(s, 1, i - 1)
           b == SubSeq(s, i + 1, Len(s))
<1>1. /\ a \in Seq(T) /\ Len(a) = i - 1 /\ \A k \in 1..i - 1 : a[k] = s[k]
      /\ b \in Seq(T) /\ Len(b) = Len(s) - i /\ \A k \in 1..Len(s) - i : b[k] = s[i + k]
  OBVIOUS
<1> HIDE DEF a, b
<1>2. /\ a \o b \in Seq(T) /\ Len(a \o b) = Len(s) - 1
      /\ \A k \in 1..i - 1 : (a \o b)[k] = s[k]
      /\ DOMAIN (a \o b) = 1..Len(s) - 1
  <2>1. a \o b \in Seq(T) /\ Len(a \o b) = Len(a) + Len(b)
    BY <1>1, Joined
  <2>2. Len(a) + Len(b) = Len(s) - 1
    BY <1>1
  <2>3. \A k \in 1..Len(a) : (a \o b)[k] = a[k]
    BY <1>1
  <2>4. \A k \in 1..i - 1 : (a \o b)[k] = s[k]
    BY <1>1, <2>3
  <2>5. DOMAIN (a \o b) = 1..Len(a \o b)
    BY <2>1
  <2> QED BY <2>1, <2>2, <2>4, <2>5
<1>5. ASSUME NEW k \in i..Len(s) - 1
      PROVE  (a \o b)[k] = s[k + 1]
  <2>1. k - (i - 1) \in 1..Len(s) - i /\ k \notin 1..Len(a) /\ k \in 1..Len(a) + Len(b)
    BY <1>1, <1>5
  <2>2. (a \o b)[k] = b[k - Len(a)]
    BY <1>1, <2>1
  <2>3. b[k - (i - 1)] = s[i + (k - (i - 1))]
    BY <1>1, <2>1
  <2>4. i + (k - (i - 1)) = k + 1 /\ k - Len(a) = k - (i - 1)
    BY <1>1, <1>5
  <2> QED BY <2>2, <2>3, <2>4
<1>3. RemoveAt(s, i) = a \o b
  BY DEF RemoveAt, a, b
<1> DEFINE r == a \o b
<1>4. /\ \A k \in 1..i - 1 : r[k] = s[k]
      /\ \A k \in i..Len(s) - 1 : r[k] = s[k + 1]
  BY <1>2, <1>5
<1>6. i \in Nat /\ Len(s) \in Nat /\ i <= Len(s)
  OBVIOUS
<1> HIDE DEF r
<1>7. ASSUME NEW j \in 1..Len(s), j # i
      PROVE  \E k \in 1..Len(s) - 1 : r[k] = s[j]
  <2>1. CASE j < i
    <3>1. j \in 1..i - 1 /\ j \in 1..Len(s) - 1
      BY <1>6, <1>7, <2>1
    <3> QED BY <1>4, <3>1
  <2>2. CASE j > i
    <3>1. j - 1 \in i..Len(s) - 1 /\ j - 1 \in 1..Len(s) - 1 /\ (j - 1) + 1 = j
      BY <1>6, <1>7, <2>2
    <3>2. r[j - 1] = s[j]
      BY <1>4, <3>1
    <3> QED BY <3>1, <3>2
  <2> QED BY <1>6, <1>7, <2>1, <2>2
<1>8. RemoveAt(s, i) = r /\ r \in Seq(T) /\ DOMAIN r = 1..Len(s) - 1
  BY <1>2, <1>3 DEF r
<1>9. DOMAIN s = 1..Len(s)
  OBVIOUS
<1> QED BY <1>7, <1>8, <1>9

\* What Chosen chooses is one of the apps, and is not stale if one of them is not.
LEMMA ChosenIs ==
  ASSUME NEW reg, NEW apps, apps \in Seq(Conns), apps # <<>>
  PROVE  /\ Chosen(reg, apps) \in DOMAIN apps
         /\ \A i \in DOMAIN apps : Outcome(reg, apps[i]) # "stale" =>
                Outcome(reg, apps[Chosen(reg, apps)]) # "stale"
<1> DEFINE live == {i \in DOMAIN apps : Outcome(reg, apps[i]) # "stale"}
<1>1. CASE live = {}
  BY <1>1 DEF Chosen
<1>2. CASE live # {}
  <2>1. live \subseteq Nat
    OBVIOUS
  <2>2. Min(live) \in live
    <3> HIDE DEF live
    <3> QED BY <1>2, <2>1, MinIs
  <2> QED BY <1>2, <2>2 DEF Chosen
<1> QED BY <1>1, <1>2

LEMMA OutcomeIs ==
  ASSUME NEW reg, NEW e, Outcome(reg, e) = "connected"
  PROVE  /\ e \notin reg /\ \A x \in reg : DeviceOf[x.target] # DeviceOf[e.target]
         /\ e.target \in attached /\ e.page = page[e.target] /\ Answers(e.target)
BY DEF Outcome

LEMMA PortsAre == /\ Cardinality(Ports) \in Nat \ {0} /\ Ports = 1..Cardinality(Ports)
BY ScanAssumption, FS_CardinalityType, FS_EmptySet

\* Some targets are listed in order, each of them.
LEMMA OrderedAre ==
  ASSUME NEW S, S \subseteq Targets, S # {}
  PROVE  /\ InOrder(S) \in Seq(S) /\ InOrder(S) # <<>>
         /\ \A t \in S : \E i \in DOMAIN InOrder(S) : InOrder(S)[i] = t
<1>1. S \subseteq Nat /\ IsFiniteSet(S)
  BY ScanAssumption, FS_Subset
<1>2. /\ Cardinality(S) \in Nat
      /\ InOrder(S) \in [1..Cardinality(S) -> S]
      /\ \A t \in S : \E i \in 1..Cardinality(S) : InOrder(S)[i] = t
  BY <1>1, InOrderLists
<1>3. InOrder(S) \in Seq(S) /\ InOrder(S) # <<>> /\ DOMAIN InOrder(S) = 1..Cardinality(S)
  BY <1>2
<1> QED BY <1>2, <1>3

LEMMA RuntimesAre ==
  ASSUME World, NEW p \in Ports, NEW d \in ListedDevices(p)
  PROVE  /\ d \in Devices
         /\ RuntimesAt(p, d) \subseteq Targets /\ RuntimesAt(p, d) # {}
         /\ AppsAt(p, d) \subseteq RuntimesAt(p, d) /\ AppsAt(p, d) # {}
<1>1. RuntimesAt(p, d) \subseteq Targets /\ Targets \subseteq Nat
  BY ScanAssumption DEF RuntimesAt, World
<1>2. d \in Devices /\ RuntimesAt(p, d) # {}
  BY <1>1 DEF ListedDevices, RuntimesAt, Devices, World
<1>3. Min(RuntimesAt(p, d)) \in RuntimesAt(p, d)
  BY <1>1, <1>2, MinIs
<1> QED BY <1>1, <1>2, <1>3 DEF AppsAt

\* The apps a port lists for a device.
LEMMA AppsListed ==
  ASSUME World, NEW p \in Ports, NEW d \in ListedDevices(p)
  PROVE  /\ d \in Devices
         /\ AppsOf(p, d) \in Seq(AppsAt(p, d)) /\ AppsOf(p, d) # <<>>
         /\ \A t \in AppsAt(p, d) : \E i \in DOMAIN AppsOf(p, d) : AppsOf(p, d)[i] = t
<1>1. d \in Devices /\ AppsAt(p, d) \subseteq Targets /\ AppsAt(p, d) # {}
  BY RuntimesAre
<1> QED BY <1>1, OrderedAre DEF AppsOf

LEMMA AppsAreOf ==
  ASSUME NEW p, NEW d, NEW t \in AppsAt(p, d)
  PROVE  t \in Lists[p] /\ t \in attached /\ DeviceOf[t] = d
BY DEF AppsAt, RuntimesAt

\* The main device of a port.
LEMMA MainIs ==
  ASSUME World, NEW p \in Ports, Lists[p] \intersect attached # {}
  PROVE  Main(p) \in Conns /\ Main(p).port = p /\ Main(p).target \in Lists[p] \intersect attached
<1> DEFINE S == Lists[p] \intersect attached
<1>1. S \subseteq Targets /\ S \subseteq Nat
  BY ScanAssumption DEF World
<1>2. Min(S) \in S
  <2> HIDE DEF S
  <2> QED BY <1>1, MinIs DEF S
<1> QED BY <1>1, <1>2 DEF Main, Entry, Conns, World

\* A registered app is one its port lists.
LEMMA ListedThere ==
  ASSUME NEW e, Registered(e)
  PROVE  /\ DeviceOf[e.target] \in ListedDevices(e.port)
         /\ e = Entry(e.port, e.target, page[e.target])
<1>1. e = [port |-> e.port, target |-> e.target, page |-> e.page]
  BY DEF Registered, Conns
<1> QED BY <1>1 DEF Registered, ListedDevices, Entry

\* What a port says of a device once its apps are ordered: all of them, and none is
\* connected but the one that answers.
LEMMA OrderIs ==
  ASSUME World, Registry, NEW p \in Ports, NEW d \in ListedDevices(p)
  PROVE  LET o == OrderAppsOnDevice(p, AppsOf(p, d))
         IN  /\ o.order \in Seq(AppsAt(p, d)) /\ o.order # <<>>
             /\ \A t \in AppsAt(p, d) : \E i \in DOMAIN o.order : o.order[i] = t
             /\ \A e \in registry \ o.dropped :
                    e.port = p /\ DeviceOf[e.target] = d /\ Tried(e) /\ front[d] \in AppsAt(p, d) => front[d] = e.target
<1> DEFINE S == AppsAt(p, d)
           apps == AppsOf(p, d)
           o == OrderAppsOnDevice(p, apps)
           held == {i \in DOMAIN apps : Entry(p, apps[i], page[apps[i]]) \in registry}
           k == Min(held)
           t == apps[k]
           rest == RemoveAt(apps, k)
<1>1. /\ d \in Devices /\ apps \in Seq(S) /\ apps # <<>>
      /\ \A u \in S : \E i \in DOMAIN apps : apps[i] = u
  BY AppsListed
<1>2. \A u \in S : DeviceOf[u] = d
  BY AppsAreOf
<1>3. ASSUME NEW e \in registry, e.port = p, DeviceOf[e.target] = d, Tried(e)
      PROVE  /\ e.target \in S /\ e = Entry(p, e.target, page[e.target])
             /\ \E i \in held : apps[i] = e.target
  <2>1. e.target \in S /\ e = Entry(p, e.target, page[e.target])
    BY <1>3, ListedThere DEF Registry, Tried
  <2>2. PICK i \in DOMAIN apps : apps[i] = e.target
    BY <1>1, <2>1
  <2> QED BY <2>1, <2>2
<1> HIDE DEF S, apps
<1>4. CASE Len(apps) < 2 \/ held = {}
  <2>1. o = [order |-> apps, dropped |-> {}]
    BY <1>4 DEF OrderAppsOnDevice
  <2>2. ASSUME NEW e \in registry, e.port = p, DeviceOf[e.target] = d, Tried(e), front[d] \in S
        PROVE  front[d] = e.target
    <3>1. held # {} /\ Len(apps) < 2
      BY <1>3, <1>4, <2>2
    <3>2. DOMAIN apps \subseteq {1}
      BY <1>1, <3>1
    <3>3. apps[1] = e.target /\ apps[1] = front[d]
      BY <1>1, <1>3, <2>2, <3>2
    <3> QED BY <3>3
  <2> QED BY <1>1, <2>1, <2>2 DEF S, apps
<1>5. CASE ~(Len(apps) < 2 \/ held = {})
  <2>1. held \subseteq Nat /\ held # {}
    BY <1>1, <1>5
  <2>2. k \in held
    <3> HIDE DEF held
    <3> QED BY <2>1, MinIs
  <2>3. k \in 1..Len(apps) /\ t \in S
    BY <1>1, <2>2
  <2>4. rest \in Seq(S) /\ \A j \in DOMAIN apps : j # k => \E i \in DOMAIN rest : rest[i] = apps[j]
    BY <1>1, <2>3, RemovedOne
  <2>5. Entry(p, t, page[t]) \in registry
    BY <2>2
  <2>6. ASSUME NEW e \in registry, e.port = p, DeviceOf[e.target] = d
        PROVE  e.target = t /\ e = Entry(p, t, page[t])
    <3>1. DeviceOf[t] = d /\ Entry(p, t, page[t]).target = t
      BY <1>2, <2>3 DEF Entry
    <3> HIDE DEF t
    <3>2. e = Entry(p, t, page[t])
      BY <2>5, <2>6, <3>1 DEF Registry, OnePerDevice
    <3> QED BY <3>1, <3>2
  <2>7. ASSUME NEW u \in S
        PROVE  u = t \/ \E i \in DOMAIN rest : rest[i] = u
    <3>1. PICK j \in DOMAIN apps : apps[j] = u
      BY <1>1
    <3> QED BY <2>4, <3>1
  <2>8. CASE Answers(t)
    <3>1. o = [order |-> <<t>> \o rest, dropped |-> {}]
      BY <1>5, <2>8 DEF OrderAppsOnDevice
    <3>2. front[d] = t
      BY <1>2, <2>3, <2>8 DEF Answers
    <3> HIDE DEF t, rest, o, held
    <3> DEFINE r == <<t>> \o rest
    <3>3. /\ r \in Seq(S) /\ Len(r) = 1 + Len(rest) /\ r[1] = t
          /\ \A i \in 1..Len(rest) : r[i + 1] = rest[i]
      BY <2>3, <2>4
    <3> HIDE DEF r
    <3>4. r # <<>> /\ DOMAIN r = 1..Len(rest) + 1 /\ DOMAIN rest = 1..Len(rest) /\ Len(rest) \in Nat
      BY <2>4, <3>3
    <3>5. ASSUME NEW u \in S
          PROVE  \E i \in DOMAIN r : r[i] = u
      <4>1. CASE u = t
        BY <3>3, <3>4, <4>1
      <4>2. CASE u # t
        <5>1. PICK i \in 1..Len(rest) : rest[i] = u
          BY <2>7, <3>4, <4>2
        <5>2. i + 1 \in DOMAIN r /\ r[i + 1] = u
          BY <3>3, <3>4, <5>1
        <5> QED BY <5>2
      <4> QED BY <4>1, <4>2
    <3>6. o.order = r /\ o.dropped = {}
      BY <3>1 DEF r
    <3> QED BY <2>6, <3>2, <3>3, <3>4, <3>5, <3>6 DEF S, apps, o
  <2>9. CASE ~Answers(t)
    <3>1. o = [order |-> Append(rest, t), dropped |-> {Entry(p, t, page[t])}]
      BY <1>5, <2>9 DEF OrderAppsOnDevice
    <3> HIDE DEF t, rest, o, held
    <3> DEFINE r == Append(rest, t)
    <3>3. /\ r \in Seq(S) /\ Len(r) = 1 + Len(rest) /\ r[Len(rest) + 1] = t
          /\ \A i \in 1..Len(rest) : r[i] = rest[i]
      BY <2>3, <2>4
    <3> HIDE DEF r
    <3>4. r # <<>> /\ DOMAIN r = 1..Len(rest) + 1 /\ DOMAIN rest = 1..Len(rest) /\ Len(rest) \in Nat
      BY <2>4, <3>3
    <3>5. ASSUME NEW u \in S
          PROVE  \E i \in DOMAIN r : r[i] = u
      <4>1. CASE u = t
        <5>1. Len(rest) + 1 \in DOMAIN r
          BY <3>4
        <5> QED BY <3>3, <4>1, <5>1
      <4>2. CASE u # t
        <5>1. PICK i \in 1..Len(rest) : rest[i] = u
          BY <2>7, <3>4, <4>2
        <5>2. i \in DOMAIN r /\ r[i] = u
          BY <3>3, <3>4, <5>1
        <5> QED BY <5>2
      <4> QED BY <4>1, <4>2
    <3>6. o.order = r /\ o.dropped = {Entry(p, t, page[t])}
      BY <3>1 DEF r
    <3> QED BY <2>6, <3>3, <3>4, <3>5, <3>6 DEF S, apps, o
  <2> QED BY <2>8, <2>9
<1> QED BY <1>4, <1>5

(*************************************************************************)
(* What a step leaves alone.                                             *)
(*************************************************************************)

LEMMA StagesOf ==
  ASSUME NEW x, CallOK(x)
  PROVE  /\ x.pc \in Under <=> x.pc \notin Ends
         /\ x.restarted # {} => x.pc \in Under
BY DEF CallOK, Ends, Under, Stages

LEMMA InFlightIs == InFlight = {c \in Calls : call[c].pc \in Under}
BY DEF InFlight, Under, Stages

\* Processes only ever take the place of others.
PidsGrow == pid' \in [Ports -> Nat \ {0}] /\ \A p \in Ports : pid[p] <= pid'[p]

\* So what calls have to say of the Metros stands.
LEMMA CallStands ==
  ASSUME Identity, PidsGrow, NEW x, CallOK(x)
  PROVE  CallOK(x)'
<1>1. x.at \in Ports /\ x.read <= pid'[x.at]
  <2>1. x.at \in Ports /\ x.read \in Nat /\ x.read <= pid[x.at]
    BY DEF CallOK
  <2>2. pid[x.at] \in Nat /\ pid'[x.at] \in Nat /\ pid[x.at] <= pid'[x.at]
    BY <2>1 DEF Identity, PidsGrow
  <2> QED BY <2>1, <2>2
<1>2. \A r \in x.restarted : Restarted(r)'
  <2> SUFFICES ASSUME NEW r \in x.restarted
               PROVE  r[1] \in Ports /\ pid'[r[1]] > 1
    BY DEF Restarted
  <2>1. r[1] \in Ports /\ pid[r[1]] > 1
    BY DEF CallOK, Restarted
  <2>2. pid[r[1]] \in Nat /\ pid'[r[1]] \in Nat /\ pid[r[1]] <= pid'[r[1]]
    BY <2>1 DEF Identity, PidsGrow
  <2> QED BY <2>1, <2>2
<1> QED BY <1>1, <1>2 DEF CallOK, Group, AppList

LEMMA PidsStay == Identity /\ UNCHANGED pid => PidsGrow
BY DEF Identity, PidsGrow

LEMMA SuspicionStands ==
  ASSUME Identity, PidsGrow, SuspectedForCause, stale' \subseteq stale
  PROVE  SuspectedForCause'
<1> SUFFICES ASSUME NEW d \in stale
             PROVE  \E p \in Ports : pid'[p] > 1 /\ \E t \in Lists[p] : DeviceOf[t] = d
  BY DEF SuspectedForCause
<1>1. PICK p \in Ports : pid[p] > 1 /\ \E t \in Lists[p] : DeviceOf[t] = d
  BY DEF SuspectedForCause
<1>2. pid[p] \in Nat /\ pid'[p] \in Nat /\ pid[p] <= pid'[p]
  BY DEF Identity, PidsGrow
<1> QED BY <1>1, <1>2

LEMMA CallsChange ==
  ASSUME Identity, PidsGrow, CallsOK, NEW c \in Calls, NEW x, CallOK(x)',
         call' = [call EXCEPT ![c] = x]
  PROVE  CallsOK' /\ call'[c] = x /\ \A b \in Calls \ {c} : call'[b] = call[b]
<1>1. call'[c] = x /\ \A b \in Calls \ {c} : call'[b] = call[b]
  BY DEF CallsOK
<1>2. call' = [b \in Calls |-> call'[b]]
  BY DEF CallsOK
<1>3. ASSUME NEW b \in Calls
      PROVE  CallOK(call[b])' 
  <2>1. PICK y : y = call'[b]
    OBVIOUS
  <2>2. CASE b = c
    BY <1>1, <2>1, <2>2
  <2>3. CASE b # c
    <3>1. CallOK(y)
      BY <1>1, <2>1, <2>3 DEF CallsOK
    <3> QED BY <2>1, <3>1, CallStands
  <2> QED BY <2>2, <2>3
<1> QED BY <1>1, <1>2, <1>3 DEF CallsOK

\* A restart that some call is to tell is still told while that call keeps it.
LEMMA ToldStands ==
  ASSUME CallsOK, CallsOK', RestartIsTold, UNCHANGED identity,
         \A b \in Calls : call'[b].restarted = call[b].restarted
  PROVE  RestartIsTold'
<1>1. ASSUME NEW b \in InFlight, NEW r \in call[b].restarted
      PROVE  b \in InFlight'
  <2>1. b \in Calls /\ call'[b].restarted # {}
    BY <1>1 DEF InFlight
  <2>2. call'[b].pc \in {"pids", "connect", "answer"}
    BY <2>1 DEF CallsOK, CallOK
  <2> QED BY <2>1, <2>2 DEF InFlight
<1>2. InFlight \subseteq Calls
  BY DEF InFlight
<1> QED BY <1>1, <1>2 DEF RestartIsTold, identity

SameWorld == UNCHANGED <<page, attached, left, front, paused, fell>>

LEMMA GoodStands == ASSUME SameWorld, NEW e PROVE (Good(e)' <=> Good(e)) /\ (Answers(e.target)' <=> Answers(e.target))
BY DEF SameWorld, Good, Answers

\* What stops answering is noted, so what has passed holds on.
LEMMA PassedFall ==
  ASSUME CallsOK, PassedHolds, NEW ts, Fall(ts),
         \A b \in Calls : \/ call'[b].passed = {}
                         \/ (call'[b].passed = call[b].passed /\ call'[b].healthCheck = call[b].healthCheck),
         \A e \in Conns : Good(e) /\ e.target \notin ts => Good(e)'
  PROVE  PassedHolds'
<1> SUFFICES ASSUME NEW b \in Calls, call'[b].healthCheck, NEW e \in call'[b].passed
             PROVE  Good(e)' \/ <<b, e>> \in fell'
  BY DEF PassedHolds
<1>1. call[b].healthCheck /\ e \in call[b].passed
  OBVIOUS
<1>2. e \in Conns
  BY <1>1 DEF CallsOK, CallOK
<1>3. Good(e) \/ <<b, e>> \in fell
  BY <1>1 DEF PassedHolds
<1>5. ASSUME e.target \in ts
      PROVE  <<b, e>> \in fell'
  <2>1. <<b, e>> \in {b} \X {x \in call[b].passed : x.target \in ts}
    BY <1>1, <1>5
  <2> QED BY <1>1, <2>1 DEF Fall
<1>6. fell \subseteq fell'
  BY DEF Fall
<1> QED BY <1>2, <1>3, <1>5, <1>6

LEMMA PassedStand ==
  ASSUME PassedHolds, SameWorld,
         \A b \in Calls : \/ call'[b].passed = {}
                         \/ (call'[b].passed = call[b].passed /\ call'[b].healthCheck = call[b].healthCheck)
  PROVE  PassedHolds'
<1> SUFFICES ASSUME NEW b \in Calls, call'[b].healthCheck, NEW e \in call'[b].passed
             PROVE  Good(e)' \/ <<b, e>> \in fell'
  BY DEF PassedHolds
<1>1. Good(e) \/ <<b, e>> \in fell
  BY DEF PassedHolds
<1> QED BY <1>1, GoodStands DEF SameWorld

\* The step of one call.
LEMMA CallStep ==
  ASSUME Parts, NEW c \in InFlight, NEW x, CallOK(x),
         call' = [call EXCEPT ![c] = x], lone' = lone, UNCHANGED identity, UNCHANGED pid,
         x.restarted = call[c].restarted,
         World', Registry', SuspectedForCause', PassedHolds',
         lone = c => Undisturbed(x)'
  PROVE  Parts'
<1>1. c \in Calls /\ Identity /\ PidsGrow
  BY PidsStay DEF InFlight, Parts
<1>2. CallsOK' /\ call'[c] = x /\ \A b \in Calls \ {c} : call'[b] = call[b]
  <2>1. CallOK(x)'
    BY <1>1, CallStands
  <2> QED BY <1>1, <2>1, CallsChange DEF Parts
<1>3. RestartIsTold'
  <2>1. \A b \in Calls : call'[b].restarted = call[b].restarted
    BY <1>2
  <2> QED BY <1>2, <2>1, ToldStands DEF Parts
<1>4. Identity'
  BY DEF Parts, Identity, identity
<1>5. Alone'
  <2>1. CASE lone = NoCall
    BY <2>1 DEF Alone
  <2>2. CASE lone # NoCall
    <3>1. lone = c /\ InFlight \subseteq {c}
      BY <2>2 DEF Parts, Alone
    <3>2. InFlight' \subseteq {c}
      BY <1>2, <3>1 DEF InFlight
    <3>3. PICK y : y = call'[c]
      OBVIOUS
    <3>4. Undisturbed(y)'
      BY <1>2, <3>1, <3>3
    <3>5. Undisturbed(call[lone])'
      BY <3>1, <3>3, <3>4
    <3> QED BY <1>1, <3>1, <3>2, <3>5 DEF Alone
  <2> QED BY <2>1, <2>2
<1> QED BY <1>2, <1>3, <1>4, <1>5 DEF Parts

\* One that neither changes the world nor what has passed.
LEMMA StillStep ==
  ASSUME Parts, NEW c \in InFlight, NEW x, CallOK(x),
         call' = [call EXCEPT ![c] = x], lone' = lone, UNCHANGED identity, UNCHANGED pid, SameWorld,
         x.restarted = call[c].restarted,
         x.passed = {} \/ (x.passed = call[c].passed /\ x.healthCheck = call[c].healthCheck),
         World', Registry', SuspectedForCause',
         lone = c => Undisturbed(x)'
  PROVE  Parts'
<1>1. \A b \in Calls : call'[b] = IF b = c THEN x ELSE call[b]
  BY DEF Parts, CallsOK, InFlight
<1>2. PassedHolds'
  BY <1>1, PassedStand DEF Parts
<1> QED BY <1>2, CallStep

\* Something happens meanwhile.
LEMMA EventStep ==
  ASSUME Parts, lone' = NoCall, UNCHANGED <<stale, call, identity>>, PidsGrow,
         Identity', World', Registry', PassedHolds'
  PROVE  Parts'
<1>1. ASSUME NEW b \in Calls
      PROVE  CallOK(call[b])'
  <2>1. PICK y : y = call[b]
    OBVIOUS
  <2>2. CallOK(y)'
    BY <2>1, CallStands DEF Parts, CallsOK
  <2> QED BY <2>1, <2>2
<1>2. CallsOK'
  BY <1>1 DEF Parts, CallsOK
<1>3. RestartIsTold' /\ SuspectedForCause'
  BY SuspicionStands DEF Parts, RestartIsTold, InFlight, identity
<1>4. Alone'
  BY DEF Alone
<1> QED BY <1>2, <1>3, <1>4 DEF Parts

\* Fewer connections, in a world that did not change.
LEMMA Fewer ==
  ASSUME World, Registry, registry' \subseteq registry, SameWorld
  PROVE  World' /\ Registry'
BY DEF World, Registry, OnePerDevice, Registered, SameWorld

\* One connection more, on a device that had none.
LEMMA OneMore ==
  ASSUME World, Registry, NEW e, NEW reg, reg \subseteq registry,
         e \in Conns, e.target \in Lists[e.port], Outcome(reg, e) = "connected",
         registry' = reg \union {e}, SameWorld
  PROVE  World' /\ Registry'
<1>1. /\ \A x \in reg : DeviceOf[x.target] # DeviceOf[e.target]
      /\ e.target \in attached /\ e.page = page[e.target]
  BY OutcomeIs
<1>2. \A x \in registry' : Registered(x)
  BY <1>1 DEF Registry, Registered
<1>3. OnePerDevice'
  BY <1>1 DEF Registry, OnePerDevice
<1>4. \A x \in registry' : Registered(x)'
  BY <1>2 DEF Registered, SameWorld
<1>5. World'
  BY DEF World, SameWorld
<1> QED BY <1>3, <1>4, <1>5 DEF Registry

(*************************************************************************)
(* The steps.                                                            *)
(*************************************************************************)

Starts == {"list", "reload", "ensure", "connected", "disconnected"}

LEMMA BeginStep ==
  ASSUME Parts, NEW c \in Calls, NEW pc \in Starts, NEW d \in Deviceless, NEW t,
         pc = "reload" => t \in Targets, NEW h \in BOOLEAN,
         BeginWith(c, pc, d, t, h), SameWorld, UNCHANGED <<pid, stale, identity>>, Registry'
  PROVE  Parts'
<1> DEFINE x == [Idle EXCEPT !.pc = pc, !.device = d, !.t = t, !.healthCheck = h]
<1>1. /\ call[c] = Idle /\ call' = [call EXCEPT ![c] = x]
      /\ lone' = IF InFlight = {} THEN c ELSE NoCall
  BY DEF BeginWith
<1>2. /\ x.pc = pc /\ x.at = 1 /\ x.groups = <<>> /\ x.restarted = {} /\ x.device = d /\ x.t = t
      /\ x.reconnected \in BOOLEAN /\ x.unhealthy \in BOOLEAN /\ x.healthCheck \in BOOLEAN
      /\ x.read = 0 /\ x.passed = {} /\ x.dialogs = {}
      /\ DOMAIN x = CallFields
  <2>1. x.pc = pc /\ x.device = d /\ x.t = t /\ x.healthCheck = h
    BY DEF Idle
  <2>2. x.at = 1 /\ x.groups = <<>> /\ x.restarted = {} /\ x.read = 0 /\ x.passed = {} /\ x.dialogs = {}
    BY DEF Idle
  <2>3. x.reconnected \in BOOLEAN /\ x.unhealthy \in BOOLEAN
    BY DEF Idle
  <2>4. DOMAIN x = CallFields
    BY DEF Idle, CallFields
  <2> QED BY <2>1, <2>2, <2>3, <2>4
<1> HIDE DEF x
<1>0. Identity /\ PidsGrow
  BY PidsStay DEF Parts
<1>3. CallOK(x)
  <2>1. 1 \in Ports /\ 0 <= pid[1]
    BY <1>0, PortsAre DEF Identity
  <2>2. pc \in Ends \union Under /\ pc \notin Stages \ {"list"} /\ pc # "check"
    BY DEF Starts, Ends, Under, Stages
  <2>3. Len(<<>>) = 0 /\ DOMAIN <<>> = {} /\ <<>> \in Seq(AppLists)
    OBVIOUS
  <2>4. Len(x.groups) = 0 /\ DOMAIN x.groups = {}
    BY <1>2, <2>3
  <2>5. x.groups = <<>> /\ x.at = 1 /\ x.pc = pc /\ x.device = d /\ x.t = t /\ x.restarted = {}
    BY <1>2
  <2>6. /\ DOMAIN x = CallFields /\ x.reconnected \in BOOLEAN /\ x.unhealthy \in BOOLEAN
        /\ x.healthCheck \in BOOLEAN /\ x.read = 0 /\ x.passed = {} /\ x.dialogs = {}
    BY <1>2
  <2>7. x.pc = "list" => x.groups \in Seq(AppLists) /\ Len(x.groups) = x.at - 1
    BY <2>3, <2>4, <2>5
  <2>8. x.pc \in {"reload", "reconnect"} => x.t \in Targets
    BY <2>5 DEF Starts
  <2> QED BY <2>1, <2>2, <2>4, <2>5, <2>6, <2>7, <2>8 DEF CallOK
<1>4. CallsOK' /\ call'[c] = x /\ \A b \in Calls \ {c} : call'[b] = call[b]
  <2>1. CallOK(x)'
    BY <1>0, <1>3, CallStands
  <2> QED BY <1>0, <1>1, <2>1, CallsChange DEF Parts
<1>5. RestartIsTold'
  <2>1. \A b \in Calls : call'[b].restarted = call[b].restarted
    <3>1. call[c].restarted = {}
      BY <1>1 DEF Idle
    <3> QED BY <1>2, <1>4, <3>1
  <2> QED BY <1>4, <2>1, ToldStands DEF Parts
<1>6. Identity' /\ World' /\ SuspectedForCause' /\ PassedHolds'
  <2>1. \A b \in Calls : call'[b].passed = {} \/ call'[b] = call[b]
    BY <1>2, <1>4
  <2>2. PassedHolds'
    BY <2>1, PassedStand DEF Parts
  <2> QED BY <2>2 DEF Parts, Identity, World, SuspectedForCause, identity, SameWorld
<1>7. Alone'
  <2>1. CASE InFlight # {}
    BY <1>1, <2>1 DEF Alone
  <2>2. CASE InFlight = {}
    <3>1. lone' = c
      BY <1>1, <2>2
    <3>2. InFlight' \subseteq {c}
      BY <1>4, <2>2 DEF InFlight
    <3>3. Undisturbed(x)'
      <4>1. x.pc = pc /\ x.groups = <<>> /\ DOMAIN <<>> = {}
        BY <1>2
      <4>2. pc \notin {"pids", "connect", "answer", "scanned", "check", "ensured"}
        BY DEF Starts
      <4> QED BY <4>1, <4>2 DEF Undisturbed
    <3>4. PICK y : y = call'[c]
      OBVIOUS
    <3>5. Undisturbed(y)'
      BY <1>4, <3>3, <3>4
    <3>6. Undisturbed(call[lone])'
      BY <3>1, <3>4, <3>5
    <3> QED BY <3>1, <3>2, <3>6 DEF Alone
  <2> QED BY <2>1, <2>2
<1> QED BY <1>4, <1>5, <1>6, <1>7 DEF Parts

LEMMA RestartKeeps ==
  ASSUME Parts, NEW p \in Ports, MetroRestarts(p)
  PROVE  Parts'
<1> USE DEF MetroRestarts, Happens
<1>1. Identity' /\ PidsGrow
  <2>1. pid' = [pid EXCEPT ![p] = @ + 1] /\ UNCHANGED <<metroPidByPort, seenFirst>>
    BY DEF identity
  <2>2. \A q \in Ports : pid[q] \in Nat \ {0} /\ pid'[q] \in Nat \ {0} /\ pid[q] <= pid'[q]
    BY <2>1 DEF Parts, Identity
  <2>3. pid' \in [Ports -> Nat \ {0}]
    BY <2>1, <2>2 DEF Parts, Identity
  <2>4. \A q \in Ports : metroPidByPort[q] \in Nat /\ metroPidByPort[q] <= pid[q]
    BY DEF Parts, Identity
  <2>5. \A q \in Ports : metroPidByPort[q] <= pid'[q]
    BY <2>2, <2>4
  <2> QED BY <2>1, <2>2, <2>3, <2>5 DEF Parts, Identity, PidsGrow
<1>2. World'
  BY DEF Parts, World
<1>3. Registry'
  BY DEF Parts, Registry, OnePerDevice, Registered, Without
<1>4. PassedHolds'
  <2>1. \A e \in Conns : Good(e) /\ e.target \notin Lists[p] => Good(e)'
    BY DEF Good, Answers
  <2> QED BY <2>1, PassedFall DEF Parts
<1> QED BY <1>1, <1>2, <1>3, <1>4, EventStep

\* What a change of the apps on some runtimes leaves of the registry.
LEMMA RegistryStands ==
  ASSUME World, Registry, NEW ts, registry' = Without(ts),
         \A t \in Targets \ ts : page'[t] = page[t] /\ (t \in attached => t \in attached')
  PROVE  Registry'
<1>1. registry' \subseteq registry /\ \A e \in registry' : e.target \notin ts
  BY DEF Without
<1>2. ASSUME NEW e \in registry'
      PROVE  Registered(e)'
  <2>1. Registered(e) /\ e.target \in Targets \ ts
    BY <1>1 DEF Registry, Registered, Conns
  <2> QED BY <2>1 DEF Registered
<1> QED BY <1>1, <1>2 DEF Registry, OnePerDevice

LEMMA AttachKeeps ==
  ASSUME Parts, NEW t \in Targets, NEW kept \in SUBSET SameApp(t), AppAttaches(t, kept)
  PROVE  Parts'
<1> USE DEF AppAttaches, Happens
<1>0. /\ Identity' /\ PidsGrow /\ SameApp(t) \subseteq Targets
      /\ \A u \in SameApp(t) : DeviceOf[u] = DeviceOf[t]
      /\ page \in [Targets -> Nat] /\ page' = [page EXCEPT ![t] = @ + 1]
      /\ \A u \in Targets \ {t} : page'[u] = page[u]
  BY PidsStay DEF Parts, Identity, identity, World, SameApp
<1>1. /\ page' \in [Targets -> Nat] /\ attached' \subseteq Targets
      /\ left' \subseteq Targets /\ paused' \subseteq Targets
  BY <1>0 DEF Parts, World
<1>2. World'
  <2>1. DeviceOf[t] \in Devices
    BY DEF Devices
  <2>2. front' \in [Devices -> Targets] /\ \A d \in Devices : DeviceOf[front'[d]] = d
    BY <2>1 DEF Parts, World
  <2> QED BY <1>1, <2>2 DEF World
<1>3. Registry'
  <2>1. \A u \in Targets \ (SameApp(t) \union {t}) : page'[u] = page[u] /\ (u \in attached => u \in attached')
    BY <1>0
  <2> QED BY <2>1, RegistryStands DEF Parts
<1>4. PassedHolds'
  <2> DEFINE ts == {u \in Targets : DeviceOf[u] = DeviceOf[t]}
  <2>1. ASSUME NEW e \in Conns, Good(e), e.target \notin ts
        PROVE  Good(e)'
    <3>1. e.target \in Targets /\ DeviceOf[e.target] # DeviceOf[t] /\ DeviceOf[e.target] \in Devices
      BY <2>1 DEF Conns, Devices
    <3>2. e.target \notin SameApp(t) \union {t} /\ e.target \in attached /\ e.target \notin paused
      BY <1>0, <2>1, <3>1 DEF Good, Answers
    <3>3. page'[e.target] = page[e.target] /\ e.target \in attached' /\ e.target \notin paused'
      BY <1>0, <3>1, <3>2
    <3>4. front'[DeviceOf[e.target]] = front[DeviceOf[e.target]]
      BY <3>1 DEF Parts, World
    <3> QED BY <2>1, <3>2, <3>3, <3>4 DEF Good, Answers
  <2>2. Fall(ts)
    OBVIOUS
  <2> HIDE DEF ts
  <2> QED BY <2>1, <2>2, PassedFall DEF Parts
<1> QED BY <1>0, <1>2, <1>3, <1>4, EventStep

LEMMA FrontKeeps ==
  ASSUME Parts, NEW t \in Targets, AppComesToFront(t)
  PROVE  Parts'
<1> USE DEF AppComesToFront, Happens
<1>1. Identity' /\ Registry' /\ PidsGrow
  BY PidsStay DEF Parts, Identity, identity, Registry, OnePerDevice, Registered
<1>2. World'
  <2>1. DeviceOf[t] \in Devices
    BY DEF Devices
  <2>2. front' \in [Devices -> Targets] /\ \A d \in Devices : DeviceOf[front'[d]] = d
    BY <2>1 DEF Parts, World
  <2> QED BY <2>2 DEF Parts, World
<1>3. PassedHolds'
  <2>1. ASSUME NEW e \in Conns, Good(e), e.target \notin {front[DeviceOf[t]]}
        PROVE  Good(e)'
    <3>1. front[DeviceOf[e.target]] = e.target /\ DeviceOf[e.target] # DeviceOf[t]
      BY <2>1 DEF Good, Answers
    <3>2. front'[DeviceOf[e.target]] = e.target
      BY <3>1 DEF Parts, World
    <3> QED BY <2>1, <3>2 DEF Good, Answers
  <2> QED BY <2>1, PassedFall DEF Parts
<1> QED BY <1>1, <1>2, <1>3, EventStep

LEMMA OpensKeeps ==
  ASSUME Parts, NEW t \in Targets, DialogOpens(t)
  PROVE  Parts'
<1> USE DEF DialogOpens, Happens
<1>1. Identity' /\ Registry' /\ World' /\ PidsGrow
  BY PidsStay DEF Parts, Identity, identity, Registry, OnePerDevice, Registered, World
<1>2. PassedHolds'
  <2>1. \A e \in Conns : Good(e) /\ e.target \notin {t} => Good(e)'
    BY DEF Good, Answers
  <2> QED BY <2>1, PassedFall DEF Parts
<1> QED BY <1>1, <1>2, EventStep

LEMMA ClosesKeeps ==
  ASSUME Parts, NEW t \in Targets, DialogCloses(t)
  PROVE  Parts'
<1> USE DEF DialogCloses, Happens
<1>1. Identity' /\ Registry' /\ World' /\ PidsGrow
  BY PidsStay DEF Parts, Identity, identity, Registry, OnePerDevice, Registered, World
<1>2. PassedHolds'
  <2>1. \A e : Good(e) => Good(e)'
    BY DEF Good, Answers
  <2> QED BY <2>1 DEF Parts, PassedHolds
<1> QED BY <1>1, <1>2, EventStep

LEMMA AppsStand ==
  ASSUME SameWorld, NEW p, NEW d
  PROVE  AppsAt(p, d)' = AppsAt(p, d) /\ ListedDevices(p)' = ListedDevices(p)
BY DEF SameWorld, AppsAt, RuntimesAt, ListedDevices

LEMMA CurrentStands ==
  ASSUME SameWorld, NEW p, NEW g, Current(p, g)
  PROVE  Current(p, g)'
BY AppsStand DEF SameWorld, Current

LEMMA HeldStands ==
  ASSUME SameWorld, registry' \subseteq registry, NEW p, FrontHeld(p)
  PROVE  FrontHeld(p)'
BY AppsStand DEF SameWorld, FrontHeld, Tried

LEMMA TriedStand ==
  ASSUME SameWorld, registry' \subseteq registry, AllTried
  PROVE  AllTried'
BY AppsStand DEF AllTried, Tried

LEMMA ServedStands ==
  ASSUME SameWorld, registry \subseteq registry', NEW p, Served(p)
  PROVE  Served(p)'
<1> SUFFICES ASSUME NEW d \in Devices, OnlyAt(d, p), Answers(front[d])', front'[d] \in AppsAt(p, d)'
             PROVE  Entry(p, front'[d], page'[front'[d]]) \in registry'
  BY DEF Served
<1>1. front' = front /\ page' = page
  BY DEF SameWorld
<1>2. Answers(front[d]) /\ front[d] \in AppsAt(p, d)
  BY <1>1, AppsStand DEF SameWorld, Answers
<1>3. Entry(p, front[d], page[front[d]]) \in registry
  BY <1>2 DEF Served
<1> QED BY <1>1, <1>3

LEMMA PurgeKeeps ==
  ASSUME Parts, NEW c \in Calls, Purge(c)
  PROVE  Parts'
<1>0. PICK x : x = [call[c] EXCEPT !.pc = "pids"]
  OBVIOUS
<1>1. /\ call[c].pc = "purge" /\ CallOK(call[c]) /\ c \in InFlight
      /\ SameWorld /\ UNCHANGED <<pid, stale, lone, identity>>
      /\ registry' = PurgeStaleConnectionsForPorts(call[c].groups)
  BY DEF Purge, Parts, CallsOK, InFlight, world, SameWorld
<1>2. call' = [call EXCEPT ![c] = x]
  BY <1>0 DEF Purge
<1>3. registry' \subseteq registry
  BY DEF Purge, PurgeStaleConnectionsForPorts
<1>4. World' /\ Registry'
  BY <1>1, <1>3, Fewer DEF Parts
<1>5. SuspectedForCause'
  BY <1>1, PidsStay, SuspicionStands DEF Parts
<1>6. x.pc = "pids" /\ x.groups = call[c].groups /\ x.at = call[c].at /\ Carried(x, call[c])
  BY <1>0, <1>1 DEF CallOK, CallFields, Carried
<1>7. CallOK(x)
  BY <1>1, <1>6 DEF CallOK, Under, Stages, Carried
<1>8. ASSUME lone = c
      PROVE  Undisturbed(x)'
  <2>1. Undisturbed(call[c])
    BY <1>8, ScanAssumption DEF Parts, Alone, NoCall
  <2>2. \A p \in DOMAIN x.groups : Current(p, x.groups[p]) /\ FrontHeld(p)
    BY <1>1, <1>6, <2>1 DEF Undisturbed, Stages
  <2>3. \A p \in DOMAIN x.groups : Current(p, x.groups[p])' /\ FrontHeld(p)'
    BY <1>1, <1>3, <2>2, CurrentStands, HeldStands
  <2>4. ASSUME NEW e \in registry'
        PROVE  Tried(e)'
    <3>1. Registered(e) /\ DeviceOf[e.target] \in ListedDevices(e.port) /\ e.port \in Ports
      BY <1>3, ListedThere DEF Parts, Registry, Registered, Conns
    <3>2. PICK p : p = e.port
      OBVIOUS
    <3>3. PICK g : g = x.groups[p]
      OBVIOUS
    <3>4. p \in DOMAIN x.groups /\ Group(p, g) /\ Current(p, g) /\ DOMAIN g # {}
      BY <1>1, <1>6, <2>2, <3>1, <3>2, <3>3 DEF CallOK, Stages, Current
    <3>5. PICK d \in DOMAIN g : g[d][1] = e
      BY <1>1, <1>6, <3>2, <3>3, <3>4 DEF PurgeStaleConnectionsForPorts
    <3>6. 1 \in DOMAIN g[d] /\ DeviceOf[g[d][1].target] = d
      BY <3>4 DEF Group, AppList
    <3>7. e.target \in AppsAt(p, DeviceOf[e.target])
      BY <3>4, <3>5, <3>6 DEF Current
    <3> QED BY <1>1, <3>2, <3>7, AppsStand DEF Tried
  <2> QED BY <1>6, <2>3, <2>4 DEF Undisturbed, Stages, AllTried
<1> QED BY <1>1, <1>2, <1>4, <1>5, <1>6, <1>7, <1>8, StillStep DEF Carried

\* The next port is looked at, or the next stage begins.
Onward(y, pc) == IF y.at = Cardinality(Ports) THEN [y EXCEPT !.at = 1, !.pc = pc]
                 ELSE [y EXCEPT !.at = y.at + 1]
IsOnward(x, y, pc) ==
    /\ x.groups = y.groups /\ Carried(x, y) /\ x.at \in Ports
    /\ \/ y.at = Cardinality(Ports) /\ x.pc = pc /\ x.at = 1
       \/ y.at # Cardinality(Ports) /\ x.pc = y.pc /\ x.at = y.at + 1

LEMMA AdvanceIs ==
  ASSUME CallsOK, NEW c \in Calls, NEW pc, NEW x, x = Onward(call[c], pc)
  PROVE  Advance(c, pc) = [call EXCEPT ![c] = x] /\ IsOnward(x, call[c], pc)
<1>0. x = IF call[c].at = Cardinality(Ports) THEN [call[c] EXCEPT !.at = 1, !.pc = pc]
          ELSE [call[c] EXCEPT !.at = call[c].at + 1]
  BY DEF Onward
<1>1. CallOK(call[c]) /\ call = [b \in Calls |-> call[b]] /\ DOMAIN call[c] = CallFields
  BY DEF CallsOK, CallOK
<1>2. /\ call[c].at \in Ports /\ Cardinality(Ports) \in Nat \ {0} /\ Ports = 1..Cardinality(Ports)
  BY <1>1, PortsAre DEF CallOK
<1>3. CASE call[c].at = Cardinality(Ports)
  <2>1. Advance(c, pc) = [call EXCEPT ![c] = x]
    BY <1>0, <1>1, <1>3 DEF Advance
  <2>2. x.groups = call[c].groups /\ x.pc = pc /\ x.at = 1
    BY <1>0, <1>1, <1>3 DEF CallFields
  <2>3. Carried(x, call[c])
    BY <1>0, <1>1, <1>3 DEF CallFields, Carried
  <2> QED BY <1>2, <1>3, <2>1, <2>2, <2>3 DEF IsOnward
<1>4. CASE call[c].at # Cardinality(Ports)
  <2>1. Advance(c, pc) = [call EXCEPT ![c] = x]
    BY <1>0, <1>1, <1>4 DEF Advance
  <2>2. x.groups = call[c].groups /\ x.pc = call[c].pc /\ x.at = call[c].at + 1
    BY <1>0, <1>1, <1>4 DEF CallFields
  <2>3. Carried(x, call[c])
    BY <1>0, <1>1, <1>4 DEF CallFields, Carried
  <2> QED BY <1>2, <1>4, <2>1, <2>2, <2>3 DEF IsOnward
<1> QED BY <1>3, <1>4

\* A port's process is looked at, or not: nothing that is listed or connected changes.
LEMMA PidsUndisturbed ==
  ASSUME Parts, NEW c \in Calls, call[c].pc = "pids", NEW x, x.groups = call[c].groups,
         \/ x.pc = "pids"
         \/ x.pc = "connect" /\ x.at = 1,
         SameWorld, registry' = registry, lone = c
  PROVE  Undisturbed(x)'
<1>1. Undisturbed(call[c])
  BY ScanAssumption DEF Parts, Alone, NoCall
<1>2. (\A p \in DOMAIN x.groups : Current(p, x.groups[p]) /\ FrontHeld(p)) /\ AllTried
  BY <1>1 DEF Undisturbed, Stages
<1>3. \A p \in DOMAIN x.groups : Current(p, x.groups[p])' /\ FrontHeld(p)'
  BY <1>2, CurrentStands, HeldStands
<1>4. AllTried'
  BY <1>2, TriedStand
<1>5. \A p \in Ports : ~(p < 1)
  BY PortsAre
<1> QED BY <1>3, <1>4, <1>5 DEF Undisturbed, Stages

LEMMA ReadPidKeeps ==
  ASSUME Parts, NEW c \in Calls, ReadListenerPid(c)
  PROVE  Parts'
<1>0. PICK x : x = [call[c] EXCEPT !.read = pid[call[c].at]]
  OBVIOUS
<1>1. /\ call[c].pc = "pids" /\ CallOK(call[c]) /\ c \in InFlight
      /\ SameWorld /\ UNCHANGED <<pid, stale, lone, registry, identity>>
  BY DEF ReadListenerPid, Parts, CallsOK, InFlight, world, SameWorld
<1>2. call' = [call EXCEPT ![c] = x]
  BY <1>0 DEF ReadListenerPid
<1>3. World' /\ Registry'
  BY <1>1, Fewer DEF Parts
<1>4. SuspectedForCause'
  BY <1>1, PidsStay, SuspicionStands DEF Parts
<1>5. /\ x.pc = "pids" /\ x.groups = call[c].groups /\ x.at = call[c].at /\ x.read = pid[x.at]
      /\ x.restarted = call[c].restarted /\ x.device = call[c].device /\ x.t = call[c].t
      /\ x.healthCheck = call[c].healthCheck /\ x.reconnected = call[c].reconnected
      /\ x.unhealthy = call[c].unhealthy
      /\ x.passed = call[c].passed /\ x.dialogs = call[c].dialogs /\ DOMAIN x = CallFields
  BY <1>0, <1>1 DEF CallOK, CallFields
<1>6. x.read \in Nat /\ x.read <= pid[x.at]
  BY <1>1, <1>5 DEF CallOK, Parts, Identity
<1>7. CallOK(x)
  BY <1>1, <1>5, <1>6 DEF CallOK, Under, Stages
<1>8. lone = c => Undisturbed(x)'
  BY <1>1, <1>5, PidsUndisturbed
<1> QED BY <1>1, <1>2, <1>3, <1>4, <1>5, <1>7, <1>8, StillStep

LEMMA UnreadableKeeps ==
  ASSUME Parts, NEW c \in Calls, PidUnreadable(c)
  PROVE  Parts'
<1>0. PICK x : x = Onward(call[c], "connect")
  OBVIOUS
<1>1. /\ call[c].pc = "pids" /\ call[c].read = 0 /\ CallOK(call[c]) /\ c \in InFlight
      /\ SameWorld /\ UNCHANGED <<pid, stale, lone, registry, identity>>
      /\ call' = Advance(c, "connect")
  BY DEF PidUnreadable, Parts, CallsOK, InFlight, world, SameWorld
<1>2. /\ call' = [call EXCEPT ![c] = x]
      /\ x.groups = call[c].groups /\ Carried(x, call[c]) /\ x.at \in Ports
      /\ \/ x.pc = "connect" /\ x.at = 1
         \/ x.pc = "pids"
  <2>1. call' = [call EXCEPT ![c] = x] /\ IsOnward(x, call[c], "connect")
    BY <1>0, <1>1, AdvanceIs DEF Parts
  <2> QED BY <1>1, <2>1 DEF IsOnward
<1>3. World' /\ Registry'
  BY <1>1, Fewer DEF Parts
<1>4. SuspectedForCause'
  BY <1>1, PidsStay, SuspicionStands DEF Parts
<1>5. x.read = 0 /\ x.read <= pid[x.at]
  BY <1>1, <1>2 DEF Carried, Parts, Identity
<1>6. CallOK(x)
  BY <1>1, <1>2, <1>5 DEF CallOK, Under, Stages, Carried
<1>7. lone = c => Undisturbed(x)'
  BY <1>1, <1>2, PidsUndisturbed
<1> QED BY <1>1, <1>2, <1>3, <1>4, <1>6, <1>7, StillStep DEF Carried

\* The process is noted: the call has to tell if it is another than was noted before.
LEMMA PidsKeep ==
  ASSUME Parts, NEW c \in Calls, MetroProcessChanged(c)
  PROVE  Parts'
<1>1. PICK p : p = call[c].at
  OBVIOUS
<1>2. PICK n : n = call[c].read
  OBVIOUS
<1> DEFINE new == IF Changed(p, n) THEN {<<p, n>>} ELSE {}
<1>3. PICK a : a = Onward(call[c], "connect")
  OBVIOUS
<1>4. PICK told : told = IF Changed(p, n) THEN call[c].restarted \union {<<p, n>>} ELSE call[c].restarted
  OBVIOUS
<1>5. PICK x : x = [a EXCEPT !.read = 0, !.restarted = told]
  OBVIOUS
<1>6. /\ call[c].pc = "pids" /\ n # 0 /\ CallOK(call[c]) /\ c \in InFlight
      /\ SameWorld /\ UNCHANGED <<pid, stale, lone, registry, said>>
      /\ metroPidByPort' = [metroPidByPort EXCEPT ![p] = n]
      /\ seenFirst' = [seenFirst EXCEPT ![p] = IF @ = 0 THEN n ELSE @]
      /\ call' = [Advance(c, "connect") EXCEPT ![c].read = 0,
                     ![c].restarted = IF Changed(p, n) THEN @ \union {<<p, n>>} ELSE @]
  BY <1>1, <1>2 DEF MetroProcessChanged, Parts, CallsOK, InFlight, world, SameWorld
<1>7. /\ Advance(c, "connect") = [call EXCEPT ![c] = a]
      /\ a.groups = call[c].groups /\ Carried(a, call[c]) /\ a.at \in Ports
      /\ \/ a.pc = "connect" /\ a.at = 1
         \/ a.pc = "pids"
  <2>1. Advance(c, "connect") = [call EXCEPT ![c] = a] /\ IsOnward(a, call[c], "connect")
    BY <1>3, AdvanceIs DEF Parts
  <2> QED BY <1>6, <2>1 DEF IsOnward
<1>8. call = [b \in Calls |-> call[b]]
  BY DEF Parts, CallsOK
<1>9. call' = [call EXCEPT ![c] = x]
  <2>1. PICK now : now = [call EXCEPT ![c] = a]
    OBVIOUS
  <2>2. now[c] = a /\ a.restarted = call[c].restarted
    BY <1>7, <1>8, <2>1 DEF Carried
  <2>3. call' = [now EXCEPT ![c].read = 0, ![c].restarted = told]
    BY <1>4, <1>6, <1>7, <2>1, <2>2
  <2>4. call' = [now EXCEPT ![c] = x]
    BY <1>5, <2>2, <2>3
  <2> QED BY <1>8, <2>1, <2>4
<1>10. /\ x.pc = a.pc /\ x.at = a.at /\ x.groups = call[c].groups /\ x.restarted = told /\ x.read = 0
       /\ x.device = call[c].device /\ x.t = call[c].t
       /\ x.healthCheck = call[c].healthCheck /\ x.reconnected = call[c].reconnected
       /\ x.unhealthy = call[c].unhealthy
       /\ x.passed = call[c].passed /\ x.dialogs = call[c].dialogs /\ DOMAIN x = CallFields
  BY <1>5, <1>7 DEF Carried, CallFields
<1>11. /\ p \in Ports /\ n \in Nat \ {0} /\ n <= pid[p]
       /\ pid[p] \in Nat \ {0} /\ metroPidByPort[p] \in Nat /\ seenFirst[p] \in Nat
       /\ metroPidByPort[p] <= pid[p] /\ (metroPidByPort[p] = 0 <=> seenFirst[p] = 0)
  BY <1>1, <1>2, <1>6 DEF CallOK, Parts, Identity
<1>12. /\ metroPidByPort'[p] = n /\ seenFirst'[p] = (IF seenFirst[p] = 0 THEN n ELSE seenFirst[p])
       /\ \A q \in Ports \ {p} : metroPidByPort'[q] = metroPidByPort[q] /\ seenFirst'[q] = seenFirst[q]
       /\ metroPidByPort' \in [Ports -> Nat] /\ seenFirst' \in [Ports -> Nat]
  BY <1>6, <1>11 DEF Parts, Identity
<1>13. Identity' /\ PidsGrow
  <2>1. \A q \in Ports : (metroPidByPort'[q] = 0 <=> seenFirst'[q] = 0) /\ metroPidByPort'[q] <= pid[q]
    BY <1>11, <1>12 DEF Parts, Identity
  <2> QED BY <1>6, <1>12, <2>1, PidsStay DEF Parts, Identity
<1>14. World' /\ Registry'
  BY <1>6, Fewer DEF Parts
<1>15. Changed(p, n) => pid[p] > 1
  BY <1>11 DEF Changed
<1>16. CallOK(x)
  <2>1. \A r \in told : Restarted(r)
    BY <1>4, <1>6, <1>11, <1>15 DEF CallOK, Restarted
  <2>2. 0 <= pid[x.at] /\ x.at \in Ports
    BY <1>7, <1>10 DEF Parts, Identity
  <2> QED BY <1>6, <1>7, <1>10, <2>1, <2>2 DEF CallOK, Under, Stages
<1>17. CallsOK' /\ call'[c] = x /\ \A b \in Calls \ {c} : call'[b] = call[b]
  <2>1. CallOK(x)'
    BY <1>13, <1>16, CallStands DEF Parts
  <2> QED BY <1>9, <1>13, <2>1, CallsChange DEF Parts
<1>18. c \in InFlight' /\ \A b \in InFlight \ {c} : b \in InFlight'
  BY <1>7, <1>10, <1>17 DEF InFlight
<1>19. RestartIsTold'
  <2> SUFFICES ASSUME NEW q \in Ports, metroPidByPort'[q] # seenFirst'[q]
               PROVE  \/ <<q, metroPidByPort'[q]>> \in said'
                      \/ \E b \in InFlight' : <<q, metroPidByPort'[q]>> \in call'[b].restarted
    BY DEF RestartIsTold
  <2>1. CASE q = p /\ Changed(p, n)
    BY <1>4, <1>10, <1>12, <1>17, <1>18, <2>1
  <2>2. CASE ~(q = p /\ Changed(p, n))
    <3>1. metroPidByPort'[q] = metroPidByPort[q] /\ seenFirst'[q] = seenFirst[q]
      BY <1>11, <1>12, <2>2 DEF Changed
    <3>2. \/ <<q, metroPidByPort[q]>> \in said
          \/ \E b \in InFlight : <<q, metroPidByPort[q]>> \in call[b].restarted
      BY <3>1 DEF Parts, RestartIsTold
    <3>3. \A b \in InFlight : b \in Calls /\ call[b].restarted \subseteq call'[b].restarted
      BY <1>4, <1>10, <1>17 DEF InFlight
    <3> QED BY <1>6, <1>18, <3>1, <3>2, <3>3
  <2> QED BY <2>1, <2>2
<1>20. SuspectedForCause' /\ PassedHolds'
  <2>1. \A b \in Calls : call'[b].passed = call[b].passed /\ call'[b].healthCheck = call[b].healthCheck
    BY <1>10, <1>17
  <2> QED BY <1>6, <1>13, <2>1, SuspicionStands, PassedStand DEF Parts
<1>21. Alone'
  <2>1. CASE lone = NoCall
    BY <1>6, <2>1 DEF Alone
  <2>2. CASE lone # NoCall
    <3>1. lone = c /\ InFlight \subseteq {c}
      BY <1>6, <2>2 DEF Parts, Alone
    <3>2. InFlight' \subseteq {c}
      BY <1>17, <3>1 DEF InFlight
    <3>3. Undisturbed(x)'
      BY <1>6, <1>7, <1>10, <3>1, PidsUndisturbed
    <3>4. PICK y : y = call'[c]
      OBVIOUS
    <3>5. Undisturbed(y)'
      BY <1>17, <3>3, <3>4
    <3>6. Undisturbed(call[lone])'
      BY <1>6, <3>1, <3>4, <3>5
    <3> QED BY <1>6, <3>1, <3>2, <3>6 DEF Alone
  <2> QED BY <2>1, <2>2
<1> QED BY <1>13, <1>14, <1>17, <1>19, <1>20, <1>21 DEF Parts

LEMMA EndedIs ==
  ASSUME Identity, NEW pc \in Ends, NEW x, x = [Idle EXCEPT !.pc = pc]
  PROVE  CallOK(x) /\ x.pc = pc /\ x.restarted = {} /\ x.passed = {}
<1>1. /\ x.pc = pc /\ x.at = 1 /\ x.groups = <<>> /\ x.restarted = {} /\ x.device = NoDevice
      /\ x.reconnected \in BOOLEAN /\ x.unhealthy \in BOOLEAN /\ x.healthCheck \in BOOLEAN
      /\ x.read = 0 /\ x.passed = {} /\ x.dialogs = {}
  BY DEF Idle
<1>2. DOMAIN x = CallFields
  BY DEF Idle, CallFields
<1>3. 1 \in Ports /\ 0 <= pid[1]
  BY PortsAre DEF Identity
<1>4. pc \in Ends \union Under /\ pc \notin Under
  BY DEF Ends, Under, Stages
<1> QED BY <1>1, <1>2, <1>3, <1>4 DEF CallOK, Under, Stages, Deviceless

LEMMA EndStep ==
  ASSUME Parts, NEW c \in InFlight, NEW pc \in {"reloaded", "failed"},
         call[c].pc \notin {"pids", "connect", "answer"},
         Ended(c, pc), lone' = lone, UNCHANGED identity, UNCHANGED pid, SameWorld,
         World', Registry', SuspectedForCause'
  PROVE  Parts'
<1>0. PICK x : x = [Idle EXCEPT !.pc = pc]
  OBVIOUS
<1>1. call' = [call EXCEPT ![c] = x]
  BY <1>0 DEF Ended
<1>2. pc \in Ends
  BY DEF Ends
<1>3. CallOK(x) /\ x.pc = pc /\ x.restarted = {} /\ x.passed = {}
  BY <1>0, <1>2, EndedIs DEF Parts
<1>4. call[c].restarted = {}
  BY DEF Parts, CallsOK, CallOK, InFlight
<1>5. Undisturbed(x)'
  BY <1>3 DEF Undisturbed, Stages
<1> QED BY <1>1, <1>3, <1>4, <1>5, StillStep

LEMMA AnswerScanKeeps ==
  ASSUME Parts, NEW c \in Calls, AnswerScan(c)
  PROVE  Parts'
<1>0. PICK x : x = [Idle EXCEPT !.pc = "scanned"]
  OBVIOUS
<1>1. /\ call[c].pc = "answer" /\ CallOK(call[c]) /\ c \in InFlight
      /\ SameWorld /\ UNCHANGED <<pid, stale, lone, registry, metroPidByPort, seenFirst>>
      /\ call' = [call EXCEPT ![c] = x] /\ said' = said \union call[c].restarted
  BY <1>0 DEF AnswerScan, Ended, SaidRestarted, Parts, CallsOK, InFlight, world, SameWorld
<1>2. CallOK(x) /\ x.pc = "scanned" /\ x.restarted = {} /\ x.passed = {}
  BY <1>0, EndedIs DEF Ends, Parts
<1>3. World' /\ Registry'
  BY <1>1, Fewer DEF Parts
<1>4. Identity' /\ SuspectedForCause' /\ PidsGrow
  BY <1>1, PidsStay DEF Parts, Identity, SuspectedForCause
<1>5. /\ call'[c] = x /\ \A b \in Calls \ {c} : call'[b] = call[b]
      /\ call' = [b \in Calls |-> call'[b]]
  BY <1>1 DEF Parts, CallsOK
<1>6. ASSUME NEW b \in Calls
      PROVE  CallOK(call[b])'
  <2>1. PICK y : y = call'[b]
    OBVIOUS
  <2>2. CallOK(y)
    BY <1>2, <1>5, <2>1 DEF Parts, CallsOK
  <2>3. CallOK(y)'
    BY <1>4, <2>2, CallStands DEF Parts
  <2> QED BY <2>1, <2>3
<1>7. CallsOK' /\ PassedHolds'
  <2>1. \A b \in Calls : call'[b].passed = {} \/ call'[b] = call[b]
    BY <1>2, <1>5
  <2>2. PassedHolds'
    BY <1>1, <2>1, PassedStand DEF Parts
  <2> QED BY <1>5, <1>6, <2>2 DEF CallsOK
<1>8. RestartIsTold'
  <2> SUFFICES ASSUME NEW p \in Ports, metroPidByPort[p] # seenFirst[p]
               PROVE  \/ <<p, metroPidByPort[p]>> \in said'
                      \/ \E b \in InFlight' : <<p, metroPidByPort[p]>> \in call'[b].restarted
    BY <1>1 DEF RestartIsTold
  <2>1. \/ <<p, metroPidByPort[p]>> \in said
        \/ \E b \in InFlight : <<p, metroPidByPort[p]>> \in call[b].restarted
    BY DEF Parts, RestartIsTold
  <2>2. CASE <<p, metroPidByPort[p]>> \in said \union call[c].restarted
    BY <1>1, <2>2
  <2>3. ASSUME NEW b \in InFlight \ {c}, <<p, metroPidByPort[p]>> \in call[b].restarted
        PROVE  b \in InFlight' /\ <<p, metroPidByPort[p]>> \in call'[b].restarted
    <3>1. b \in Calls \ {c}
      BY DEF InFlight
    <3> QED BY <1>5, <2>3, <3>1 DEF InFlight
  <2> QED BY <2>1, <2>2, <2>3
<1>9. Alone'
  <2>1. CASE lone = NoCall
    BY <1>1, <2>1 DEF Alone
  <2>2. CASE lone # NoCall
    <3>1. lone = c /\ InFlight \subseteq {c} /\ Undisturbed(call[c])
      BY <1>1, <2>2 DEF Parts, Alone
    <3>2. InFlight' \subseteq {c}
      BY <1>5, <3>1 DEF InFlight
    <3>3. \A p \in Ports : Served(p)
      BY <1>1, <3>1 DEF Undisturbed
    <3>4. \A p \in Ports : Served(p)'
      BY <1>1, <3>3, ServedStands
    <3>5. Undisturbed(x)'
      BY <1>2, <3>4 DEF Undisturbed, Stages
    <3>6. PICK y : y = call'[c]
      OBVIOUS
    <3>7. Undisturbed(y)'
      BY <1>5, <3>5, <3>6
    <3>8. Undisturbed(call[lone])'
      BY <1>1, <3>1, <3>6, <3>7
    <3> QED BY <1>1, <3>1, <3>2, <3>8 DEF Alone
  <2> QED BY <2>1, <2>2
<1> QED BY <1>3, <1>4, <1>7, <1>8, <1>9 DEF Parts

LEMMA BeginReloadKeeps ==
  ASSUME Parts, NEW c \in Calls, NEW d \in Deviceless, BeginReload(c, d)
  PROVE  Parts'
<1>1. PICK e \in registry : BeginWith(c, "reload", d, e.target, FALSE)
  BY DEF BeginReload, Begin
<1>2. SameWorld /\ UNCHANGED <<pid, registry, stale, identity>>
  BY DEF BeginReload, world, SameWorld
<1>3. e.target \in Targets
  BY DEF Parts, Registry, Registered, Conns
<1>4. Registry'
  BY <1>2, Fewer DEF Parts
<1> QED BY <1>1, <1>2, <1>3, <1>4, BeginStep DEF Starts

LEMMA ReloadKeeps ==
  ASSUME Parts, NEW c \in Calls, NEW takes \in BOOLEAN, Reload(c, takes)
  PROVE  Parts'
<1> DEFINE t == call[c].t
<1>0. PICK x : x = [call[c] EXCEPT !.pc = "reconnect"]
  OBVIOUS
<1>1. /\ call[c].pc = "reload" /\ CallOK(call[c]) /\ c \in InFlight
      /\ UNCHANGED <<pid, attached, left, front, paused, stale, lone, identity>>
      /\ page' = (IF takes THEN [page EXCEPT ![t] = @ + 1] ELSE page)
      /\ registry' = Without({t})
  BY DEF Reload, Parts, CallsOK, InFlight
<1>2. call' = [call EXCEPT ![c] = x]
  BY <1>0 DEF Reload
<1>3. t \in Targets
  BY <1>1 DEF CallOK
<1> HIDE DEF t
<1>4. page' \in [Targets -> Nat] /\ \A u \in Targets \ {t} : page'[u] = page[u]
  BY <1>1, <1>3 DEF Parts, World
<1>5. World'
  BY <1>1, <1>4 DEF Parts, World
<1>6. Registry'
  BY <1>1, <1>4, RegistryStands DEF Parts
<1>7. SuspectedForCause'
  BY <1>1, PidsStay, SuspicionStands DEF Parts
<1>8. x.pc = "reconnect" /\ x.groups = call[c].groups /\ x.at = call[c].at /\ Carried(x, call[c])
  BY <1>0, <1>1 DEF CallOK, CallFields, Carried
<1>9. CallOK(x)
  BY <1>1, <1>8 DEF CallOK, Under, Stages, Carried
<1>10. Undisturbed(x)'
  BY <1>8 DEF Undisturbed, Stages
<1>11. \A b \in Calls : call'[b].passed = call[b].passed /\ call'[b].healthCheck = call[b].healthCheck
  <2>1. \A b \in Calls : call'[b] = IF b = c THEN x ELSE call[b]
    BY <1>2 DEF Parts, CallsOK
  <2> QED BY <1>8, <2>1 DEF Carried
<1>12. PassedHolds'
  <2>1. CASE takes
    <3>1. Fall({t})
      BY <2>1 DEF Reload, t
    <3>2. \A e \in Conns : Good(e) /\ e.target \notin {t} => Good(e)'
      BY <1>1, <1>4 DEF Good, Answers, Conns
    <3> QED BY <1>11, <3>1, <3>2, PassedFall DEF Parts
  <2>2. CASE ~takes
    <3>1. SameWorld
      BY <1>1, <2>2 DEF SameWorld, Reload
    <3> QED BY <1>11, <3>1, PassedStand DEF Parts
  <2> QED BY <2>1, <2>2
<1> QED BY <1>1, <1>2, <1>5, <1>6, <1>7, <1>8, <1>9, <1>10, <1>12, CallStep DEF Carried

LEMMA ReloadAppKeeps ==
  ASSUME Parts, NEW c \in Calls, ReloadApp(c)
  PROVE  Parts'
<1> DEFINE t == call[c].t
<1>1. /\ call[c].pc = "reconnect" /\ CallOK(call[c]) /\ c \in InFlight
      /\ SameWorld /\ UNCHANGED <<pid, lone, identity>> /\ Ended(c, "reloaded")
      /\ stale' = ClearBundleStale(call[c].device)
  BY DEF ReloadApp, Parts, CallsOK, InFlight, world, SameWorld
<1>2. PICK p \in Ports : /\ t \in Lists[p]
                         /\ registry' = (IF Outcome(registry, Entry(p, t, page[t])) = "connected"
                                         THEN registry \union {Entry(p, t, page[t])} ELSE registry)
  BY DEF ReloadApp
<1>3. t \in Targets
  BY <1>1 DEF CallOK
<1>4. World' /\ Registry'
  <2>1. CASE registry' = registry
    BY <1>1, <2>1, Fewer DEF Parts
  <2>2. CASE Outcome(registry, Entry(p, t, page[t])) = "connected"
    <3>1. PICK e : e = Entry(p, t, page[t])
      OBVIOUS
    <3>2. e \in Conns /\ e.target \in Lists[e.port]
      BY <1>2, <1>3, <3>1 DEF Entry, Conns, Parts, World
    <3>3. registry' = registry \union {e} /\ Outcome(registry, e) = "connected"
      BY <1>2, <2>2, <3>1
    <3> QED BY <1>1, <3>2, <3>3, OneMore DEF Parts
  <2> QED BY <1>2, <2>1, <2>2
<1>5. SuspectedForCause'
  BY <1>1, PidsStay, SuspicionStands DEF Parts, ClearBundleStale
<1> QED BY <1>1, <1>4, <1>5, EndStep

LEMMA BeginEnsureKeeps ==
  ASSUME Parts, NEW c \in Calls, NEW b \in BOOLEAN, NEW h \in BOOLEAN, BeginEnsure(c, b, h)
  PROVE  Parts'
<1>1. /\ BeginWith(c, "ensure", NoDevice, 0, h) /\ SameWorld /\ UNCHANGED <<pid, stale, identity>>
      /\ registry' \subseteq registry
  BY DEF BeginEnsure, world, SameWorld
<1>2. Registry'
  BY <1>1, Fewer DEF Parts
<1> QED BY <1>1, <1>2, BeginStep DEF Starts, Deviceless

LEMMA DisconnectKeeps ==
  ASSUME Parts, NEW c \in Calls, NEW d \in Deviceless, DisconnectMetro(c, d)
  PROVE  Parts'
<1>1. /\ BeginWith(c, "disconnected", NoDevice, 0, FALSE) /\ SameWorld /\ UNCHANGED <<pid, stale, identity>>
      /\ registry' \subseteq registry
  BY DEF DisconnectMetro, Begin, world, SameWorld
<1>2. Registry'
  BY <1>1, Fewer DEF Parts
<1> QED BY <1>1, <1>2, BeginStep DEF Starts, Deviceless

LEMMA BeginScanKeeps ==
  ASSUME Parts, NEW c \in Calls, BeginScan(c)
  PROVE  Parts'
<1>1. /\ BeginWith(c, "list", NoDevice, 0, FALSE) /\ SameWorld /\ UNCHANGED <<pid, stale, identity>>
      /\ registry' \subseteq registry
  BY DEF BeginScan, Begin, world, SameWorld
<1>2. Registry'
  BY <1>1, Fewer DEF Parts
<1> QED BY <1>1, <1>2, BeginStep DEF Starts, Deviceless

LEMMA RegistryFinite ==
  ASSUME Registry
  PROVE  IsFiniteSet(registry) /\ registry \subseteq Conns
<1> DEFINE T == Ports \X Targets
           f == [e \in registry |-> <<e.port, e.target>>]
<1>1. IsFiniteSet(T)
  BY ScanAssumption, FS_Product
<1>2. registry \subseteq Conns
  BY DEF Registry, Registered
<1>3. f \in [registry -> T]
  BY <1>2 DEF Conns
<1>4. ASSUME NEW e \in registry, NEW g \in registry, f[e] = f[g]
      PROVE  e = g
  <2>1. e.port = g.port /\ e.target = g.target
    BY <1>4
  <2> QED BY <2>1, ListedThere DEF Registry
<1> HIDE DEF f, T
<1>5. f \in Injection(registry, T)
  <2>1. DOMAIN f = registry
    BY <1>3
  <2> QED BY <1>3, <1>4, <2>1 DEF Injection, IsInjective
<1> QED BY <1>1, <1>2, <1>5, FS_Injection

LEMMA EstablishKeeps ==
  ASSUME Parts, NEW c \in Calls, NEW p \in Ports, Establish(c, p)
  PROVE  Parts'
<1>1. PICK e : e = Main(p)
  OBVIOUS
<1>2. /\ call[c].pc = "ensure" /\ CallOK(call[c]) /\ c \in InFlight
      /\ SameWorld /\ UNCHANGED <<pid, stale, lone, identity>> /\ registry = {}
      /\ Lists[p] \intersect attached # {} /\ Outcome(registry, e) = "connected" /\ registry' = {e}
      /\ call' = [call EXCEPT ![c].pc = "check", ![c].groups = <<e>>, ![c].reconnected = TRUE]
  BY <1>1 DEF Establish, Parts, CallsOK, InFlight, world, SameWorld
<1>3. SuspectedForCause'
  BY <1>2, PidsStay, SuspicionStands DEF Parts
<1>4. PICK x : x = [call[c] EXCEPT !.pc = "check", !.groups = <<e>>, !.reconnected = TRUE]
  OBVIOUS
<1>5. call' = [call EXCEPT ![c] = x]
  BY <1>2, <1>4
<1>6. e \in Conns /\ e.target \in Lists[e.port]
  BY <1>1, <1>2, MainIs DEF Parts
<1>7. World' /\ Registry'
  <2>1. registry' = {} \union {e} /\ {} \subseteq registry /\ Outcome({}, e) = "connected"
    BY <1>2
  <2> QED BY <1>2, <1>6, <2>1, OneMore DEF Parts
<1>8. /\ x.pc = "check" /\ x.groups = <<e>> /\ x.restarted = call[c].restarted /\ x.at = call[c].at
      /\ x.device = call[c].device /\ x.t = call[c].t /\ x.reconnected = TRUE /\ x.read = call[c].read
      /\ x.healthCheck = call[c].healthCheck /\ x.passed = call[c].passed /\ x.dialogs = call[c].dialogs
      /\ x.unhealthy = call[c].unhealthy /\ DOMAIN x = CallFields
  BY <1>2, <1>4 DEF CallOK, CallFields
<1>9. CallOK(x)
  <2>1. <<e>> \in Seq(Conns) /\ \A i \in DOMAIN <<e>> : <<e>>[i] = e
    BY <1>6
  <2>2. x.groups \in Seq(Conns) /\ \A i \in DOMAIN x.groups : x.groups[i].target \in Lists[x.groups[i].port]
    BY <1>6, <1>8, <2>1
  <2> QED BY <1>2, <1>8, <2>2 DEF CallOK, Under, Stages
<1>10. Undisturbed(x)'
  <2>1. 1 \in DOMAIN <<e>> /\ <<e>>[1] = e
    OBVIOUS
  <2>2. Waiting(x, e)
    BY <1>8, <2>1 DEF Waiting
  <2>3. \A a \in registry' : Waiting(x, a)
    BY <1>2, <2>2
  <2>4. x.pc = "check"
    BY <1>8
  <2> HIDE DEF Waiting
  <2> QED BY <2>3, <2>4 DEF Undisturbed, Stages, Waiting
<1> QED BY <1>2, <1>3, <1>5, <1>7, <1>8, <1>9, <1>10, StillStep

LEMMA NotEstablishedKeeps ==
  ASSUME Parts, NEW c \in Calls, NotEstablished(c)
  PROVE  Parts'
<1>1. /\ call[c].pc = "ensure" /\ c \in InFlight /\ Ended(c, "failed")
      /\ SameWorld /\ UNCHANGED <<pid, stale, lone, registry, identity>>
  BY DEF NotEstablished, InFlight, world, SameWorld
<1>2. World' /\ Registry' /\ SuspectedForCause'
  BY <1>1, Fewer, PidsStay, SuspicionStands DEF Parts
<1> QED BY <1>1, <1>2, EndStep

LEMMA OpenAppsKeep ==
  ASSUME Parts, NEW c \in Calls, WithOpenApps(c)
  PROVE  Parts'
<1>0. PICK x : x = [call[c] EXCEPT !.pc = "check", !.groups = SetToSeq(registry)]
  OBVIOUS
<1>1. /\ call[c].pc = "ensure" /\ CallOK(call[c]) /\ c \in InFlight
      /\ SameWorld /\ UNCHANGED <<pid, stale, lone, registry, identity>>
  BY DEF WithOpenApps, Parts, CallsOK, InFlight, world, SameWorld
<1>2. call' = [call EXCEPT ![c] = x]
  BY <1>0 DEF WithOpenApps
<1>3. World' /\ Registry'
  BY <1>1, Fewer DEF Parts
<1>4. SuspectedForCause'
  BY <1>1, PidsStay, SuspicionStands DEF Parts
<1>5. x.pc = "check" /\ x.groups = SetToSeq(registry) /\ x.at = call[c].at /\ Carried(x, call[c])
  BY <1>0, <1>1 DEF CallOK, CallFields, Carried
<1>6. /\ x.groups \in Seq(Conns) /\ \A e \in registry : \E i \in DOMAIN x.groups : x.groups[i] = e
      /\ \A i \in DOMAIN x.groups : x.groups[i].target \in Lists[x.groups[i].port]
  <2>1. IsFiniteSet(registry) /\ registry \subseteq Conns
    BY RegistryFinite DEF Parts
  <2>2. SetToSeq(registry) \in Seq(registry)
    BY <2>1, SetListed
  <2>3. SetToSeq(registry) \in Seq(Conns)
    BY <2>1, <2>2
  <2>4. \A i \in DOMAIN SetToSeq(registry) : SetToSeq(registry)[i] \in registry
    BY <2>2
  <2>5. \A e \in registry : e.target \in Lists[e.port]
    BY DEF Parts, Registry, Registered
  <2> QED BY <1>5, <2>1, <2>3, <2>4, <2>5, SetListed
<1>7. CallOK(x)
  BY <1>1, <1>5, <1>6 DEF CallOK, Under, Stages, Carried
<1>8. Undisturbed(x)'
  BY <1>1, <1>5, <1>6 DEF Undisturbed, Stages, Waiting
<1> QED BY <1>1, <1>2, <1>3, <1>4, <1>5, <1>7, <1>8, StillStep DEF Carried

LEMMA ReportedStands ==
  ASSUME SameWorld, NEW x, NEW e
  PROVE  Reported(x, e)' <=> Reported(x, e)
BY DEF SameWorld, Reported, Answers

LEMMA AnswerEnsureKeeps ==
  ASSUME Parts, NEW c \in Calls, AnswerEnsure(c)
  PROVE  Parts'
<1>1. /\ call[c].pc = "check" /\ call[c].groups = <<>> /\ CallOK(call[c]) /\ c \in InFlight
      /\ SameWorld /\ UNCHANGED <<pid, stale, lone, registry, identity>>
  BY DEF AnswerEnsure, Parts, CallsOK, InFlight, world, SameWorld
<1>2. \/ Ended(c, "failed")
      \/ ~call[c].unhealthy /\ call' = [call EXCEPT ![c].pc = "ensured"]
  BY DEF AnswerEnsure
<1>3. World' /\ Registry' /\ SuspectedForCause'
  BY <1>1, Fewer, PidsStay, SuspicionStands DEF Parts
<1>4. CASE Ended(c, "failed")
  BY <1>1, <1>3, <1>4, EndStep
<1>5. CASE ~call[c].unhealthy /\ call' = [call EXCEPT ![c].pc = "ensured"]
  <2>0. PICK x : x = [call[c] EXCEPT !.pc = "ensured"]
    OBVIOUS
  <2>1. call' = [call EXCEPT ![c] = x]
    BY <1>5, <2>0
  <2>2. x.pc = "ensured" /\ x.groups = call[c].groups /\ x.at = call[c].at /\ Carried(x, call[c])
    BY <1>1, <2>0 DEF CallOK, CallFields, Carried
  <2>3. CallOK(x)
    <3>1. call[c].restarted = {} /\ call[c].at = 1 /\ call[c].read = 0
      BY <1>1 DEF CallOK
    <3> QED BY <1>1, <2>2, <3>1 DEF CallOK, Ends, Under, Stages, Carried
  <2>4. ASSUME lone = c, NEW e \in registry'
        PROVE  Reported(x, e)'
    <3>1. Undisturbed(call[c])
      BY <2>4, ScanAssumption DEF Parts, Alone, NoCall
    <3>2. ~Waiting(call[c], e)
      BY <1>1 DEF Waiting
    <3>3. Reported(call[c], e)
      BY <1>1, <1>5, <2>4, <3>1, <3>2 DEF Undisturbed
    <3>4. Reported(x, e)
      BY <2>2, <3>3 DEF Reported, Carried
    <3> QED BY <1>1, <3>4, ReportedStands
  <2>5. lone = c => Undisturbed(x)'
    BY <2>2, <2>4 DEF Undisturbed, Stages
  <2> QED BY <1>1, <1>3, <2>1, <2>2, <2>3, <2>5, StillStep DEF Carried
<1> QED BY <1>2, <1>4, <1>5

\* One connection more on each of some devices that had none.
LEMMA ManyMore ==
  ASSUME World, Registry, NEW D, NEW f,
         \A d \in D : /\ f[d] \in Conns /\ f[d].target \in Lists[f[d].port] /\ DeviceOf[f[d].target] = d
                      /\ Outcome(registry, f[d]) = "connected",
         registry' = registry \union {f[d] : d \in D}, SameWorld
  PROVE  World' /\ Registry'
<1>1. ASSUME NEW d \in D
      PROVE  /\ \A e \in registry : DeviceOf[e.target] # d
             /\ Registered(f[d])
  <2>1. PICK e : e = f[d]
    OBVIOUS
  <2>2. e \in Conns /\ e.target \in Lists[e.port] /\ DeviceOf[e.target] = d /\ Outcome(registry, e) = "connected"
    BY <2>1
  <2>3. Registered(e) /\ \A g \in registry : DeviceOf[g.target] # d
    BY <2>2, OutcomeIs DEF Registered
  <2> QED BY <2>1, <2>3
<1>2. \A e \in registry' : Registered(e)
  BY <1>1 DEF Registry
<1>3. OnePerDevice'
  <2> SUFFICES ASSUME NEW e \in registry', NEW g \in registry', DeviceOf[e.target] = DeviceOf[g.target]
               PROVE  e = g
    BY DEF OnePerDevice
  <2>1. e \in registry \/ \E d \in D : e = f[d] /\ DeviceOf[e.target] = d
    OBVIOUS
  <2>2. g \in registry \/ \E d \in D : g = f[d] /\ DeviceOf[g.target] = d
    OBVIOUS
  <2> QED BY <1>1, <2>1, <2>2 DEF Registry, OnePerDevice
<1>4. \A e \in registry' : Registered(e)'
  BY <1>2 DEF Registered, SameWorld
<1>5. World'
  BY DEF World, SameWorld
<1> QED BY <1>3, <1>4, <1>5 DEF Registry

LEMMA ConnectMetroKeeps ==
  ASSUME Parts, NEW c \in Calls, NEW p \in Ports, NEW d \in Deviceless, ConnectMetro(c, p, d)
  PROVE  Parts'
<1> DEFINE devices == IF d = NoDevice THEN ListedDevices(p) ELSE ListedDevices(p) \intersect {d}
           all(x) == InOrder(RuntimesAt(p, x))
           apps == [x \in devices |-> [i \in DOMAIN all(x) |-> Entry(p, all(x)[i], page[all(x)[i]])]]
           Try(x) == apps[x][Chosen(registry, apps[x])]
           D == {y \in devices : Outcome(registry, Try(y)) = "connected"}
<1>1. /\ BeginWith(c, "connected", NoDevice, 0, FALSE) /\ SameWorld /\ UNCHANGED <<pid, stale, identity>>
      /\ registry' = registry \union {Try(x) : x \in D}
  BY DEF ConnectMetro, Begin, world, SameWorld
<1>2. ASSUME NEW x \in devices
      PROVE  Try(x) \in Conns /\ Try(x).target \in Lists[Try(x).port] /\ DeviceOf[Try(x).target] = x
  <2>1. x \in ListedDevices(p)
    BY DEF devices
  <2> DEFINE s == all(x)
  <2>2. s \in Seq(RuntimesAt(p, x)) /\ s # <<>>
    BY <2>1, RuntimesAre, OrderedAre DEF Parts
  <2>3. apps[x] = [i \in DOMAIN s |-> Entry(p, s[i], page[s[i]])]
    OBVIOUS
  <2>4. \A t \in RuntimesAt(p, x) : t \in Targets /\ t \in Lists[p] /\ DeviceOf[t] = x
    BY DEF RuntimesAt, Parts, World
  <2> HIDE DEF s, apps
  <2>5. ASSUME NEW i \in DOMAIN s
        PROVE  /\ apps[x][i] \in Conns /\ apps[x][i].target \in Lists[apps[x][i].port]
               /\ DeviceOf[apps[x][i].target] = x
    <3>1. s[i] \in RuntimesAt(p, x)
      BY <2>2, <2>5
    <3>2. PICK e : e = Entry(p, s[i], page[s[i]])
      OBVIOUS
    <3>3. e \in Conns /\ e.target \in Lists[e.port] /\ DeviceOf[e.target] = x
      BY <2>4, <3>1, <3>2 DEF Entry, Conns, Parts, World
    <3>4. apps[x][i] = e
      BY <2>3, <2>5, <3>2
    <3> QED BY <3>3, <3>4
  <2>6. DOMAIN apps[x] = DOMAIN s /\ DOMAIN s = 1..Len(s) /\ Len(s) \in Nat \ {0}
    BY <2>2, <2>3
  <2>7. apps[x] \in [1..Len(s) -> Conns]
    <3>1. apps[x] = [i \in 1..Len(s) |-> apps[x][i]]
      BY <2>3, <2>6
    <3> QED BY <2>5, <2>6, <3>1
  <2>8. apps[x] \in Seq(Conns) /\ apps[x] # <<>>
    BY <2>6, <2>7
  <2>9. Chosen(registry, apps[x]) \in DOMAIN apps[x]
    BY <2>8, ChosenIs
  <2> QED BY <2>5, <2>6, <2>9
<1> HIDE DEF apps, devices
<1>3. PICK f : f = [x \in D |-> Try(x)]
  OBVIOUS
<1>4. \A x \in D : f[x] = Try(x)
  BY <1>3
<1>5. registry' = registry \union {f[x] : x \in D}
  BY <1>1, <1>4
<1>6. \A x \in D : /\ f[x] \in Conns /\ f[x].target \in Lists[f[x].port] /\ DeviceOf[f[x].target] = x
                   /\ Outcome(registry, f[x]) = "connected"
  <2> HIDE DEF Try
  <2> QED BY <1>2, <1>4
<1> HIDE DEF D
<1> HIDE DEF Try
<1>7. Registry'
  <2>1. World /\ Registry
    BY DEF Parts
  <2> QED BY <1>1, <1>5, <1>6, <2>1, ManyMore
<1>8. "connected" \in Starts /\ NoDevice \in Deviceless /\ FALSE \in BOOLEAN
  BY DEF Starts, Deviceless
<1> QED BY <1>1, <1>7, <1>8, BeginStep

\* The rest of what is to be checked.
LEMMA RestIs ==
  ASSUME NEW gs \in Seq(Conns), gs # <<>>
  PROVE  /\ Head(gs) \in Conns /\ Tail(gs) \in Seq(Conns)
         /\ \A i \in DOMAIN gs : gs[i] = Head(gs) \/ \E k \in DOMAIN Tail(gs) : Tail(gs)[k] = gs[i]
<1>1. /\ Head(gs) \in Conns /\ Head(gs) = gs[1] /\ Tail(gs) \in Seq(Conns)
      /\ Len(gs) \in Nat \ {0} /\ DOMAIN gs = 1..Len(gs) /\ DOMAIN Tail(gs) = 1..Len(gs) - 1
      /\ \A k \in 1..Len(gs) - 1 : Tail(gs)[k] = gs[k + 1]
  OBVIOUS
<1>2. ASSUME NEW i \in 1..Len(gs), i # 1
      PROVE  i - 1 \in 1..Len(gs) - 1 /\ Tail(gs)[i - 1] = gs[i]
  <2>1. i - 1 \in 1..Len(gs) - 1 /\ (i - 1) + 1 = i
    BY <1>1, <1>2
  <2> QED BY <1>1, <2>1
<1> QED BY <1>1, <1>2

\* What a check leaves: the apps that passed answer, and what is connected has
\* passed, is another, or did not pass.
CheckLeaves(c, e, r, passed) ==
    /\ \A x \in passed : call[c].healthCheck => x \in r /\ Answers(x.target)
    /\ \A x \in r : \/ x \in registry \ {e}
                   \/ x \in passed
                   \/ passed = {}

LEMMA CheckedIs ==
  ASSUME World, Registry, NEW c \in Calls, NEW e \in Conns, e.target \in Lists[e.port],
         NEW refused \in BOOLEAN, NEW ck, ck = Checked(c, e, refused),
         registry' = ck.registry, SameWorld
  PROVE  /\ World' /\ Registry' /\ ck.passed \subseteq Conns /\ ck.anew \in BOOLEAN
         /\ CheckLeaves(c, e, ck.registry, ck.passed)
<1> DEFINE retry == ~ Healthy(registry, e) /\ ~ call[c].reconnected
           without == registry \ {e}
           dialled == IF refused THEN {} ELSE PickReconnectTarget(e)
           now == without \union {d \in dialled : Outcome(without, d) = "connected"}
           ok == {x \in now : Healthy(now, x) /\ \E d \in dialled : <<d.target, d.page>> = <<x.target, x.page>>}
<1>1. ck = (IF ~ call[c].healthCheck THEN [registry |-> registry, passed |-> {e}, anew |-> FALSE]
            ELSE IF ~ retry
            THEN [registry |-> registry, passed |-> {x \in {e} : Healthy(registry, x)}, anew |-> FALSE]
            ELSE [registry |-> now, anew |-> dialled # {}, passed |-> ok])
  BY DEF Checked
<1>2. registry \subseteq Conns
  BY DEF Registry, Registered
<1>3. CASE ~ call[c].healthCheck
  <2>1. ck.registry = registry /\ ck.passed = {e} /\ ck.anew = FALSE
    BY <1>1, <1>3
  <2>2. World' /\ Registry'
    BY <2>1, Fewer
  <2> QED BY <1>3, <2>1, <2>2 DEF CheckLeaves
<1>4. CASE call[c].healthCheck /\ ~ retry
  <2>1. ck.registry = registry /\ ck.passed = {x \in {e} : Healthy(registry, x)} /\ ck.anew = FALSE
    BY <1>1, <1>4
  <2>2. World' /\ Registry'
    BY <2>1, Fewer
  <2>3. CheckLeaves(c, e, registry, ck.passed)
    BY <2>1 DEF CheckLeaves, Healthy
  <2> QED BY <2>1, <2>2, <2>3
<1>5. CASE call[c].healthCheck /\ retry
  <2> HIDE DEF retry
  <2>1. ck.registry = now /\ ck.passed = ok /\ ck.anew = (dialled # {})
    BY <1>1, <1>5
  <2>2. \A d \in dialled : d \in Conns /\ d.target \in Lists[d.port]
    <3>1. e.port \in Ports
      BY DEF Conns
    <3> QED BY <3>1, MainIs DEF PickReconnectTarget
  <2>3. \A d, b \in dialled : d = b
    BY DEF PickReconnectTarget
  <2> HIDE DEF dialled
  <2>4. World' /\ Registry'
    <3>1. CASE \E d \in dialled : Outcome(without, d) = "connected"
      <4>1. PICK d \in dialled : Outcome(without, d) = "connected"
        BY <3>1
      <4>2. now = without \union {d}
        BY <2>3, <4>1
      <4>3. d \in Conns /\ d.target \in Lists[d.port] /\ without \subseteq registry
        BY <2>2
      <4>4. registry' = without \union {d}
        BY <2>1, <4>2
      <4> HIDE DEF without, now
      <4> QED BY <4>1, <4>3, <4>4, OneMore
    <3>2. CASE ~ \E d \in dialled : Outcome(without, d) = "connected"
      <4>1. now = without
        BY <3>2
      <4> QED BY <2>1, <4>1, Fewer
    <3> QED BY <3>1, <3>2
  <2>5. \A x \in ok : x \in now /\ Answers(x.target)
    BY DEF Healthy
  <2>6. ASSUME NEW x \in now, x \notin registry \ {e}
        PROVE  x \in ok
    <3>1. x \in dialled /\ Outcome(without, x) = "connected"
      BY <2>6
    <3>2. Answers(x.target)
      BY <3>1, OutcomeIs
    <3> QED BY <3>1, <3>2 DEF Healthy
  <2>7. CheckLeaves(c, e, now, ok)
    <3> HIDE DEF now, ok
    <3> QED BY <2>5, <2>6 DEF CheckLeaves
  <2>8. now \subseteq Conns /\ ok \subseteq now
    BY <1>2, <2>2
  <2> QED BY <2>1, <2>4, <2>7, <2>8
<1> QED BY <1>3, <1>4, <1>5

\* A call's app that was to be checked comes from the registry, and is listed there.
LEMMA CheckOneKeeps ==
  ASSUME Parts, NEW c \in Calls, NEW refused \in BOOLEAN, CheckOne(c, refused)
  PROVE  Parts'
<1>1. PICK e : e = Head(call[c].groups)
  OBVIOUS
<1>2. PICK ck : ck = Checked(c, e, refused)
  OBVIOUS
<1>3. PICK x : x = [call[c] EXCEPT !.groups = Tail(@), !.reconnected = @ \/ ck.anew,
                       !.passed = @ \union ck.passed, !.unhealthy = @ \/ ck.passed = {}]
  OBVIOUS
<1>4. /\ call[c].pc = "check" /\ CallOK(call[c]) /\ c \in InFlight /\ call[c].groups # <<>>
      /\ SameWorld /\ UNCHANGED <<pid, stale, lone, identity>> /\ registry' = ck.registry
  BY <1>1, <1>2 DEF CheckOne, Parts, CallsOK, InFlight, world, SameWorld
<1>5. call' = [call EXCEPT ![c] = x]
  BY <1>1, <1>2, <1>3 DEF CheckOne
<1>6. call[c].groups \in Seq(Conns) /\ \A i \in DOMAIN call[c].groups :
          call[c].groups[i].target \in Lists[call[c].groups[i].port]
  BY <1>4 DEF CallOK
<1>7. /\ e \in Conns /\ e.target \in Lists[e.port] /\ Tail(call[c].groups) \in Seq(Conns)
      /\ \A i \in DOMAIN call[c].groups :
            call[c].groups[i] = e \/ \E k \in DOMAIN Tail(call[c].groups) : Tail(call[c].groups)[k] = call[c].groups[i]
      /\ \A i \in DOMAIN Tail(call[c].groups) :
            Tail(call[c].groups)[i].target \in Lists[Tail(call[c].groups)[i].port]
  <2>1. PICK gs : gs = call[c].groups
    OBVIOUS
  <2>2. gs \in Seq(Conns) /\ gs # <<>> /\ e = Head(gs) /\ \A i \in DOMAIN gs : gs[i].target \in Lists[gs[i].port]
    BY <1>1, <1>4, <1>6, <2>1
  <2>3. /\ Len(gs) \in Nat \ {0} /\ DOMAIN gs = 1..Len(gs) /\ DOMAIN Tail(gs) = 1..Len(gs) - 1
        /\ e = gs[1] /\ \A k \in 1..Len(gs) - 1 : Tail(gs)[k] = gs[k + 1]
    BY <2>2
  <2>4. \A k \in 1..Len(gs) - 1 : k + 1 \in 1..Len(gs)
    BY <2>3
  <2>5. 1 \in 1..Len(gs)
    BY <2>3
  <2>6. \A i \in DOMAIN Tail(gs) : Tail(gs)[i].target \in Lists[Tail(gs)[i].port]
    BY <2>2, <2>3, <2>4
  <2>7. e.target \in Lists[e.port]
    BY <2>2, <2>3, <2>5
  <2> QED BY <2>1, <2>2, <2>6, <2>7, RestIs
<1>8. /\ World' /\ Registry' /\ ck.passed \subseteq Conns /\ ck.anew \in BOOLEAN
      /\ CheckLeaves(c, e, registry', ck.passed)
  BY <1>2, <1>4, <1>7, CheckedIs DEF Parts
<1>9. /\ x.pc = "check" /\ x.groups = Tail(call[c].groups) /\ x.restarted = call[c].restarted
      /\ x.at = call[c].at /\ x.device = call[c].device /\ x.t = call[c].t /\ x.read = call[c].read
      /\ x.healthCheck = call[c].healthCheck /\ x.dialogs = call[c].dialogs /\ DOMAIN x = CallFields
      /\ x.passed = call[c].passed \union ck.passed
  BY <1>3, <1>4 DEF CallOK, CallFields
<1>10. x.reconnected \in BOOLEAN
  BY <1>3, <1>4, <1>8 DEF CallOK, CallFields
<1>11. x.unhealthy \in BOOLEAN /\ x.unhealthy = (call[c].unhealthy \/ ck.passed = {})
  BY <1>3, <1>4 DEF CallOK, CallFields
<1>12. CallOK(x)
  BY <1>4, <1>7, <1>8, <1>9, <1>10, <1>11 DEF CallOK, Under, Stages
<1>13. SuspectedForCause'
  BY <1>4, PidsStay, SuspicionStands DEF Parts
<1>14. /\ call'[c] = x /\ \A b \in Calls \ {c} : call'[b] = call[b]
  BY <1>5 DEF Parts, CallsOK
<1>15. PassedHolds'
  <2> SUFFICES ASSUME NEW b \in Calls, call'[b].healthCheck, NEW g \in call'[b].passed
               PROVE  Good(g)' \/ <<b, g>> \in fell'
    BY DEF PassedHolds
  <2>1. CASE call[b].healthCheck /\ g \in call[b].passed
    <3>1. Good(g) \/ <<b, g>> \in fell
      BY <2>1 DEF Parts, PassedHolds
    <3> QED BY <1>4, <3>1, GoodStands DEF SameWorld
  <2>2. CASE ~(call[b].healthCheck /\ g \in call[b].passed)
    <3>1. b = c /\ call[c].healthCheck /\ g \in ck.passed
      BY <1>9, <1>14, <2>2
    <3>2. g \in registry' /\ Answers(g.target)
      BY <1>8, <3>1 DEF CheckLeaves
    <3>3. g.page = page[g.target]
      BY <1>4, <1>8, <3>2 DEF Registry, Registered, SameWorld
    <3> QED BY <1>4, <3>2, <3>3, GoodStands DEF Good
  <2> QED BY <2>1, <2>2
<1>16. ASSUME lone = c, NEW g \in registry'
       PROVE  Reported(x, g)' \/ Waiting(x, g) \/ x.unhealthy
  <2>1. Undisturbed(call[c])
    BY <1>16, ScanAssumption DEF Parts, Alone, NoCall
  <2>2. CASE g \in registry \ {e}
    <3>1. Reported(call[c], g) \/ Waiting(call[c], g) \/ call[c].unhealthy
      BY <1>4, <2>1, <2>2 DEF Undisturbed
    <3>2. CASE Reported(call[c], g)
      <4>1. Reported(x, g)
        BY <1>9, <3>2 DEF Reported
      <4> QED BY <1>4, <4>1, ReportedStands
    <3>3. CASE Waiting(call[c], g)
      <4>1. PICK i \in DOMAIN call[c].groups : call[c].groups[i] = g
        BY <3>3 DEF Waiting
      <4> QED BY <1>7, <1>9, <2>2, <4>1 DEF Waiting
    <3> QED BY <1>11, <3>1, <3>2, <3>3
  <2>3. CASE g \in ck.passed
    <3>1. Reported(x, g)
      BY <1>8, <1>9, <2>3 DEF CheckLeaves, Reported
    <3> QED BY <1>4, <3>1, ReportedStands
  <2>4. CASE ck.passed = {}
    BY <1>11, <2>4
  <2> QED BY <1>8, <1>16, <2>2, <2>3, <2>4 DEF CheckLeaves
<1>17. lone = c => Undisturbed(x)'
  BY <1>9, <1>16 DEF Undisturbed, Stages, Waiting
<1> QED BY <1>4, <1>5, <1>8, <1>9, <1>12, <1>13, <1>15, <1>17, CallStep

LEMMA DialogKeeps ==
  ASSUME Parts, NEW c \in Calls, PausedByDialog(c)
  PROVE  Parts'
<1>1. PICK e : e = Head(call[c].groups)
  OBVIOUS
<1>2. PICK gs : gs = call[c].groups
  OBVIOUS
<1>3. PICK x : x = [call[c] EXCEPT !.groups = Tail(gs), !.dialogs = @ \union {e}]
  OBVIOUS
<1>4. /\ call[c].pc = "check" /\ CallOK(call[c]) /\ c \in InFlight /\ gs # <<>> /\ Waits(e)
      /\ SameWorld /\ UNCHANGED <<pid, registry, stale, lone, identity>>
  BY <1>1, <1>2 DEF PausedByDialog, Parts, CallsOK, InFlight, world, SameWorld
<1>5. call' = [call EXCEPT ![c] = x]
  BY <1>1, <1>2, <1>3 DEF PausedByDialog
<1>6. /\ gs \in Seq(Conns) /\ e = Head(gs) /\ e \in Conns /\ Tail(gs) \in Seq(Conns)
      /\ \A i \in DOMAIN gs : gs[i] = e \/ \E k \in DOMAIN Tail(gs) : Tail(gs)[k] = gs[i]
      /\ \A i \in DOMAIN gs : gs[i].target \in Lists[gs[i].port]
  <2>1. gs \in Seq(Conns) /\ \A i \in DOMAIN gs : gs[i].target \in Lists[gs[i].port]
    BY <1>2, <1>4 DEF CallOK
  <2> QED BY <1>1, <1>2, <1>4, <2>1, RestIs
<1>7. \A i \in DOMAIN Tail(gs) : Tail(gs)[i].target \in Lists[Tail(gs)[i].port]
  <2>1. /\ Len(gs) \in Nat \ {0} /\ DOMAIN gs = 1..Len(gs) /\ DOMAIN Tail(gs) = 1..Len(gs) - 1
        /\ \A k \in 1..Len(gs) - 1 : Tail(gs)[k] = gs[k + 1]
    BY <1>4, <1>6
  <2>2. \A k \in 1..Len(gs) - 1 : k + 1 \in 1..Len(gs)
    BY <2>1
  <2> QED BY <1>6, <2>1, <2>2
<1>8. World' /\ Registry' /\ SuspectedForCause'
  BY <1>4, Fewer, PidsStay, SuspicionStands DEF Parts
<1>9. /\ x.pc = "check" /\ x.groups = Tail(gs) /\ x.restarted = call[c].restarted
      /\ x.at = call[c].at /\ x.device = call[c].device /\ x.t = call[c].t /\ x.read = call[c].read
      /\ x.healthCheck = call[c].healthCheck /\ x.reconnected = call[c].reconnected
      /\ x.unhealthy = call[c].unhealthy /\ DOMAIN x = CallFields
      /\ x.passed = call[c].passed /\ x.dialogs = call[c].dialogs \union {e}
  BY <1>3, <1>4 DEF CallOK, CallFields
<1>10. CallOK(x)
  BY <1>4, <1>6, <1>7, <1>9 DEF CallOK, Under, Stages
<1>11. ASSUME lone = c, NEW g \in registry'
       PROVE  Reported(x, g)' \/ Waiting(x, g) \/ x.unhealthy
  <2>1. Undisturbed(call[c])
    BY <1>11, ScanAssumption DEF Parts, Alone, NoCall
  <2>2. Reported(call[c], g) \/ Waiting(call[c], g) \/ call[c].unhealthy
    BY <1>4, <1>11, <2>1 DEF Undisturbed
  <2>3. CASE Reported(call[c], g) \/ g = e
    <3>1. Reported(x, g)
      BY <1>4, <1>9, <2>3 DEF Reported, Waits
    <3> QED BY <1>4, <3>1, ReportedStands
  <2>4. CASE Waiting(call[c], g) /\ g # e
    <3>1. PICK i \in DOMAIN gs : gs[i] = g
      BY <1>2, <2>4 DEF Waiting
    <3> QED BY <1>6, <1>9, <2>4, <3>1 DEF Waiting
  <2> QED BY <1>9, <2>2, <2>3, <2>4
<1>12. lone = c => Undisturbed(x)'
  BY <1>9, <1>11 DEF Undisturbed, Stages, Waiting
<1> QED BY <1>4, <1>5, <1>8, <1>9, <1>10, <1>12, StillStep

LEMMA ListKeeps ==
  ASSUME Parts, NEW c \in Calls, ListPort(c)
  PROVE  Parts'
<1>1. PICK p : p = call[c].at
  OBVIOUS
<1> DEFINE ordered == [d \in ListedDevices(p) |-> OrderAppsOnDevice(p, AppsOf(p, d))]
<1>2. PICK g : g = [d \in DOMAIN ordered |->
                       [i \in DOMAIN ordered[d].order |->
                           Entry(p, ordered[d].order[i], page[ordered[d].order[i]])]]
  OBVIOUS
<1>3. /\ call[c].pc = "list" /\ CallOK(call[c]) /\ c \in InFlight
      /\ SameWorld /\ UNCHANGED <<pid, stale, lone, identity>>
      /\ registry' = registry \ UNION {ordered[d].dropped : d \in DOMAIN ordered}
      /\ call' = [Advance(c, "purge") EXCEPT ![c].groups = Append(@, g)]
  BY <1>1, <1>2 DEF ListPort, Parts, CallsOK, InFlight, world, SameWorld
<1>4. /\ p \in Ports /\ call[c].groups \in Seq(AppLists) /\ Len(call[c].groups) = p - 1
      /\ \A q \in DOMAIN call[c].groups : Group(q, call[c].groups[q])
      /\ Cardinality(Ports) \in Nat /\ Ports = 1..Cardinality(Ports)
  BY <1>1, <1>3, PortsAre DEF CallOK, Stages
<1>5. ASSUME NEW d \in ListedDevices(p)
      PROVE  /\ d \in Devices /\ g[d] \in Seq(Conns) /\ g[d] # <<>>
             /\ \A i \in DOMAIN g[d] : \E t \in AppsAt(p, d) : g[d][i] = Entry(p, t, page[t])
             /\ \A t \in AppsAt(p, d) : \E i \in DOMAIN g[d] : g[d][i] = Entry(p, t, page[t])
             /\ \A e \in registry \ ordered[d].dropped :
                    e.port = p /\ DeviceOf[e.target] = d /\ Tried(e) /\ front[d] \in AppsAt(p, d) => front[d] = e.target
  <2> DEFINE o == OrderAppsOnDevice(p, AppsOf(p, d))
  <2>1. /\ o.order \in Seq(AppsAt(p, d)) /\ o.order # <<>>
        /\ \A t \in AppsAt(p, d) : \E i \in DOMAIN o.order : o.order[i] = t
        /\ \A e \in registry \ o.dropped :
               e.port = p /\ DeviceOf[e.target] = d /\ Tried(e) /\ front[d] \in AppsAt(p, d) => front[d] = e.target
    BY <1>4, OrderIs DEF Parts
  <2>2. ordered[d] = o
    OBVIOUS
  <2>3. d \in Devices
    BY <1>4, AppsListed DEF Parts
  <2>4. PICK s : s = o.order
    OBVIOUS
  <2>5. g[d] = [i \in DOMAIN s |-> Entry(p, s[i], page[s[i]])]
    BY <1>2, <2>2, <2>4
  <2>6. \A t \in AppsAt(p, d) : Entry(p, t, page[t]) \in Conns
    BY <1>4, RuntimesAre DEF Entry, Conns, Parts, World
  <2> HIDE DEF o, ordered
  <2>7. /\ Len(s) \in Nat \ {0} /\ DOMAIN s = 1..Len(s) /\ \A i \in DOMAIN s : s[i] \in AppsAt(p, d)
    BY <2>1, <2>4
  <2>8. \A i \in DOMAIN s : \E t \in AppsAt(p, d) : g[d][i] = Entry(p, t, page[t])
    BY <2>5, <2>7
  <2>9. \A t \in AppsAt(p, d) : \E i \in DOMAIN s : g[d][i] = Entry(p, t, page[t])
    BY <2>1, <2>4, <2>5
  <2>10. g[d] \in [1..Len(s) -> Conns] /\ DOMAIN g[d] = DOMAIN s
    BY <2>5, <2>6, <2>7
  <2>11. g[d] \in Seq(Conns) /\ g[d] # <<>>
    BY <2>7, <2>10
  <2> QED BY <2>1, <2>2, <2>3, <2>8, <2>9, <2>10, <2>11
<1>6. DOMAIN g = ListedDevices(p) /\ g = [d \in ListedDevices(p) |-> g[d]]
  BY <1>2
<1>7. g \in AppLists
  BY <1>5, <1>6 DEF AppLists
<1>8. Group(p, g) /\ Current(p, g)
  <2>1. ASSUME NEW d \in ListedDevices(p), NEW i \in DOMAIN g[d]
        PROVE  /\ g[d][i].port = p /\ g[d][i].target \in Lists[p] /\ DeviceOf[g[d][i].target] = d
               /\ g[d][i].target \in AppsAt(p, d)
               /\ g[d][i].target \in attached /\ g[d][i].page = page[g[d][i].target]
    <3>1. PICK t \in AppsAt(p, d) : g[d][i] = Entry(p, t, page[t])
      BY <1>5
    <3> QED BY <3>1, AppsAreOf DEF Entry
  <2> QED BY <1>5, <1>6, <2>1 DEF Group, AppList, Current
<1>9. registry' \subseteq registry
  BY <1>3
<1>10. FrontHeld(p)'
  <2> SUFFICES ASSUME NEW e \in registry', e.port = p, Tried(e),
                      front[DeviceOf[e.target]] \in AppsAt(p, DeviceOf[e.target])
               PROVE  front[DeviceOf[e.target]] = e.target
    BY <1>3, AppsStand DEF FrontHeld, Tried, SameWorld
  <2>1. PICK d : d = DeviceOf[e.target]
    OBVIOUS
  <2>2. e \in registry /\ d \in ListedDevices(p)
    BY <1>9, <2>1, ListedThere DEF Parts, Registry
  <2>3. e \notin ordered[d].dropped
    BY <1>3, <2>2
  <2> HIDE DEF ordered
  <2> QED BY <1>5, <2>1, <2>2, <2>3
<1>11. World' /\ Registry' /\ SuspectedForCause'
  BY <1>3, <1>9, Fewer, PidsStay, SuspicionStands DEF Parts
<1> HIDE DEF ordered
<1>12. PICK gs : gs = Append(call[c].groups, g)
  OBVIOUS
<1>13. /\ gs \in Seq(AppLists) /\ Len(gs) = p /\ DOMAIN gs = 1..p /\ gs[p] = g
       /\ \A q \in 1..p - 1 : gs[q] = call[c].groups[q] /\ q \in DOMAIN call[c].groups
  BY <1>4, <1>7, <1>12
<1>14. \A q \in DOMAIN gs : Group(q, gs[q])
  <2>1. \A q \in 1..p : q = p \/ q \in 1..p - 1
    BY <1>4
  <2> QED BY <1>4, <1>8, <1>13, <2>1
<1>14a. PICK a : a = Onward(call[c], "purge")
  OBVIOUS
<1>15. PICK x : x = [a EXCEPT !.groups = gs]
  OBVIOUS
<1>15a. /\ Advance(c, "purge") = [call EXCEPT ![c] = a]
        /\ a.groups = call[c].groups /\ Carried(a, call[c])
        /\ \/ p = Cardinality(Ports) /\ a.pc = "purge" /\ a.at = 1
           \/ p # Cardinality(Ports) /\ a.pc = "list" /\ a.at = p + 1
  <2>1. Advance(c, "purge") = [call EXCEPT ![c] = a] /\ IsOnward(a, call[c], "purge")
    BY <1>14a, AdvanceIs DEF Parts
  <2> QED BY <1>1, <1>3, <2>1 DEF IsOnward
<1>16. call' = [call EXCEPT ![c] = x]
  <2>0. call = [b \in Calls |-> call[b]]
    BY DEF Parts, CallsOK
  <2>1. PICK now : now = [call EXCEPT ![c] = a]
    OBVIOUS
  <2>2. now[c] = a
    BY <2>0, <2>1
  <2>3. call' = [now EXCEPT ![c].groups = gs]
    BY <1>3, <1>12, <1>15a, <2>1, <2>2
  <2>4. call' = [now EXCEPT ![c] = x]
    BY <1>15, <2>2, <2>3
  <2> QED BY <2>0, <2>1, <2>4
<1>17. /\ x.groups = gs /\ Carried(x, call[c])
       /\ \/ p = Cardinality(Ports) /\ x.pc = "purge" /\ x.at = 1
          \/ p # Cardinality(Ports) /\ x.pc = "list" /\ x.at = p + 1
  BY <1>15, <1>15a DEF Carried, CallFields
<1>18. CallOK(x)
  <2>1. x.at \in Ports
    BY <1>4, <1>17
  <2>2. x.pc = "list" => x.groups \in Seq(AppLists) /\ Len(x.groups) = x.at - 1
    BY <1>4, <1>13, <1>17
  <2>3. x.pc = "purge" => DOMAIN x.groups = Ports
    BY <1>4, <1>13, <1>17
  <2>4. x.read = 0 /\ 0 <= pid[x.at] /\ 0 \in Nat
    BY <1>3, <1>17, <2>1 DEF CallOK, Carried, Parts, Identity
  <2> QED BY <1>3, <1>14, <1>17, <2>1, <2>2, <2>3, <2>4 DEF CallOK, Under, Stages, Carried
<1>19. ASSUME lone = c
       PROVE  Undisturbed(x)'
  <2>1. Undisturbed(call[c])
    BY <1>19, ScanAssumption DEF Parts, Alone, NoCall
  <2>5. PICK y : y = call[c].groups
    OBVIOUS
  <2>6. \A q \in DOMAIN y : Current(q, y[q]) /\ FrontHeld(q)
    BY <1>3, <2>1, <2>5 DEF Undisturbed, Stages
  <2>2. \A q \in DOMAIN y : Current(q, y[q])' /\ FrontHeld(q)'
    BY <1>3, <1>9, <2>6, CurrentStands, HeldStands
  <2>3. Current(p, g)'
    BY <1>3, <1>8, CurrentStands
  <2>4. ASSUME NEW q \in DOMAIN gs
        PROVE  Current(q, gs[q])' /\ FrontHeld(q)'
    <3>1. CASE q = p
      BY <1>10, <1>13, <2>3, <3>1
    <3>2. CASE q \in 1..p - 1
      BY <1>13, <2>2, <2>5, <3>2
    <3>3. q = p \/ q \in 1..p - 1
      BY <1>4, <1>13
    <3> QED BY <3>1, <3>2, <3>3
  <2> QED BY <1>17, <2>4 DEF Undisturbed, Stages
<1> QED BY <1>3, <1>11, <1>16, <1>17, <1>18, <1>19, StillStep DEF Carried

\* One of the ports does for a device what the others would.
LEMMA AloneIsAssigned ==
  ASSUME NEW groups, NEW p \in Ports, NEW d,
         \A q \in Ports : d \in DOMAIN groups[q] <=> q = p
  PROVE  AssignedPort(groups, d) = p
<1> DEFINE ports == {q \in Ports : d \in DOMAIN groups[q]}
           Others(q) == Cardinality(DOMAIN groups[q] \ {d})
           Best(q) == \A r \in ports : Others(q) < Others(r) \/ (Others(q) = Others(r) /\ q <= r)
<1>1. ports = {p}
  OBVIOUS
<1>2. p <= p
  BY PortsAre
<1> HIDE DEF ports, Others
<1>3. Best(p)
  BY <1>1, <1>2
<1>4. AssignedPort(groups, d) = CHOOSE q \in ports : Best(q)
  BY DEF AssignedPort, ports, Others
<1> HIDE DEF Best
<1> QED BY <1>1, <1>3, <1>4

\* A device only this port lists is connected to the app that answers, if it was not.
LEMMA ConnectServes ==
  ASSUME World, Registry, NEW p \in Ports, NEW d \in Devices, OnlyAt(d, p),
         Answers(front[d]), front[d] \in AppsAt(p, d),
         NEW apps, AppList(p, d, apps), FrontHeld(p), AllTried,
         \A i \in DOMAIN apps : apps[i].target \in attached /\ apps[i].page = page[apps[i].target],
         \A t \in AppsAt(p, d) : \E i \in DOMAIN apps : apps[i] = Entry(p, t, page[t])
  PROVE  LET e == apps[Chosen(registry, apps)]
             f == Entry(p, front[d], page[front[d]])
         IN  f \in registry \/ (Outcome(registry, e) = "connected" /\ e = f)
<1> DEFINE e == apps[Chosen(registry, apps)]
           f == Entry(p, front[d], page[front[d]])
<1>2. front[d] \in AppsAt(p, d) /\ Answers(front[d])
  OBVIOUS
<1>3. f.target = front[d] /\ f.page = page[front[d]]
  BY DEF Entry
<1> HIDE DEF f
<1>4. CASE \E g \in registry : DeviceOf[g.target] = d
  <2>1. PICK g \in registry : DeviceOf[g.target] = d
    BY <1>4
  <2>2. Registered(g)
    BY DEF Registry
  <2>3. g.port = p
    BY <2>1, <2>2 DEF Registered, Conns, OnlyAt
  <2>4. front[d] = g.target
    BY <1>2, <2>1, <2>3 DEF FrontHeld, AllTried
  <2>5. g = f
    BY <2>2, <2>3, <2>4, ListedThere DEF f
  <2> QED BY <2>5 DEF f
<1>5. CASE ~\E g \in registry : DeviceOf[g.target] = d
  <2>1. Chosen(registry, apps) \in DOMAIN apps
    BY ChosenIs DEF AppList
  <2>2. ASSUME NEW i \in DOMAIN apps
        PROVE  Outcome(registry, apps[i]) = IF Answers(apps[i].target) THEN "connected" ELSE "stale"
    <3>1. DeviceOf[apps[i].target] = d /\ apps[i].target \in attached /\ apps[i].page = page[apps[i].target]
      BY DEF AppList
    <3>2. apps[i] \notin registry
      BY <1>5, <3>1
    <3> QED BY <1>5, <3>1, <3>2 DEF Outcome
  <2>3. PICK i \in DOMAIN apps : apps[i] = f
    BY <1>2 DEF f
  <2>4. Outcome(registry, apps[i]) # "stale"
    BY <1>2, <1>3, <2>2, <2>3
  <2>5. Outcome(registry, e) # "stale"
    BY <2>3, <2>4, ChosenIs DEF AppList
  <2>6. Outcome(registry, e) = "connected" /\ Answers(e.target)
    BY <2>1, <2>2, <2>5
  <2>7. e.target = front[d]
    BY <2>1, <2>6 DEF Answers, AppList
  <2>8. e \in Conns /\ e.port = p /\ e.page = page[e.target]
    BY <2>1 DEF AppList
  <2>9. e = Entry(p, front[d], page[front[d]])
    <3>1. PICK y : y = e
      OBVIOUS
    <3>2. y = [port |-> y.port, target |-> y.target, page |-> y.page]
      BY <2>8, <3>1 DEF Conns
    <3> HIDE DEF e
    <3> QED BY <2>7, <2>8, <3>1, <3>2 DEF Entry
  <2> QED BY <2>6, <2>9 DEF f
<1> QED BY <1>4, <1>5 DEF f

LEMMA ConnectKeeps ==
  ASSUME Parts, NEW c \in Calls, ConnectPort(c)
  PROVE  Parts'
<1>1. PICK p : p = call[c].at
  OBVIOUS
<1>2. PICK groups : groups = call[c].groups
  OBVIOUS
<1> DEFINE mine == {d \in DOMAIN groups[p] : AssignedPort(groups, d) = p}
           Try(d) == groups[p][d][Chosen(registry, groups[p][d])]
           Got(d) == Outcome(registry, Try(d))
           D == {d \in mine : Got(d) = "connected"}
<1>3. /\ call[c].pc = "connect" /\ CallOK(call[c]) /\ c \in InFlight
      /\ SameWorld /\ UNCHANGED <<pid, lone, identity>>
      /\ registry' = registry \union {Try(d) : d \in D}
      /\ stale' = (IF p \in {r[1] : r \in call[c].restarted}
                   THEN stale \union {d \in mine : Got(d) \notin {"stale", "failed"}} ELSE stale)
      /\ call' = Advance(c, "answer")
  BY <1>1, <1>2 DEF ConnectPort, Parts, CallsOK, InFlight, world, SameWorld
<1>4. /\ p \in Ports /\ DOMAIN groups = Ports /\ \A q \in Ports : Group(q, groups[q])
      /\ Cardinality(Ports) \in Nat /\ Ports = 1..Cardinality(Ports)
  BY <1>1, <1>2, <1>3, PortsAre DEF CallOK, Stages
<1>5. ASSUME NEW d \in DOMAIN groups[p]
      PROVE  /\ d \in Devices /\ AppList(p, d, groups[p][d])
             /\ Try(d) \in Conns /\ Try(d).port = p /\ Try(d).target \in Lists[Try(d).port]
             /\ DeviceOf[Try(d).target] = d
  <2>1. d \in Devices /\ AppList(p, d, groups[p][d])
    BY <1>4 DEF Group
  <2>2. Chosen(registry, groups[p][d]) \in DOMAIN groups[p][d]
    BY <2>1, ChosenIs DEF AppList
  <2> QED BY <2>1, <2>2 DEF AppList
<1>6. PICK f : f = [d \in D |-> Try(d)]
  OBVIOUS
<1>7. /\ \A d \in D : f[d] = Try(d)
      /\ registry' = registry \union {f[d] : d \in D}
  BY <1>3, <1>6
<1>8. World' /\ Registry'
  <2>1. \A d \in D : /\ f[d] \in Conns /\ f[d].target \in Lists[f[d].port] /\ DeviceOf[f[d].target] = d
                     /\ Outcome(registry, f[d]) = "connected"
    <3> HIDE DEF Try
    <3> QED BY <1>5, <1>7
  <2> HIDE DEF D
  <2> QED BY <1>3, <1>7, <2>1, ManyMore DEF Parts
<1>9. SuspectedForCause'
  <2> SUFFICES ASSUME NEW d \in stale'
               PROVE  \E q \in Ports : pid[q] > 1 /\ \E t \in Lists[q] : DeviceOf[t] = d
    BY <1>3 DEF SuspectedForCause
  <2>1. CASE d \in stale
    BY <2>1 DEF Parts, SuspectedForCause
  <2>2. CASE d \notin stale
    <3>1. d \in DOMAIN groups[p] /\ p \in {r[1] : r \in call[c].restarted}
      BY <1>3, <2>2
    <3>2. pid[p] > 1
      BY <1>3, <3>1 DEF CallOK, Restarted
    <3>3. Try(d).target \in Lists[p] /\ DeviceOf[Try(d).target] = d
      BY <1>5, <3>1
    <3> QED BY <1>4, <3>2, <3>3
  <2> QED BY <2>1, <2>2
<1>10. PICK x : x = Onward(call[c], "answer")
  OBVIOUS
<1> HIDE DEF mine, Try, Got, D
<1>11. call' = [call EXCEPT ![c] = x] /\ IsOnward(x, call[c], "answer")
  BY <1>3, <1>10, AdvanceIs DEF Parts
<1>12. /\ x.groups = groups /\ Carried(x, call[c])
       /\ \/ p = Cardinality(Ports) /\ x.pc = "answer" /\ x.at = 1
          \/ p # Cardinality(Ports) /\ x.pc = "connect" /\ x.at = p + 1
  BY <1>1, <1>2, <1>3, <1>11 DEF IsOnward
<1>13. CallOK(x)
  <2>1. x.at \in Ports
    BY <1>4, <1>12
  <2>2. x.read = 0 /\ 0 <= pid[x.at] /\ 0 \in Nat
    BY <1>3, <1>12, <2>1 DEF CallOK, Carried, Parts, Identity
  <2> QED BY <1>2, <1>3, <1>4, <1>12, <2>1, <2>2 DEF CallOK, Under, Stages, Carried
<1>14. ASSUME lone = c
       PROVE  Undisturbed(x)'
  <2>1. Undisturbed(call[c])
    BY <1>14, ScanAssumption DEF Parts, Alone, NoCall
  <2>2. /\ \A q \in Ports : Current(q, groups[q]) /\ FrontHeld(q)
        /\ \A q \in Ports : q < p => Served(q)
        /\ AllTried
    BY <1>1, <1>2, <1>3, <1>4, <2>1 DEF Undisturbed, Stages
  <2>3. \A q \in Ports : Current(q, groups[q])'
    BY <1>3, <2>2, CurrentStands
  <2>4. ASSUME NEW q \in Ports, NEW e \in registry', e.port = q, Tried(e),
               front[DeviceOf[e.target]] \in AppsAt(q, DeviceOf[e.target])
        PROVE  front[DeviceOf[e.target]] = e.target
    <3>1. CASE e \in registry
      BY <2>2, <2>4, <3>1 DEF FrontHeld
    <3>2. CASE e \notin registry
      <4>1. PICK d \in D : e = Try(d)
        BY <1>3, <3>2
      <4>2. Outcome(registry, e) = "connected"
        BY <4>1 DEF D, Got
      <4>3. Answers(e.target)
        BY <4>2, OutcomeIs
      <4> QED BY <4>3 DEF Answers
    <3> QED BY <3>1, <3>2
  <2>5. \A q \in Ports : FrontHeld(q)'
    BY <1>3, <2>4, AppsStand DEF FrontHeld, Tried, SameWorld
  <2>5a. ASSUME NEW e \in registry', e \notin registry
         PROVE  Tried(e)
    <3>1. PICK d \in D : e = Try(d)
      BY <1>3, <2>5a
    <3>2. PICK apps : apps = groups[p][d]
      OBVIOUS
    <3>3. Chosen(registry, apps) \in DOMAIN apps /\ e = apps[Chosen(registry, apps)]
      <4>1. AppList(p, d, apps)
        BY <1>5, <3>1, <3>2 DEF D, mine
      <4> QED BY <3>1, <3>2, <4>1, ChosenIs DEF AppList, Try
    <3>4. apps[Chosen(registry, apps)].target \in AppsAt(p, d)
      BY <1>4, <2>2, <3>1, <3>2, <3>3 DEF Current, D, mine
    <3>5. e.port = p /\ DeviceOf[e.target] = d
      BY <1>5, <3>1 DEF D, mine
    <3> QED BY <3>3, <3>4, <3>5 DEF Tried
  <2>5b. AllTried'
    <3>1. \A e \in registry' : Tried(e)
      BY <2>2, <2>5a DEF AllTried
    <3> QED BY <1>3, <3>1, AppsStand DEF AllTried, Tried
  <2>6. ASSUME NEW d \in Devices, OnlyAt(d, p), Answers(front[d]), front[d] \in AppsAt(p, d)
        PROVE  Entry(p, front[d], page[front[d]]) \in registry'
    <3>1. front[d] \in Lists[p] /\ DeviceOf[front[d]] = d /\ front[d] \in attached
      BY <2>6, AppsAreOf
    <3>2. \A q \in Ports : d \in DOMAIN groups[q] <=> q = p
      <4>1. \A q \in Ports : DOMAIN groups[q] = ListedDevices(q)
        BY <2>2 DEF Current
      <4>2. \A q \in Ports : d \in ListedDevices(q) <=> \E t \in Lists[q] \intersect attached : DeviceOf[t] = d
        BY DEF ListedDevices
      <4>3. \A q \in Ports : Lists[q] \subseteq Targets
        BY ScanAssumption
      <4>4. \A q \in Ports : (\E t \in Lists[q] \intersect attached : DeviceOf[t] = d) => q = p
        BY <2>6, <4>3 DEF OnlyAt
      <4>5. \E t \in Lists[p] \intersect attached : DeviceOf[t] = d
        BY <2>6, <3>1
      <4> QED BY <4>1, <4>2, <4>4, <4>5
    <3>3. AssignedPort(groups, d) = p
      BY <1>4, <3>2, AloneIsAssigned
    <3>4. d \in mine
      BY <1>4, <3>2, <3>3 DEF mine
    <3>5. PICK apps : apps = groups[p][d]
      OBVIOUS
    <3>6. /\ \A i \in DOMAIN apps : apps[i].target \in attached /\ apps[i].page = page[apps[i].target]
          /\ \A t \in AppsAt(p, d) : \E i \in DOMAIN apps : apps[i] = Entry(p, t, page[t])
      BY <1>4, <2>2, <3>2, <3>5 DEF Current
    <3>7. AppList(p, d, apps) /\ FrontHeld(p)
      BY <1>4, <1>5, <2>2, <3>2, <3>5
    <3>8. \/ Entry(p, front[d], page[front[d]]) \in registry
          \/ /\ Outcome(registry, apps[Chosen(registry, apps)]) = "connected"
             /\ apps[Chosen(registry, apps)] = Entry(p, front[d], page[front[d]])
      BY <1>4, <2>2, <2>6, <3>6, <3>7, ConnectServes DEF Parts
    <3>9. apps[Chosen(registry, apps)] = Try(d)
      BY <3>5 DEF Try
    <3> QED BY <1>3, <3>4, <3>8, <3>9 DEF D, Got
  <2>7. Served(p)'
    <3> SUFFICES ASSUME NEW d \in Devices, OnlyAt(d, p), Answers(front[d])', front'[d] \in AppsAt(p, d)'
                 PROVE  Entry(p, front'[d], page'[front'[d]]) \in registry'
      BY DEF Served
    <3>1. front' = front /\ page' = page
      BY <1>3 DEF SameWorld
    <3>2. Answers(front[d]) /\ front[d] \in AppsAt(p, d)
      BY <1>3, <3>1, AppsStand DEF SameWorld, Answers
    <3> QED BY <2>6, <3>1, <3>2
  <2>8. \A q \in Ports : q < p => Served(q)'
    <3>1. registry \subseteq registry'
      BY <1>3
    <3> QED BY <1>3, <2>2, <3>1, ServedStands
  <2>9. \A q \in Ports : q < p + 1 => Served(q)'
    <3>1. \A q \in Ports : q < p + 1 => q < p \/ q = p
      BY <1>4
    <3> QED BY <2>7, <2>8, <3>1
  <2>10. p = Cardinality(Ports) => \A q \in Ports : q < p + 1
    BY <1>4
  <2> QED BY <1>4, <1>12, <2>3, <2>5, <2>5b, <2>9, <2>10 DEF Undisturbed, Stages
<1> QED BY <1>3, <1>8, <1>9, <1>11, <1>12, <1>13, <1>14, StillStep DEF Carried

(*************************************************************************)
(* Metro's build events.                                                 *)
(*************************************************************************)

SockStates == {"none", "dialling", "open", "closing", "closed"}
ToldFields == {"pc", "told", "cleared"}

\* What a call that cleared the buffer has told of it.
Told(q) ==
    /\ q = [i \in ToldFields |-> q[i]] /\ q.told \in Seq(Nat) /\ q.cleared \in Nat
    /\ q.cleared > Len(q.told) => q.told # <<>> /\ q.cleared > MaxErrors
    /\ q.pc \in {"state", "shot"} => q.cleared = 0

LinkTypes ==
    /\ sock \in [Socks -> SockStates] /\ dialler = [s \in Socks |-> dialler[s]]
    /\ metroEventWs # 0 => metroEventWs \in Socks /\ sock[metroEventWs] \in {"open", "closing"}
    /\ known \in BOOLEAN /\ reconnecting \in BOOLEAN /\ lostDial \in BOOLEAN
    /\ attempts \in Nat /\ timers \in Nat
BufferTypes == errors \in Seq(Nat) /\ hasError \in BOOLEAN /\ builds \in Nat
CallsTold ==
    /\ buildCall = [c \in BuildCalls |-> buildCall[c]]
    /\ \A c \in BuildCalls : Told(buildCall[c])

\* A reconnection that is flagged has a timer armed or its own dial under way.
RetryUnderWay ==
    reconnecting /\ ~lostDial => timers > 0 \/ \E s \in Socks : sock[s] = "dialling" /\ dialler[s] = 0
\* With none flagged, the link stands or its close is on its way.
LinkStands ==
    known /\ ~reconnecting /\ ~lostDial /\ attempts < MaxAttempts =>
        \E s \in Socks : sock[s] \in {"open", "closing"}

LinkOK == LinkTypes /\ RetryUnderWay /\ LinkStands
BuildParts == LinkOK /\ BufferTypes /\ CallsTold /\ Builds!ErrorsBacked

-----------------------------------------------------------------------------
(* The buffer.                                                             *)

LEMMA NewestAre ==
    ASSUME NEW errs \in Seq(Nat), NEW n \in Nat \ {0}
    PROVE  LET kept == Builds!Newest(errs, n)
           IN  /\ kept \in Seq(Nat)
               /\ Len(errs) <= n => Len(kept) = Len(errs)
               /\ Len(errs) > n => Len(kept) = n
               /\ errs # <<>> => kept # <<>>
<1> DEFINE kept == Builds!Newest(errs, n)
           from == IF Len(errs) > n THEN Len(errs) - n + 1 ELSE 1
<1>1. Len(errs) \in Nat /\ (errs # <<>> => Len(errs) > 0)
  BY LenProperties, EmptySeq
<1>2. from \in Nat /\ 1 <= from /\ from <= Len(errs) + 1
  BY <1>1
<1>3. kept = SubSeq(errs, from, Len(errs))
  BY DEF Builds!Newest
<1> HIDE DEF kept, from
<1>4. kept \in Seq(Nat) /\ Len(kept) = IF from <= Len(errs) THEN Len(errs) - from + 1 ELSE 0
  BY <1>1, <1>2, <1>3, SubSeqProperties
<1>5. Len(errs) <= n => Len(kept) = Len(errs)
  BY <1>1, <1>4 DEF from
<1>6. Len(errs) > n => Len(kept) = n
  BY <1>1, <1>4 DEF from
<1>7. errs # <<>> => Len(kept) > 0
  BY <1>1, <1>5, <1>6
<1>8. errs # <<>> => kept # <<>>
  BY <1>7
<1> QED BY <1>4, <1>5, <1>6, <1>8 DEF kept

LEMMA AddedIs ==
    ASSUME NEW errs \in Seq(Nat), NEW e \in Nat
    PROVE  Builds!Add(errs, e) \in Seq(Nat) /\ Builds!Add(errs, e) # <<>>
<1>1. Append(errs, e) \in Seq(Nat) /\ Append(errs, e) # <<>>
  BY AppendProperties
<1> QED BY <1>1, NewestAre, BuildAssumption DEF Builds!Add

\* A read tells all it clears, or as many as an answer has.
LEMMA LatestTells ==
    ASSUME NEW errs \in Seq(Nat)
    PROVE  LET told == Builds!Latest(errs)
           IN  /\ told \in Seq(Nat) /\ Len(errs) \in Nat
               /\ Len(errs) > Len(told) => told # <<>> /\ Len(errs) > MaxErrors
               /\ told = <<>> => Len(errs) = 0
<1> DEFINE told == Builds!Latest(errs)
<1>1. /\ told \in Seq(Nat)
      /\ Len(errs) <= MaxErrors => Len(told) = Len(errs)
      /\ errs # <<>> => told # <<>>
  BY NewestAre, BuildAssumption DEF Builds!Latest
<1>2. Len(errs) \in Nat /\ (errs = <<>> => Len(errs) = 0)
  BY LenProperties
<1> HIDE DEF told
<1>3. Len(errs) > Len(told) => Len(errs) > MaxErrors
  BY <1>1, <1>2, BuildAssumption
<1>4. Len(errs) > MaxErrors => errs # <<>>
  BY <1>2, BuildAssumption
<1> QED BY <1>1, <1>2, <1>3, <1>4 DEF told

-----------------------------------------------------------------------------
(* The calls.                                                              *)

LEMMA CallGoes ==
    ASSUME CallsTold, NEW c, NEW pc, pc \notin {"state", "shot"},
           buildCall' = [buildCall EXCEPT ![c].pc = pc]
    PROVE  CallsTold'
<1>1. /\ buildCall' = [b \in BuildCalls |-> buildCall'[b]]
      /\ \A b \in BuildCalls : buildCall'[b] = IF b = c THEN [buildCall[b] EXCEPT !.pc = pc] ELSE buildCall[b]
  BY DEF CallsTold
<1>2. ASSUME NEW b \in BuildCalls
      PROVE  Told(buildCall[b])'
  <2>1. PICK x : x = [buildCall[b] EXCEPT !.pc = pc]
    OBVIOUS
  <2>2. Told(buildCall[b])
    BY DEF CallsTold
  <2>3. Told(x)
    BY <2>1, <2>2 DEF Told, ToldFields
  <2>4. buildCall'[b] = x \/ buildCall'[b] = buildCall[b]
    BY <1>1, <2>1
  <2> QED BY <2>2, <2>3, <2>4 DEF Told
<1> QED BY <1>1, <1>2 DEF CallsTold

LEMMA CallStays ==
    ASSUME CallsTold, UNCHANGED buildCall
    PROVE  CallsTold'
BY DEF CallsTold, Told

LEMMA CallBecomes ==
    ASSUME CallsTold, NEW c \in BuildCalls, NEW x, Told(x), buildCall' = [buildCall EXCEPT ![c] = x]
    PROVE  CallsTold'
<1>1. /\ buildCall' = [b \in BuildCalls |-> buildCall'[b]]
      /\ \A b \in BuildCalls : buildCall'[b] = IF b = c THEN x ELSE buildCall[b]
  BY DEF CallsTold
<1> QED BY <1>1 DEF CallsTold, Told

-----------------------------------------------------------------------------
(* The link.                                                               *)

LEMMA LinkUnchanged ==
    ASSUME LinkOK, UNCHANGED <<sock, dialler, metroEventWs, known, reconnecting, attempts, timers, lostDial>>
    PROVE  LinkOK'
BY DEF LinkOK, LinkTypes, RetryUnderWay, LinkStands

\* A new socket is dialled.
LEMMA DialsKeep ==
    ASSUME LinkOK, NEW c, Builds!DialFor(c)
    PROVE  \E s \in Socks : /\ sock[s] = "none" /\ sock' = [sock EXCEPT ![s] = "dialling"]
                            /\ dialler' = [dialler EXCEPT ![s] = c]
<1>1. Builds!Fresh # {} /\ Builds!Fresh \subseteq Nat
  BY BuildAssumption DEF Builds!DialFor, Builds!Fresh
<1>2. \E s \in Builds!Fresh : \A t \in Builds!Fresh : s <= t
  BY <1>1, MinIs
<1>3. PICK s : s = CHOOSE r \in Builds!Fresh : \A t \in Builds!Fresh : r <= t
  OBVIOUS
<1>4. s \in Builds!Fresh
  BY <1>2, <1>3
<1>5. sock' = [sock EXCEPT ![s] = "dialling"] /\ dialler' = [dialler EXCEPT ![s] = c]
  BY <1>3 DEF Builds!DialFor
<1> QED BY <1>4, <1>5 DEF Builds!Fresh

LEMMA TimerKeeps ==
    ASSUME LinkOK, Builds!TimerFires
    PROVE  LinkOK'
<1>1. metroEventWs' = metroEventWs /\ known' = known /\ lostDial' = lostDial /\ timers > 0 /\ timers' = timers - 1
  BY DEF Builds!TimerFires
<1>2. CASE Builds!IsOpen(metroEventWs)
  <2>1. UNCHANGED <<sock, dialler>> /\ reconnecting' = FALSE /\ attempts' = 0 /\ timers' \in Nat
    BY <1>1, <1>2 DEF Builds!TimerFires, LinkOK, LinkTypes
  <2>2. metroEventWs \in Socks /\ sock[metroEventWs] = "open"
    BY <1>2 DEF Builds!IsOpen, Builds!NoSock, LinkOK, LinkTypes
  <2> QED BY <1>1, <2>1, <2>2 DEF LinkOK, LinkTypes, RetryUnderWay, LinkStands
<1>3. CASE ~Builds!IsOpen(metroEventWs)
  <2>1. Builds!DialFor(0) /\ reconnecting' = reconnecting /\ attempts' = attempts + 1
    BY <1>3 DEF Builds!TimerFires, Builds!Timer
  <2>2. PICK s \in Socks : /\ sock[s] = "none" /\ sock' = [sock EXCEPT ![s] = "dialling"]
                           /\ dialler' = [dialler EXCEPT ![s] = 0]
    BY <2>1, DialsKeep
  <2>3. /\ sock'[s] = "dialling" /\ dialler'[s] = 0
        /\ \A t \in Socks : t # s => sock'[t] = sock[t]
        /\ sock' \in [Socks -> SockStates] /\ dialler' = [t \in Socks |-> dialler'[t]]
    BY <2>2 DEF LinkOK, LinkTypes, SockStates
  <2>4. timers' \in Nat /\ attempts' \in Nat /\ (attempts' < MaxAttempts => attempts < MaxAttempts)
    BY <1>1, <2>1, BuildAssumption DEF LinkOK, LinkTypes
  <2>5. LinkTypes'
    BY <1>1, <2>1, <2>2, <2>3, <2>4 DEF LinkOK, LinkTypes
  <2>6. LinkStands'
    BY <1>1, <2>1, <2>2, <2>3, <2>4 DEF LinkOK, LinkStands
  <2> QED BY <2>3, <2>5, <2>6 DEF LinkOK, RetryUnderWay
<1> QED BY <1>2, <1>3

LEMMA SucceedsKeeps ==
    ASSUME LinkOK, NEW s \in Socks, Builds!HandshakeSucceeds(s)
    PROVE  LinkOK'
<1>1. /\ sock' = [sock EXCEPT ![s] = "open"] /\ metroEventWs' = s /\ known' = TRUE /\ reconnecting' = FALSE
      /\ attempts' = 0 /\ UNCHANGED <<dialler, timers, lostDial>>
  BY DEF Builds!HandshakeSucceeds
<1>2. sock' \in [Socks -> SockStates] /\ sock'[s] = "open"
  BY <1>1 DEF LinkOK, LinkTypes, SockStates
<1> QED BY <1>1, <1>2 DEF LinkOK, LinkTypes, RetryUnderWay, LinkStands

LEMMA FailsKeeps ==
    ASSUME LinkOK, NEW s \in Socks, Builds!HandshakeFails(s)
    PROVE  LinkOK'
<1>1. /\ sock[s] = "dialling" /\ sock' = [sock EXCEPT ![s] = "closed"]
      /\ UNCHANGED <<dialler, metroEventWs, known, attempts>>
  BY DEF Builds!HandshakeFails
<1>2. /\ sock' \in [Socks -> SockStates] /\ sock'[s] = "closed"
      /\ \A t \in Socks : t # s => sock'[t] = sock[t]
  BY <1>1 DEF LinkOK, LinkTypes, SockStates
<1>3. CASE reconnecting
  <2>1. lostDial' = (lostDial \/ dialler[s] = 0) /\ UNCHANGED <<reconnecting, timers>>
    BY <1>3 DEF Builds!HandshakeFails, Builds!Timer
  <2>2. LinkTypes'
    BY <1>1, <1>2, <2>1 DEF LinkOK, LinkTypes
  <2>3. RetryUnderWay'
    BY <1>1, <1>2, <2>1 DEF LinkOK, RetryUnderWay
  <2> QED BY <1>3, <2>1, <2>2, <2>3 DEF LinkOK, LinkStands
<1>4. CASE ~reconnecting /\ dialler[s] = 0
  <2>1. lostDial' = lostDial /\ reconnecting' = ~(attempts >= MaxAttempts)
        /\ timers' = timers + IF attempts >= MaxAttempts THEN 0 ELSE 1
    BY <1>4 DEF Builds!HandshakeFails, Builds!Timer, Builds!ScheduleBuildEventReconnection
  <2>2. timers' \in Nat /\ (~(attempts >= MaxAttempts) => timers' > 0)
        /\ (attempts >= MaxAttempts <=> ~(attempts < MaxAttempts))
    BY <2>1, BuildAssumption DEF LinkOK, LinkTypes
  <2>3. LinkTypes'
    BY <1>1, <1>2, <2>1, <2>2 DEF LinkOK, LinkTypes
  <2> QED BY <1>1, <2>1, <2>2, <2>3 DEF LinkOK, LinkStands, RetryUnderWay
<1>5. CASE ~reconnecting /\ dialler[s] # 0
  <2>1. UNCHANGED <<reconnecting, timers, lostDial>>
    BY <1>5 DEF Builds!HandshakeFails, Builds!Timer
  <2>2. LinkTypes'
    BY <1>1, <1>2, <2>1 DEF LinkOK, LinkTypes
  <2>3. LinkStands'
    BY <1>1, <1>2, <2>1 DEF LinkOK, LinkStands
  <2> QED BY <1>5, <2>1, <2>2, <2>3 DEF LinkOK, RetryUnderWay
<1> QED BY <1>3, <1>4, <1>5

LEMMA CloseKeeps ==
    ASSUME LinkOK, NEW s \in Socks, Builds!CloseEvent(s)
    PROVE  LinkOK'
<1>1. /\ sock[s] = "closing" /\ sock' = [sock EXCEPT ![s] = "closed"] /\ metroEventWs' = 0
      /\ UNCHANGED <<dialler, known, attempts, lostDial>>
  BY DEF Builds!CloseEvent, Builds!NoSock
<1>2. /\ sock' \in [Socks -> SockStates] /\ sock'[s] = "closed"
      /\ \A t \in Socks : t # s => sock'[t] = sock[t]
  BY <1>1 DEF LinkOK, LinkTypes, SockStates
<1>3. attempts >= MaxAttempts <=> ~(attempts < MaxAttempts)
  BY BuildAssumption DEF LinkOK, LinkTypes
<1>4. CASE ~known
  <2>1. UNCHANGED <<reconnecting, timers>>
    BY <1>4 DEF Builds!CloseEvent, Builds!Reconnects
  <2>2. LinkTypes'
    BY <1>1, <1>2, <2>1 DEF LinkOK, LinkTypes
  <2>3. RetryUnderWay'
    BY <1>1, <1>2, <2>1 DEF LinkOK, RetryUnderWay
  <2> QED BY <1>1, <1>4, <2>2, <2>3 DEF LinkOK, LinkStands
<1>5. CASE known /\ (reconnecting \/ attempts >= MaxAttempts)
  <2>1. UNCHANGED <<reconnecting, timers>>
    <3>1. timers + 0 = timers
      BY DEF LinkOK, LinkTypes
    <3> QED BY <1>5, <3>1 DEF Builds!CloseEvent, Builds!Reconnects, Builds!ScheduleBuildEventReconnection
  <2>2. LinkTypes'
    BY <1>1, <1>2, <2>1 DEF LinkOK, LinkTypes
  <2>3. RetryUnderWay'
    BY <1>1, <1>2, <2>1 DEF LinkOK, RetryUnderWay
  <2> QED BY <1>1, <1>3, <1>5, <2>1, <2>2, <2>3 DEF LinkOK, LinkStands
<1>6. CASE known /\ ~(reconnecting \/ attempts >= MaxAttempts)
  <2>1. reconnecting' = TRUE /\ timers' = timers + 1
    BY <1>6 DEF Builds!CloseEvent, Builds!Reconnects, Builds!ScheduleBuildEventReconnection
  <2>2. timers' \in Nat /\ timers' > 0
    BY <2>1 DEF LinkOK, LinkTypes
  <2>3. LinkTypes'
    BY <1>1, <1>2, <2>1, <2>2 DEF LinkOK, LinkTypes
  <2> QED BY <2>1, <2>2, <2>3 DEF LinkOK, LinkStands, RetryUnderWay
<1> QED BY <1>4, <1>5, <1>6

LEMMA MetroStopsKeeps ==
    ASSUME LinkOK, Builds!MetroStops
    PROVE  LinkOK'
<1>1. /\ sock' = [s \in Socks |-> IF sock[s] = "open" THEN "closing" ELSE sock[s]]
      /\ UNCHANGED <<dialler, metroEventWs, known, reconnecting, attempts, timers, lostDial>>
  BY DEF Builds!MetroStops, Builds!retry
<1>2. /\ sock' \in [Socks -> SockStates]
      /\ \A s \in Socks : sock'[s] = sock[s] \/ (sock[s] = "open" /\ sock'[s] = "closing")
  BY <1>1 DEF LinkOK, LinkTypes, SockStates
<1> QED BY <1>1, <1>2 DEF LinkOK, LinkTypes, RetryUnderWay, LinkStands

LEMMA LinkConnects ==
    ASSUME LinkOK, NEW c \in BuildCalls, Builds!ConnectMetroBuildEvents(c)
    PROVE  LinkOK'
<1>1. UNCHANGED <<metroEventWs, known, reconnecting, attempts, timers, lostDial>>
  BY DEF Builds!ConnectMetroBuildEvents, Builds!retry
<1>2. CASE UNCHANGED <<sock, dialler>>
  BY <1>1, <1>2, LinkUnchanged
<1>3. CASE Builds!DialFor(c)
  <2>1. PICK s \in Socks : /\ sock[s] = "none" /\ sock' = [sock EXCEPT ![s] = "dialling"]
                           /\ dialler' = [dialler EXCEPT ![s] = c]
    BY <1>3, DialsKeep
  <2>2. /\ \A t \in Socks : t # s => sock'[t] = sock[t] /\ dialler'[t] = dialler[t]
        /\ sock' \in [Socks -> SockStates] /\ dialler' = [t \in Socks |-> dialler'[t]]
    BY <2>1 DEF LinkOK, LinkTypes, SockStates
  <2>3. LinkTypes'
    BY <1>1, <2>1, <2>2 DEF LinkOK, LinkTypes
  <2>4. RetryUnderWay'
    BY <1>1, <2>1, <2>2 DEF LinkOK, RetryUnderWay
  <2>5. LinkStands'
    BY <1>1, <2>1, <2>2 DEF LinkOK, LinkStands
  <2> QED BY <2>3, <2>4, <2>5 DEF LinkOK
<1> QED BY <1>2, <1>3 DEF Builds!ConnectMetroBuildEvents

LEMMA LinkDrops ==
    ASSUME LinkOK, NEW c \in BuildCalls, Builds!DisconnectMetroBuildEvents(c)
    PROVE  LinkOK'
<1>1. /\ metroEventWs # 0 /\ sock' = [sock EXCEPT ![metroEventWs] = "closing"] /\ metroEventWs' = 0
      /\ UNCHANGED <<dialler, known, reconnecting, attempts, timers, lostDial>>
  BY DEF Builds!DisconnectMetroBuildEvents, Builds!retry, Builds!NoSock
<1>2. PICK s \in Socks : s = metroEventWs /\ sock[s] \in {"open", "closing"}
  BY <1>1 DEF LinkOK, LinkTypes
<1>3. /\ sock'[s] = "closing" /\ sock' \in [Socks -> SockStates]
      /\ \A t \in Socks : t # s => sock'[t] = sock[t]
  BY <1>1, <1>2 DEF LinkOK, LinkTypes, SockStates
<1>4. LinkTypes'
  BY <1>1, <1>3 DEF LinkOK, LinkTypes
<1>5. RetryUnderWay'
  BY <1>1, <1>2, <1>3 DEF LinkOK, RetryUnderWay
<1> QED BY <1>3, <1>4, <1>5 DEF LinkOK, LinkStands

-----------------------------------------------------------------------------
(* The buffer's steps.                                                     *)

LEMMA LinkedIs ==
    /\ IsFiniteSet(Builds!Linked) /\ Builds!Cardinality(Builds!Linked) \in Nat
    /\ Builds!Linked # {} => Builds!Cardinality(Builds!Linked) > 0
<1>1. Builds!Linked \subseteq Socks
  BY DEF Builds!Linked
<1>2. IsFiniteSet(Builds!Linked)
  BY <1>1, FS_Subset, BuildAssumption
<1>3. Cardinality(Builds!Linked) \in Nat /\ (Cardinality(Builds!Linked) = 0 <=> Builds!Linked = {})
  BY <1>2, FS_CardinalityType, FS_EmptySet
<1>4. Builds!Cardinality(Builds!Linked) = Cardinality(Builds!Linked)
  BY DEF Builds!Cardinality, Cardinality
<1> QED BY <1>2, <1>3, <1>4

LEMMA BuildFailsKeeps ==
    ASSUME BuildParts, NEW json \in BOOLEAN, Builds!BuildFails(json)
    PROVE  BuildParts'
<1> DEFINE n == Builds!Cardinality(Builds!Linked)
           b == builds + 1
           copies == [i \in 1..n |-> b]
<1>1. b \in Nat /\ builds' = b
  BY DEF BuildParts, BufferTypes, Builds!BuildFails
<1>2. n \in Nat /\ (Builds!Linked # {} => n > 0)
  BY LinkedIs
<1>3. errors \in Seq(Nat) /\ hasError \in BOOLEAN
  BY DEF BuildParts, BufferTypes
<1>4. /\ errors' = Builds!Newest(errors \o copies, BufferSize)
      /\ hasError' = (hasError \/ Builds!Linked # {})
      /\ UNCHANGED <<sock, dialler, metroEventWs, known, reconnecting, attempts, timers, lostDial, buildCall>>
  BY <1>1 DEF Builds!BuildFails, Builds!link, Builds!retry
<1> HIDE DEF b, n
<1>5. copies \in Seq(Nat) /\ Len(copies) = n
  BY <1>1, <1>2, IsASeq, LenProperties
<1> HIDE DEF copies
<1>6. errors \o copies \in Seq(Nat) /\ Len(errors \o copies) = Len(errors) + Len(copies)
  BY <1>3, <1>5, ConcatProperties
<1>7. errors' \in Seq(Nat) /\ (errors \o copies # <<>> => errors' # <<>>)
  BY <1>4, <1>6, NewestAre, BuildAssumption
<1>8. hasError' => errors' # <<>>
  <2>1. Len(errors) \in Nat /\ (errors # <<>> => Len(errors) > 0)
    BY <1>3, LenProperties, EmptySeq
  <2>2. hasError => Len(errors) > 0
    BY <2>1 DEF BuildParts, Builds!ErrorsBacked
  <2>3. hasError' => Len(errors) > 0 \/ n > 0
    BY <1>2, <1>4, <2>2
  <2>4. hasError' => Len(errors \o copies) > 0
    BY <1>2, <1>5, <1>6, <2>1, <2>3
  <2>5. errors \o copies = <<>> => Len(errors \o copies) = 0
    BY EmptySeq
  <2> QED BY <1>7, <2>4, <2>5
<1>9. LinkOK' /\ CallsTold'
  BY <1>4, LinkUnchanged, CallStays DEF BuildParts
<1> QED BY <1>1, <1>3, <1>4, <1>7, <1>8, <1>9 DEF BuildParts, BufferTypes, Builds!ErrorsBacked

LEMMA BuildStartsKeeps ==
    ASSUME BuildParts, NEW first \in BOOLEAN, Builds!BuildStarts(first)
    PROVE  BuildParts'
<1>1. /\ hasError' = (hasError /\ ~first) /\ UNCHANGED <<builds, errors, buildCall>>
      /\ UNCHANGED <<sock, dialler, metroEventWs, known, reconnecting, attempts, timers, lostDial>>
  BY DEF Builds!BuildStarts, Builds!link, Builds!retry, Builds!metro
<1>2. LinkOK' /\ CallsTold'
  BY <1>1, LinkUnchanged, CallStays DEF BuildParts
<1> QED BY <1>1, <1>2 DEF BuildParts, BufferTypes, Builds!ErrorsBacked

\* What leaves the buffer and the calls alone needs the link to keep.
SameBuffer == UNCHANGED <<errors, hasError, builds>>

LEMMA BufferStays ==
    ASSUME BuildParts, SameBuffer, LinkOK', CallsTold'
    PROVE  BuildParts'
BY DEF BuildParts, BufferTypes, Builds!ErrorsBacked, SameBuffer

LEMMA LinkStays ==
    ASSUME BuildParts, UNCHANGED <<sock, dialler, metroEventWs, known, reconnecting, attempts, timers, lostDial>>
    PROVE  LinkOK'
BY LinkUnchanged DEF BuildParts

LEMMA GetBundleErrorsKeeps ==
    ASSUME BuildParts, NEW c \in BuildCalls, NEW clear \in BOOLEAN, NEW platform \in BOOLEAN,
           Builds!GetBundleErrors(c, clear, platform)
    PROVE  BuildParts'
<1> DEFINE told == Builds!Latest(errors)
           cleared == IF clear THEN Len(errors) ELSE 0
           pc == IF told # <<>> \/ ~platform THEN "answered" ELSE "state"
<1>1. PICK x : x = [pc |-> pc, told |-> told, cleared |-> cleared]
  OBVIOUS
<1>2. /\ errors' = (IF clear THEN <<>> ELSE errors) /\ hasError' = (IF clear THEN FALSE ELSE hasError)
      /\ buildCall' = [buildCall EXCEPT ![c] = x] /\ builds' = builds
      /\ UNCHANGED <<sock, dialler, metroEventWs, known, reconnecting, attempts, timers, lostDial>>
  BY <1>1 DEF Builds!GetBundleErrors, Builds!ReadThenClear, Builds!FlagAfterClear, Builds!link, Builds!retry,
              Builds!metro
<1>3. errors \in Seq(Nat)
  BY DEF BuildParts, BufferTypes
<1>4. /\ told \in Seq(Nat) /\ Len(errors) \in Nat
      /\ Len(errors) > Len(told) => told # <<>> /\ Len(errors) > MaxErrors
      /\ told = <<>> => Len(errors) = 0
  BY <1>3, LatestTells
<1> HIDE DEF told
<1>5. Told(x)
  <2>1. /\ x = [i \in ToldFields |-> x[i]] /\ x.told = told /\ x.cleared = cleared /\ x.pc = pc
    BY <1>1 DEF ToldFields
  <2>2. Len(told) \in Nat
    BY <1>4, LenProperties
  <2>3. /\ cleared \in Nat /\ (cleared > Len(told) => told # <<>> /\ cleared > MaxErrors)
        /\ (pc \in {"state", "shot"} => cleared = 0)
    BY <1>4, <2>2
  <2> QED BY <1>4, <2>1, <2>3 DEF Told
<1>6. CallsTold'
  BY <1>2, <1>5, CallBecomes DEF BuildParts
<1>7. LinkOK'
  BY <1>2, LinkStays
<1>8. errors' \in Seq(Nat) /\ hasError' \in BOOLEAN /\ (hasError' => errors' # <<>>)
  BY <1>2, <1>3, EmptySeq DEF BuildParts, BufferTypes, Builds!ErrorsBacked
<1> QED BY <1>2, <1>6, <1>7, <1>8 DEF BuildParts, BufferTypes, Builds!ErrorsBacked

LEMMA CheckMetroStateKeeps ==
    ASSUME BuildParts, NEW c \in BuildCalls, NEW needsFallback \in BOOLEAN,
           Builds!CheckMetroState(c, needsFallback)
    PROVE  BuildParts'
<1>1. PICK x : x = [buildCall[c] EXCEPT !.pc = IF needsFallback THEN "shot" ELSE "answered"]
  OBVIOUS
<1>2. /\ buildCall[c].pc = "state" /\ buildCall' = [buildCall EXCEPT ![c] = x] /\ SameBuffer
      /\ UNCHANGED <<sock, dialler, metroEventWs, known, reconnecting, attempts, timers, lostDial>>
  BY <1>1 DEF Builds!CheckMetroState, Builds!link, Builds!retry, Builds!metro, Builds!buffer, SameBuffer
<1>3. Told(buildCall[c])
  BY DEF BuildParts, CallsTold
<1>4. Told(x)
  BY <1>1, <1>2, <1>3 DEF Told, ToldFields
<1>5. CallsTold'
  BY <1>2, <1>4, CallBecomes DEF BuildParts
<1>6. LinkOK'
  BY <1>2, LinkStays
<1> QED BY <1>2, <1>5, <1>6, BufferStays

LEMMA ReadsScreenKeeps ==
    ASSUME BuildParts, NEW c \in BuildCalls, NEW found \in BOOLEAN, Builds!ReadsScreen(c, found)
    PROVE  BuildParts'
<1>1. PICK told : told = IF found THEN <<builds>> ELSE <<>>
  OBVIOUS
<1>2. PICK x : x = [buildCall[c] EXCEPT !.pc = "answered", !.told = told]
  OBVIOUS
<1>3. /\ buildCall[c].pc = "shot" /\ buildCall' = [buildCall EXCEPT ![c] = x] /\ builds' = builds
      /\ UNCHANGED <<sock, dialler, metroEventWs, known, reconnecting, attempts, timers, lostDial>>
  BY <1>1, <1>2 DEF Builds!ReadsScreen, Builds!link, Builds!retry, Builds!metro
<1>4. errors \in Seq(Nat) /\ builds \in Nat /\ hasError \in BOOLEAN /\ (hasError => errors # <<>>)
  BY DEF BuildParts, BufferTypes, Builds!ErrorsBacked
<1>5. errors' \in Seq(Nat) /\ hasError' \in BOOLEAN /\ (hasError' => errors' # <<>>)
  <2>1. CASE found
    <3>1. errors' = Builds!Add(errors, builds) /\ hasError' = TRUE
      BY <2>1 DEF Builds!ReadsScreen
    <3> QED BY <1>4, <3>1, AddedIs
  <2>2. CASE ~found
    BY <1>4, <2>2 DEF Builds!ReadsScreen
  <2> QED BY <2>1, <2>2
<1>6. told \in Seq(Nat) /\ Len(told) \in Nat
  <2>1. told \in Seq(Nat)
    BY <1>1, <1>4
  <2> QED BY <2>1, LenProperties
<1>7. Told(buildCall[c])
  BY DEF BuildParts, CallsTold
<1>8. Told(x)
  <2>1. /\ x = [i \in ToldFields |-> x[i]] /\ x.told = told /\ x.pc = "answered"
        /\ x.cleared = buildCall[c].cleared
    BY <1>2, <1>7 DEF Told, ToldFields
  <2>2. buildCall[c].cleared = 0
    BY <1>3, <1>7 DEF Told
  <2>3. ~(x.cleared > Len(told)) /\ x.cleared \in Nat
    BY <1>6, <2>1, <2>2
  <2> QED BY <1>6, <2>1, <2>3 DEF Told
<1>9. CallsTold'
  BY <1>3, <1>8, CallBecomes DEF BuildParts
<1>10. LinkOK'
  BY <1>3, LinkStays
<1> QED BY <1>3, <1>4, <1>5, <1>9, <1>10 DEF BuildParts, BufferTypes, Builds!ErrorsBacked

-----------------------------------------------------------------------------
(* The link's steps, with the calls that wait for it.                      *)

LEMMA CallAnswers ==
    ASSUME BuildParts, NEW c,
           \/ buildCall' = [buildCall EXCEPT ![c].pc = "answered"]
           \/ buildCall' = [buildCall EXCEPT ![c].pc = "linking"]
           \/ UNCHANGED buildCall
    PROVE  CallsTold'
<1>1. CallsTold /\ "answered" \notin {"state", "shot"} /\ "linking" \notin {"state", "shot"}
  BY DEF BuildParts
<1>2. CASE buildCall' = [buildCall EXCEPT ![c].pc = "answered"]
  BY <1>1, <1>2, CallGoes, Zenon
<1>3. CASE buildCall' = [buildCall EXCEPT ![c].pc = "linking"]
  BY <1>1, <1>3, CallGoes, Zenon
<1> QED BY <1>1, <1>2, <1>3, CallStays

LEMMA SocketStep ==
    ASSUME BuildParts, NEW s \in Socks,
           Builds!HandshakeSucceeds(s) \/ Builds!HandshakeFails(s) \/ Builds!CloseEvent(s)
    PROVE  BuildParts'
<1>1. LinkOK'
  BY SucceedsKeeps, FailsKeeps, CloseKeeps DEF BuildParts
<1>2. SameBuffer
  BY DEF Builds!HandshakeSucceeds, Builds!HandshakeFails, Builds!CloseEvent, Builds!metro, Builds!buffer, SameBuffer
<1>3. buildCall' = [buildCall EXCEPT ![dialler[s]].pc = "answered"] \/ UNCHANGED buildCall
  BY DEF Builds!HandshakeSucceeds, Builds!HandshakeFails, Builds!CloseEvent
<1> QED BY <1>1, <1>2, <1>3, CallAnswers, BufferStays

LEMMA LinkStep ==
    ASSUME BuildParts, NEW c \in BuildCalls,
           Builds!ConnectMetroBuildEvents(c) \/ Builds!DisconnectMetroBuildEvents(c)
    PROVE  BuildParts'
<1>1. LinkOK'
  BY LinkConnects, LinkDrops DEF BuildParts
<1>2. SameBuffer
  BY DEF Builds!ConnectMetroBuildEvents, Builds!DisconnectMetroBuildEvents, Builds!metro, Builds!buffer, SameBuffer
<1>3. \/ buildCall' = [buildCall EXCEPT ![c].pc = "answered"]
      \/ buildCall' = [buildCall EXCEPT ![c].pc = "linking"]
  BY DEF Builds!ConnectMetroBuildEvents, Builds!DisconnectMetroBuildEvents
<1> QED BY <1>1, <1>2, <1>3, CallAnswers, BufferStays

LEMMA MetroStep ==
    ASSUME BuildParts,
           Builds!MetroStops \/ Builds!MetroStarts \/ Builds!BuildDone \/ Builds!TimerFires
    PROVE  BuildParts'
<1>1. LinkOK'
  <2>1. CASE Builds!MetroStops \/ Builds!TimerFires
    BY <2>1, MetroStopsKeeps, TimerKeeps DEF BuildParts
  <2>2. CASE Builds!MetroStarts \/ Builds!BuildDone
    BY <2>2, LinkStays DEF Builds!MetroStarts, Builds!BuildDone, Builds!link, Builds!retry
  <2> QED BY <2>1, <2>2
<1>2. SameBuffer /\ UNCHANGED buildCall
  BY DEF Builds!MetroStops, Builds!MetroStarts, Builds!BuildDone, Builds!TimerFires, Builds!metro, Builds!buffer,
         SameBuffer
<1> QED BY <1>1, <1>2, CallStays, BufferStays DEF BuildParts

-----------------------------------------------------------------------------
LEMMA BuildsStart == Builds!Init => BuildParts
<1> SUFFICES ASSUME Builds!Init
             PROVE  BuildParts
  OBVIOUS
<1> USE DEF Builds!Init
<1>1. LinkOK
  BY DEF LinkOK, LinkTypes, RetryUnderWay, LinkStands, SockStates, Builds!NoSock
<1>2. CallsTold
  <2>1. PICK x : x = Builds!Idle
    OBVIOUS
  <2>2. Told(x)
    <3>1. x = [i \in ToldFields |-> x[i]] /\ x.pc = "idle" /\ x.told = <<>> /\ x.cleared = 0
      BY <2>1 DEF Builds!Idle, ToldFields
    <3>2. <<>> \in Seq(Nat) /\ Len(<<>>) = 0
      BY EmptySeq
    <3>3. x.told \in Seq(Nat) /\ Len(x.told) = 0
      BY <3>1, <3>2
    <3>4. x.cleared \in Nat /\ ~(x.cleared > Len(x.told))
      BY <3>1, <3>3
    <3> QED BY <3>1, <3>3, <3>4 DEF Told
  <2> QED BY <2>1, <2>2 DEF CallsTold
<1>3. BufferTypes /\ Builds!ErrorsBacked
  BY EmptySeq DEF BufferTypes, Builds!ErrorsBacked
<1> QED BY <1>1, <1>2, <1>3 DEF BuildParts

LEMMA BuildsStep == BuildParts /\ Builds!Next => BuildParts'
<1> SUFFICES ASSUME BuildParts, Builds!Next
             PROVE  BuildParts'
  OBVIOUS
<1>1. CASE Builds!MetroStops \/ Builds!MetroStarts \/ Builds!BuildDone \/ Builds!TimerFires
  BY <1>1, MetroStep
<1>2. ASSUME NEW s \in Socks,
             Builds!HandshakeSucceeds(s) \/ Builds!HandshakeFails(s) \/ Builds!CloseEvent(s)
      PROVE  BuildParts'
  BY <1>2, SocketStep
<1>3. ASSUME NEW c \in BuildCalls,
             Builds!ConnectMetroBuildEvents(c) \/ Builds!DisconnectMetroBuildEvents(c)
      PROVE  BuildParts'
  BY <1>3, LinkStep
<1>4. ASSUME NEW c \in BuildCalls, NEW b \in BOOLEAN, NEW p \in BOOLEAN, Builds!GetBundleErrors(c, b, p)
      PROVE  BuildParts'
  BY <1>4, GetBundleErrorsKeeps
<1>5. ASSUME NEW c \in BuildCalls, NEW b \in BOOLEAN, Builds!CheckMetroState(c, b) \/ Builds!ReadsScreen(c, b)
      PROVE  BuildParts'
  BY <1>5, CheckMetroStateKeeps, ReadsScreenKeeps
<1>6. ASSUME NEW b \in BOOLEAN, Builds!BuildStarts(b) \/ Builds!BuildFails(b)
      PROVE  BuildParts'
  BY <1>6, BuildStartsKeeps, BuildFailsKeeps
<1> QED BY <1>1, <1>2, <1>3, <1>4, <1>5, <1>6 DEF Builds!Next

LEMMA BuildsIdle == BuildParts /\ UNCHANGED buildVars => BuildParts'
<1> SUFFICES ASSUME BuildParts, UNCHANGED buildVars
             PROVE  BuildParts'
  OBVIOUS
<1>1. LinkOK' /\ SameBuffer /\ UNCHANGED buildCall
  BY LinkStays DEF buildVars, SameBuffer
<1> QED BY <1>1, CallStays, BufferStays DEF BuildParts

(*************************************************************************)
(* The names of an Electron app's windows: what is known of each is kept  *)
(* as a page's, whatever calls name it.                                   *)
(*************************************************************************)

Given   == Nat \X (Nat \ {0})
NameOf  == Given \union {Windows!NoName}
Shown   == [url : Urls, title : Titles \union {Windows!Untitled}]
Entries == [name : Given, url : Urls, base : Nat, untitled : BOOLEAN]

\* A name is reserved once, for a page, under the title or the address it is made of.
Reserved(res) ==
    /\ res \in Seq(Entries)
    /\ \A i \in DOMAIN res :
          /\ res[i].name[1] = res[i].base
          /\ IF res[i].untitled THEN res[i].base = res[i].url ELSE res[i].base \in Titles
    /\ \A i, j \in DOMAIN res : res[i].name = res[j].name => i = j

KeptFor(res, n, url) == \E i \in DOMAIN res : res[i].name = n /\ res[i].url = url
KeptAll(b, res, sh) == \A w \in Ids : b[w] # Windows!NoName => KeptFor(res, b[w], sh[w])

\* A name given and not fixed yet: a reserved one, or one made of the address.
NameFor(res, n, url) == n \in Given /\ (KeptFor(res, n, url) \/ n[1] = url)

\* Nothing reserved is lost.
Extends(res, more) == \A i \in DOMAIN res : i \in DOMAIN more /\ more[i] = res[i]

Listed(d, n, res) ==
    /\ d.url \in Urls /\ d.title \in Titles \union {Windows!Untitled}
    /\ n = Windows!NoName => d.title = Windows!Untitled /\ NameFor(res, d.name, d.url)

LookupFields == {"pc", "for", "list", "w"}
LookupOK(x, b, res, as) ==
    /\ DOMAIN x = LookupFields
    /\ x.for \in as \union {Windows!Whichever}
    /\ x.pc \in {"idle", "listed", "named", "dialled", "done"}
    /\ x.pc = "listed" => DOMAIN x.list \subseteq Ids /\ \A w \in DOMAIN x.list : x.list[w] \in Shown
    /\ x.pc \in {"named", "dialled"} =>
          DOMAIN x.list \subseteq Ids /\ \A w \in DOMAIN x.list : Listed(x.list[w], b[w], res)
    /\ x.pc = "dialled" => x.w \in DOMAIN x.list /\ x.w \in as
LookupsOK(calls, b, res, as) ==
    calls = [c \in Lookups |-> calls[c]] /\ \A c \in Lookups : LookupOK(calls[c], b, res, as)

Namings(b, res, sh) ==
    b \in [Ids -> NameOf] /\ sh \in [Ids -> Nat] /\ Reserved(res) /\ KeptAll(b, res, sh)
WindowPages(win) == win \in [Ids -> Shown \union {Windows!Gone}]
RegisteredAsFixed(nm, b, as) ==
    /\ nm \in [Ids -> NameOf]
    /\ \A w \in Ids : nm[w] # Windows!NoName => nm[w] = b[w] /\ w \in as

NameParts ==
    /\ WindowPages(window) /\ Namings(byId, reserved, shown) /\ RegisteredAsFixed(named, byId, asked)
    /\ LookupsOK(lookup, byId, reserved, asked)

-----------------------------------------------------------------------------
(* A name is taken by one page.                                            *)

LEMMA NoNameIs == Windows!NoName \notin Given
BY DEF Given, Windows!NoName

LEMMA FirstIs ==
  ASSUME NEW list, NEW open, open # {}, open \subseteq Ids,
         \A w \in open : list[w].url \in Nat
  PROVE  Windows!FirstOf(list, open) \in open
<1> DEFINE urls == {list[w].url : w \in open}
<1>1. urls \subseteq Nat /\ urls # {}
  OBVIOUS
<1>2. Min(urls) \in urls /\ \A u \in urls : Min(urls) <= u
  BY <1>1, MinIs
<1> DEFINE these == {w \in open : list[w].url = Min(urls)}
<1>3. these \subseteq Nat /\ these # {}
  BY <1>2, NameAssumption
<1>4. Min(these) \in these /\ \A w \in these : Min(these) <= w
  BY <1>3, MinIs
<1>5. PICK u : u = Min(urls)
  OBVIOUS
<1>6. PICK m : m = Min(these)
  OBVIOUS
<1>7. m \in open /\ m \in Nat /\ list[m].url = u /\ u \in Nat
  BY <1>1, <1>2, <1>3, <1>4, <1>5, <1>6
<1>8. ASSUME NEW v \in open \ {m}
      PROVE  Windows!Before(list, m, v)
  <2>1. v \in Nat /\ list[v].url \in Nat /\ u <= list[v].url
    BY <1>2, <1>5, NameAssumption
  <2>2. list[v].url = u => m <= v
    BY <1>4, <1>5, <1>6
  <2> QED BY <1>7, <2>1, <2>2 DEF Windows!Before
<1>9. \E w \in open : \A v \in open \ {w} : Windows!Before(list, w, v)
  BY <1>7, <1>8
<1> QED BY <1>9 DEF Windows!FirstOf

LEMMA WindowsMin ==
  ASSUME NEW S, S \subseteq Nat, S # {}
  PROVE  Windows!Min(S) \in S /\ \A i \in S : Windows!Min(S) <= i
BY MinIs DEF Min, Windows!Min

LEMMA WindowsCardinality == \A S : Windows!Cardinality(S) = Cardinality(S)
BY DEF Cardinality, Windows!Cardinality

\* Of title, title#2, ... one is free.
LEMMA OneIsFree ==
  ASSUME NEW s, NEW url, NEW base, Reserved(s.reserved), IsFiniteSet(s.live)
  PROVE  \E k \in Windows!Numbers(s) : Windows!Free(s, url, <<base, k>>)
<1> DEFINE K == Windows!Numbers(s)
           R == {s.reserved[i].name : i \in DOMAIN s.reserved}
           T == s.live \union R
           f == [k \in K |-> <<base, k>>]
<1> SUFFICES ASSUME \A k \in K : ~ Windows!Free(s, url, <<base, k>>)
             PROVE  FALSE
  OBVIOUS
<1>1. Len(s.reserved) \in Nat /\ DOMAIN s.reserved = 1..Len(s.reserved)
  BY DEF Reserved
<1>2. IsFiniteSet(R) /\ Cardinality(R) <= Len(s.reserved)
  <2>1. IsFiniteSet(1..Len(s.reserved)) /\ Cardinality(1..Len(s.reserved)) = Len(s.reserved)
    BY <1>1, FS_Interval
  <2> DEFINE g == [i \in 1..Len(s.reserved) |-> s.reserved[i].name]
  <2>2. g \in [1..Len(s.reserved) -> R]
    BY <1>1
  <2>3. \A r \in R : \E i \in 1..Len(s.reserved) : g[i] = r
    BY <1>1
  <2>4. g \in Surjection(1..Len(s.reserved), R)
    BY <2>2, <2>3 DEF Surjection
  <2> HIDE DEF g, R
  <2> QED BY <2>1, <2>4, FS_Surjection
<1>3. Cardinality(s.live) \in Nat /\ Cardinality(R) \in Nat
  BY <1>2, FS_CardinalityType
<1>4. IsFiniteSet(T) /\ Cardinality(T) <= Len(s.reserved) + Cardinality(s.live)
  <2> HIDE DEF R
  <2>1. IsFiniteSet(T)
    BY <1>2, FS_Union
  <2>2. Cardinality(T) = Cardinality(s.live) + Cardinality(R) - Cardinality(s.live \cap R)
    BY <1>2, FS_Union
  <2>3. Cardinality(s.live \cap R) \in Nat
    BY <1>2, FS_Intersection, FS_CardinalityType
  <2>4. Cardinality(T) \in Nat
    BY <2>1, FS_CardinalityType
  <2> HIDE DEF T
  <2> QED BY <1>1, <1>2, <1>3, <2>1, <2>2, <2>3, <2>4
<1>5. IsFiniteSet(K) /\ Cardinality(K) = Len(s.reserved) + Cardinality(s.live) + 1
  <2>1. PICK n \in Nat : n = Len(s.reserved) + Cardinality(s.live) + 1
    BY <1>1, <1>3
  <2>2. K = 1..n
    BY <2>1, WindowsCardinality DEF Windows!Numbers
  <2>3. IsFiniteSet(1..n) /\ Cardinality(1..n) = IF 1 > n THEN 0 ELSE n - 1 + 1
    <3>1. 1 \in Int /\ n \in Int
      OBVIOUS
    <3> HIDE DEF K, T, R, f
    <3> QED BY <3>1, FS_Interval
  <2>4. n >= 1
    BY <1>1, <1>3, <2>1
  <2> QED BY <2>1, <2>2, <2>3, <2>4
<1>6. Cardinality(T) < Cardinality(K)
  <2>1. Cardinality(T) \in Nat
    BY <1>4, FS_CardinalityType
  <2> HIDE DEF T, K
  <2> QED BY <1>1, <1>3, <1>4, <1>5, <2>1
<1>7. ASSUME NEW k \in K
      PROVE  <<base, k>> \in T
  <2>1. ~ Windows!Free(s, url, <<base, k>>)
    OBVIOUS
  <2> QED BY <2>1 DEF Windows!Free
<1>8. f \in [K -> T]
  BY <1>7
<1>9. PICK x, y \in K : x # y /\ f[x] = f[y]
  <2> HIDE DEF f, K, T
  <2> QED BY <1>4, <1>5, <1>6, <1>8, FS_PigeonHole
<1>10. <<base, x>> = <<base, y>>
  BY <1>9
<1> QED BY <1>9, <1>10

\* The name that is found for a page is the page's.
FreshFor(res, n, d) ==
    n[1] = Windows!BaseName(d) /\ \A i \in DOMAIN res : res[i].name = n => res[i].url = d.url

LEMMA NewNameIs ==
  ASSUME NEW s, NEW d, Reserved(s.reserved), IsFiniteSet(s.live),
         d.url \in Urls, d.title \in Titles \union {Windows!Untitled}
  PROVE  /\ Windows!NewName(s, d) \in Given
         /\ KeptFor(s.reserved, Windows!NewName(s, d), d.url) \/ FreshFor(s.reserved, Windows!NewName(s, d), d)
<1>1. CASE Windows!Mine(s, d) # {}
  <2>1. Windows!Mine(s, d) \subseteq DOMAIN s.reserved /\ DOMAIN s.reserved \subseteq Nat
    BY DEF Windows!Mine, Reserved
  <2>2. PICK i : i = Windows!Min(Windows!Mine(s, d))
    OBVIOUS
  <2>3. i \in Windows!Mine(s, d)
    BY <1>1, <2>1, <2>2, WindowsMin
  <2>4. s.reserved[i].url = d.url
    BY <2>3 DEF Windows!Mine
  <2>5. s.reserved[i] \in Entries
    BY <2>1, <2>3 DEF Reserved
  <2>6. Windows!NewName(s, d) = s.reserved[i].name
    BY <1>1, <2>2 DEF Windows!NewName
  <2> QED BY <2>1, <2>3, <2>4, <2>5, <2>6 DEF KeptFor, Entries
<1>2. CASE Windows!Mine(s, d) = {}
  <2> DEFINE frees == {k \in Windows!Numbers(s) : Windows!Free(s, d.url, <<Windows!BaseName(d), k>>)}
  <2>1. frees # {}
    BY OneIsFree
  <2>2. Windows!Numbers(s) \subseteq Nat \ {0}
    BY DEF Windows!Numbers
  <2>3. PICK k : k = Windows!Min(frees)
    OBVIOUS
  <2>4. k \in frees
    BY <2>1, <2>2, <2>3, WindowsMin
  <2>5. Windows!NewName(s, d) = <<Windows!BaseName(d), k>>
    BY <1>2, <2>3 DEF Windows!NewName
  <2>6. Windows!BaseName(d) \in Nat
    BY NameAssumption DEF Windows!BaseName, Windows!IsUntitledPage, Windows!Untitled
  <2>7. Windows!NewName(s, d) \in Given
    BY <2>2, <2>4, <2>5, <2>6 DEF Given
  <2>8. FreshFor(s.reserved, <<Windows!BaseName(d), k>>, d)
    BY <2>4 DEF FreshFor, Windows!Free
  <2> QED BY <2>5, <2>7, <2>8
<1> QED BY <1>1, <1>2

\* A name given to a page of that address is its own still.
LEMMA NameForIs ==
  ASSUME NEW res, Reserved(res), NEW n, NEW d, d.url \in Urls, d.title = Windows!Untitled,
         NameFor(res, n, d.url)
  PROVE  n \in Given /\ (KeptFor(res, n, d.url) \/ FreshFor(res, n, d))
<1>1. n \in Given
  BY DEF NameFor
<1>2. CASE n[1] = d.url
  <2>1. Windows!BaseName(d) = d.url
    BY DEF Windows!BaseName, Windows!IsUntitledPage
  <2>2. ASSUME NEW i \in DOMAIN res, res[i].name = n
        PROVE  res[i].url = d.url
    <3>1. res[i].base = d.url
      BY <1>2, <2>2 DEF Reserved
    <3>2. res[i].base \notin Titles
      BY <3>1, NameAssumption
    <3>3. res[i].base = res[i].url
      BY <3>2 DEF Reserved
    <3> QED BY <3>1, <3>3
  <2> QED BY <1>1, <1>2, <2>1, <2>2 DEF FreshFor
<1> QED BY <1>1, <1>2 DEF NameFor

Pinned(s, w, d, n) == Windows!PinChromiumName(s, w, d, n)

LEMMA PinIs ==
  ASSUME NEW s, NEW w \in Ids, NEW d, NEW n \in Given,
         d.url \in Urls, d.title \in Titles \union {Windows!Untitled},
         s.byId \in [Ids -> NameOf], s.byId[w] = Windows!NoName, Reserved(s.reserved),
         KeptFor(s.reserved, n, d.url) \/ FreshFor(s.reserved, n, d)
  PROVE  /\ Pinned(s, w, d, n).byId = [s.byId EXCEPT ![w] = n]
         /\ Reserved(Pinned(s, w, d, n).reserved)
         /\ Extends(s.reserved, Pinned(s, w, d, n).reserved)
         /\ KeptFor(Pinned(s, w, d, n).reserved, n, d.url)
<1> DEFINE e == [name |-> n, url |-> d.url, base |-> Windows!BaseName(d),
                 untitled |-> Windows!IsUntitledPage(d)]
<1>1. Pinned(s, w, d, n).byId = [s.byId EXCEPT ![w] = n]
  BY DEF Pinned, Windows!PinChromiumName
<1>2. CASE Windows!Holds(s.reserved, n)
  <2>1. Pinned(s, w, d, n).reserved = s.reserved
    BY <1>2 DEF Pinned, Windows!PinChromiumName
  <2>2. Extends(s.reserved, s.reserved)
    BY DEF Extends
  <2>3. KeptFor(s.reserved, n, d.url)
    BY <1>2 DEF KeptFor, FreshFor, Windows!Holds
  <2> QED BY <1>1, <2>1, <2>2, <2>3
<1>3. CASE ~ Windows!Holds(s.reserved, n)
  <2>1. PICK res : res = s.reserved
    OBVIOUS
  <2>2. PICK more : more = Append(res, e)
    OBVIOUS
  <2>3. Pinned(s, w, d, n).reserved = more
    BY <1>3, <2>1, <2>2 DEF Pinned, Windows!PinChromiumName
  <2>4. res \in Seq(Entries) /\ Len(res) \in Nat /\ DOMAIN res = 1..Len(res)
    BY <2>1 DEF Reserved
  <2>5. n[1] = Windows!BaseName(d)
    BY <1>3 DEF KeptFor, FreshFor, Windows!Holds
  <2>6. e \in Entries
    <3>1. Windows!BaseName(d) \in Nat
      BY NameAssumption DEF Windows!BaseName, Windows!IsUntitledPage, Windows!Untitled
    <3> QED BY <3>1 DEF Entries, Windows!IsUntitledPage
  <2>7. IF e.untitled THEN e.base = e.url ELSE e.base \in Titles
    BY DEF Windows!BaseName, Windows!IsUntitledPage
  <2>8. /\ e.name = n /\ e.url = d.url /\ e.base = Windows!BaseName(d)
        /\ IF e.untitled THEN e.base = e.url ELSE e.base \in Titles
    BY <2>7
  <2> HIDE DEF e
  <2>9. /\ more \in Seq(Entries) /\ DOMAIN more = 1..(Len(res) + 1)
        /\ \A i \in DOMAIN res : more[i] = res[i]
        /\ more[Len(res) + 1] = e
    BY <2>2, <2>4, <2>6
  <2>10. \A i \in DOMAIN more : i \in DOMAIN res \/ i = Len(res) + 1
    BY <2>4, <2>9
  <2>11. \A i \in DOMAIN res : i \in DOMAIN more /\ res[i].name # n
    BY <1>3, <2>1, <2>4, <2>9 DEF Windows!Holds
  <2>12. \A i \in DOMAIN more : /\ more[i].name[1] = more[i].base
                                /\ IF more[i].untitled THEN more[i].base = more[i].url ELSE more[i].base \in Titles
    BY <2>1, <2>5, <2>8, <2>9, <2>10 DEF Reserved
  <2>13. \A i, j \in DOMAIN more : more[i].name = more[j].name => i = j
    BY <2>1, <2>8, <2>9, <2>10, <2>11 DEF Reserved
  <2>14. Reserved(more)
    BY <2>9, <2>12, <2>13 DEF Reserved
  <2>15. Extends(res, more)
    BY <2>9, <2>11 DEF Extends
  <2>16. Len(res) + 1 \in DOMAIN more
    BY <2>4, <2>9
  <2>17. KeptFor(more, n, d.url)
    BY <2>8, <2>9, <2>16 DEF KeptFor
  <2> QED BY <1>1, <2>1, <2>3, <2>14, <2>15, <2>17
<1> QED BY <1>2, <1>3

LEMMA KeptStands ==
  ASSUME NEW res, NEW more, Extends(res, more), NEW n, NEW url, KeptFor(res, n, url)
  PROVE  KeptFor(more, n, url)
BY DEF Extends, KeptFor

LEMMA NameForStands ==
  ASSUME NEW res, NEW more, Extends(res, more), NEW n, NEW url, NameFor(res, n, url)
  PROVE  NameFor(more, n, url)
BY KeptStands DEF NameFor

LEMMA ExtendsOn ==
  ASSUME NEW res, NEW more, NEW most, Extends(res, more), Extends(more, most)
  PROVE  Extends(res, most)
BY DEF Extends

-----------------------------------------------------------------------------
(* The windows of a listing are named one after the other.                 *)

\* So far: the names there were are kept, and those fixed since are the pages'.
NamedSince(list, s, b, res) ==
    /\ s.byId \in [Ids -> NameOf] /\ Reserved(s.reserved) /\ Extends(res, s.reserved)
    /\ IsFiniteSet(s.live) /\ DOMAIN s.given = DOMAIN list
    /\ \A w \in Ids : b[w] # Windows!NoName => s.byId[w] = b[w]
    /\ \A w \in Ids : s.byId[w] # b[w] => w \in DOMAIN list /\ KeptFor(s.reserved, s.byId[w], list[w].url)
    /\ \A w \in s.left : w \in DOMAIN list /\ s.byId[w] = Windows!NoName
    /\ \A w \in DOMAIN list : w \notin s.left /\ s.byId[w] = Windows!NoName =>
          list[w].title = Windows!Untitled /\ NameFor(s.reserved, s.given[w], list[w].url)

ListOK(list) == DOMAIN list \subseteq Ids /\ \A w \in DOMAIN list : list[w] \in Shown

LEMMA OneNamed ==
  ASSUME NEW list, ListOK(list), NEW s, NEW b, NEW res, NamedSince(list, s, b, res), NEW w \in s.left
  PROVE  LET t == Windows!NameOne(s, w, list[w])
         IN  NamedSince(list, t, b, res) /\ t.left = s.left \ {w}
<1>1. PICK d : d = list[w]
  OBVIOUS
<1>2. /\ w \in DOMAIN list /\ w \in Ids /\ s.byId[w] = Windows!NoName
      /\ d.url \in Urls /\ d.title \in Titles \union {Windows!Untitled}
  BY <1>1 DEF ListOK, NamedSince, Shown
<1>3. PICK n : n = Windows!NewName(s, d)
  OBVIOUS
<1>4. /\ n \in Given
      /\ KeptFor(s.reserved, n, d.url) \/ FreshFor(s.reserved, n, d)
  BY <1>2, <1>3, NewNameIs DEF NamedSince
<1>5. PICK p : p = IF Windows!IsUntitledPage(d) THEN s ELSE Windows!PinChromiumName(s, w, d, n)
  OBVIOUS
<1>6. PICK t : t = Windows!NameOne(s, w, d)
  OBVIOUS
<1>7. /\ t.byId = p.byId /\ t.reserved = p.reserved /\ t.live = s.live \union {n}
      /\ t.given = [s.given EXCEPT ![w] = n] /\ t.left = s.left \ {w}
  BY <1>3, <1>5, <1>6 DEF Windows!NameOne
<1>8. IsFiniteSet(t.live)
  BY <1>7, FS_AddElement DEF NamedSince
<1>9. DOMAIN t.given = DOMAIN list /\ t.given[w] = n /\ \A v \in DOMAIN list : v # w => t.given[v] = s.given[v]
  BY <1>2, <1>7 DEF NamedSince
<1>10. CASE Windows!IsUntitledPage(d)
  <2>1. t.byId = s.byId /\ t.reserved = s.reserved
    BY <1>5, <1>7, <1>10
  <2>2. d.title = Windows!Untitled /\ Windows!BaseName(d) = d.url
    BY <1>10 DEF Windows!IsUntitledPage, Windows!BaseName
  <2>3. NameFor(t.reserved, n, d.url)
    BY <1>4, <2>1, <2>2 DEF NameFor, FreshFor
  <2>4. \A v \in DOMAIN list : v \notin t.left /\ t.byId[v] = Windows!NoName =>
          list[v].title = Windows!Untitled /\ NameFor(t.reserved, t.given[v], list[v].url)
    BY <1>1, <1>7, <1>9, <2>1, <2>2, <2>3 DEF NamedSince
  <2>5. \A v \in t.left : v \in DOMAIN list /\ t.byId[v] = Windows!NoName
    BY <1>7, <2>1 DEF NamedSince
  <2>6. NamedSince(list, t, b, res)
    BY <1>8, <1>9, <2>1, <2>4, <2>5 DEF NamedSince
  <2> QED BY <1>1, <1>6, <1>7, <2>6
<1>11. CASE ~ Windows!IsUntitledPage(d)
  <2>1. p = Pinned(s, w, d, n)
    BY <1>5, <1>11 DEF Pinned
  <2>2. /\ p.byId = [s.byId EXCEPT ![w] = n] /\ Reserved(p.reserved)
        /\ Extends(s.reserved, p.reserved) /\ KeptFor(p.reserved, n, d.url)
    BY <1>2, <1>4, <2>1, PinIs DEF NamedSince
  <2>3. /\ t.byId = [s.byId EXCEPT ![w] = n] /\ Reserved(t.reserved)
        /\ Extends(s.reserved, t.reserved) /\ KeptFor(t.reserved, n, d.url)
    BY <1>7, <2>2
  <2>4. s.byId \in [Ids -> NameOf] /\ n \in NameOf /\ n # Windows!NoName
    BY <1>4, NoNameIs DEF NamedSince, NameOf
  <2>5. /\ t.byId \in [Ids -> NameOf] /\ t.byId[w] = n
        /\ \A v \in Ids : v # w => t.byId[v] = s.byId[v]
    BY <1>2, <2>3, <2>4
  <2>6. Extends(res, t.reserved)
    BY <2>3, ExtendsOn DEF NamedSince
  <2>7. \A v \in Ids : b[v] # Windows!NoName => t.byId[v] = b[v]
    BY <1>2, <2>5 DEF NamedSince
  <2>8. ASSUME NEW v \in Ids, t.byId[v] # b[v]
        PROVE  v \in DOMAIN list /\ KeptFor(t.reserved, t.byId[v], list[v].url)
    <3>1. CASE v = w
      BY <3>1, <1>1, <1>2, <2>3, <2>5
    <3>2. CASE v # w
      <4>1. t.byId[v] = s.byId[v]
        BY <3>2, <2>5
      <4>2. v \in DOMAIN list /\ KeptFor(s.reserved, t.byId[v], list[v].url)
        BY <2>8, <4>1 DEF NamedSince
      <4> QED BY <4>2, <2>3, KeptStands
    <3> QED BY <3>1, <3>2
  <2>9. \A v \in t.left : v \in DOMAIN list /\ t.byId[v] = Windows!NoName
    <3>1. ASSUME NEW v \in t.left
          PROVE  v \in DOMAIN list /\ t.byId[v] = Windows!NoName
      <4>1. v \in s.left /\ v # w
        BY <1>7, <3>1
      <4>2. v \in DOMAIN list /\ s.byId[v] = Windows!NoName /\ v \in Ids
        BY <4>1 DEF NamedSince, ListOK
      <4> QED BY <4>1, <4>2, <2>5
    <3> QED BY <3>1
  <2>10. ASSUME NEW v \in DOMAIN list, v \notin t.left, t.byId[v] = Windows!NoName
         PROVE  list[v].title = Windows!Untitled /\ NameFor(t.reserved, t.given[v], list[v].url)
    <3>1. v # w /\ v \in Ids
      BY <2>4, <2>5, <2>10 DEF ListOK
    <3>2. v \notin s.left /\ s.byId[v] = Windows!NoName /\ t.given[v] = s.given[v]
      BY <1>7, <1>9, <2>5, <2>10, <3>1
    <3>3. list[v].title = Windows!Untitled /\ NameFor(s.reserved, t.given[v], list[v].url)
      BY <3>2 DEF NamedSince
    <3> QED BY <3>3, <2>3, NameForStands
  <2>11. NamedSince(list, t, b, res)
    BY <1>8, <1>9, <2>3, <2>5, <2>6, <2>7, <2>8, <2>9, <2>10 DEF NamedSince
  <2> QED BY <1>1, <1>6, <1>7, <2>11
<1> QED BY <1>10, <1>11

-----------------------------------------------------------------------------
(* The whole listing.                                                      *)

LEMMA NextNamed ==
  ASSUME NEW list, ListOK(list), NEW s, NEW b, NEW res, NamedSince(list, s, b, res),
         IsFiniteSet(s.left), NEW n \in Nat, Cardinality(s.left) = n
  PROVE  LET t == Windows!NameNext(list, s)
         IN  /\ NamedSince(list, t, b, res) /\ IsFiniteSet(t.left)
             /\ n # 0 => Cardinality(t.left) = n - 1
<1>1. CASE s.left = {}
  BY <1>1, FS_EmptySet DEF Windows!NameNext
<1>2. CASE s.left # {}
  <2>1. PICK w : w = Windows!FirstOf(list, s.left)
    OBVIOUS
  <2>2. s.left \subseteq Ids /\ \A v \in s.left : list[v].url \in Nat
    BY NameAssumption DEF NamedSince, ListOK, Shown
  <2>3. w \in s.left
    BY <1>2, <2>1, <2>2, FirstIs
  <2>4. Windows!NameNext(list, s) = Windows!NameOne(s, w, list[w])
    BY <1>2, <2>1 DEF Windows!NameNext
  <2>5. IsFiniteSet(s.left \ {w}) /\ Cardinality(s.left \ {w}) = n - 1
    BY <2>3, FS_RemoveElement
  <2>6. PICK t : t = Windows!NameOne(s, w, list[w])
    OBVIOUS
  <2>7. NamedSince(list, t, b, res) /\ t.left = s.left \ {w}
    BY <2>3, <2>6, OneNamed
  <2>8. IsFiniteSet(t.left) /\ Cardinality(t.left) = n - 1
    BY <2>5, <2>7
  <2>9. Windows!NameNext(list, s) = t
    BY <2>4, <2>6
  <2> QED BY <2>7, <2>8, <2>9
<1> QED BY <1>1, <1>2

\* The steps of the naming, as far as the i-th.
IsNaming(list, start, n, f) ==
    f = [i \in 0..n |-> IF i = 0 THEN start ELSE Windows!NameNext(list, f[i - 1])]

LEMMA NamingStarts ==
  ASSUME NEW list, NEW start
  PROVE  \E f : IsNaming(list, start, 0, f)
<1> DEFINE f == [i \in 0..0 |-> start]
<1>1. \A i \in 0..0 : i = 0
  OBVIOUS
<1>2. f = [i \in 0..0 |-> IF i = 0 THEN start ELSE Windows!NameNext(list, f[i - 1])]
  BY <1>1
<1> QED BY <1>2 DEF IsNaming

LEMMA NamingGoesOn ==
  ASSUME NEW list, NEW start, NEW n \in Nat, NEW f, IsNaming(list, start, n, f)
  PROVE  \E g : IsNaming(list, start, n + 1, g)
<1> DEFINE g == [i \in 0..(n + 1) |-> IF i = n + 1 THEN Windows!NameNext(list, f[n]) ELSE f[i]]
<1>1. ASSUME NEW i \in 0..(n + 1)
      PROVE  g[i] = IF i = 0 THEN start ELSE Windows!NameNext(list, g[i - 1])
  <2>1. CASE i = 0
    <3>1. i # n + 1 /\ 0 \in 0..n
      BY <2>1
    <3>2. f[0] = start
      BY <3>1 DEF IsNaming
    <3> QED BY <2>1, <3>1, <3>2
  <2>2. CASE i = n + 1
    <3>1. i # 0 /\ i - 1 = n /\ n \in 0..(n + 1) /\ n # n + 1
      BY <2>2
    <3>2. g[n] = f[n]
      BY <3>1
    <3>3. g[i] = Windows!NameNext(list, f[n])
      BY <2>2
    <3> HIDE DEF g
    <3> QED BY <3>1, <3>2, <3>3
  <2>3. CASE i # 0 /\ i # n + 1
    <3>1. i \in 0..n /\ i - 1 \in 0..(n + 1) /\ i - 1 # n + 1
      BY <2>3
    <3>2. g[i] = f[i] /\ g[i - 1] = f[i - 1]
      BY <2>3, <3>1
    <3>3. f[i] = Windows!NameNext(list, f[i - 1])
      BY <2>3, <3>1 DEF IsNaming
    <3> HIDE DEF g
    <3> QED BY <2>3, <3>2, <3>3
  <2> QED BY <2>1, <2>2, <2>3
<1>2. g = [i \in 0..(n + 1) |-> g[i]]
  OBVIOUS
<1> HIDE DEF g
<1>3. g = [i \in 0..(n + 1) |-> IF i = 0 THEN start ELSE Windows!NameNext(list, g[i - 1])]
  BY <1>1, <1>2
<1> QED BY <1>3 DEF IsNaming

LEMMA NamingIs ==
  ASSUME NEW list, NEW start, NEW n \in Nat
  PROVE  \E f : IsNaming(list, start, n, f)
<1> DEFINE bad == {m \in Nat : ~ \E f : IsNaming(list, start, m, f)}
<1> SUFFICES ASSUME n \in bad PROVE FALSE
  OBVIOUS
<1>1. PICK m : m = Min(bad)
  OBVIOUS
<1>2. m \in bad /\ \A k \in bad : m <= k
  BY <1>1, MinIs
<1>3. m # 0
  BY <1>2, NamingStarts
<1>4. m - 1 \in Nat /\ m - 1 \notin bad
  <2>1. m - 1 \in Nat /\ ~(m <= m - 1)
    BY <1>2, <1>3
  <2> QED BY <1>2, <2>1
<1>5. PICK f : IsNaming(list, start, m - 1, f)
  BY <1>4
<1>6. \E g : IsNaming(list, start, (m - 1) + 1, g)
  BY <1>4, <1>5, NamingGoesOn
<1>7. (m - 1) + 1 = m
  BY <1>2
<1> QED BY <1>2, <1>6, <1>7

LEMMA NamedSoFar ==
  ASSUME NEW list, ListOK(list), NEW start, NEW b, NEW res, NamedSince(list, start, b, res),
         IsFiniteSet(start.left), NEW n \in Nat, Cardinality(start.left) = n,
         NEW f, IsNaming(list, start, n, f), NEW i \in 0..n
  PROVE  NamedSince(list, f[i], b, res) /\ IsFiniteSet(f[i].left) /\ Cardinality(f[i].left) = n - i
<1> DEFINE OK(j) == NamedSince(list, f[j], b, res) /\ IsFiniteSet(f[j].left) /\ Cardinality(f[j].left) = n - j
           bad == {j \in 0..n : ~ OK(j)}
<1> SUFFICES ASSUME bad # {} PROVE FALSE
  OBVIOUS
<1>1. PICK m : m = Min(bad)
  OBVIOUS
<1>2. m \in bad /\ \A k \in bad : m <= k
  <2>1. bad \subseteq Nat
    OBVIOUS
  <2> HIDE DEF bad
  <2> QED BY <1>1, <2>1, MinIs
<1>3. OK(0)
  <2>1. 0 \in 0..n
    OBVIOUS
  <2>2. f[0] = start
    BY <2>1 DEF IsNaming
  <2>3. n - 0 = n
    OBVIOUS
  <2> QED BY <2>2, <2>3
<1>4. m \in 1..n
  BY <1>2, <1>3
<1>5. PICK k : k = m - 1
  OBVIOUS
<1>6. k \in 0..n /\ ~(m <= k) /\ n - k \in Nat /\ n - k # 0 /\ (n - k) - 1 = n - m
  BY <1>4, <1>5
<1>7. OK(k)
  BY <1>2, <1>6
<1>8. f[m] = Windows!NameNext(list, f[k])
  BY <1>4, <1>5 DEF IsNaming
<1>9. /\ NamedSince(list, f[m], b, res) /\ IsFiniteSet(f[m].left)
      /\ Cardinality(f[m].left) = (n - k) - 1
  BY <1>6, <1>7, <1>8, NextNamed
<1>10. OK(m)
  BY <1>6, <1>9
<1> QED BY <1>2, <1>10

LEMMA AllNamed ==
  ASSUME NEW list, ListOK(list), byId \in [Ids -> NameOf], Reserved(reserved)
  PROVE  LET t == Windows!NameChromiumTargets(list)
         IN  NamedSince(list, t, byId, reserved) /\ t.left = {}
<1>1. PICK s : s = Windows!Unnamed(list)
  OBVIOUS
<1>2. /\ s.byId = byId /\ s.reserved = reserved
      /\ s.left = {w \in DOMAIN list : byId[w] = Windows!NoName}
      /\ s.live = {byId[w] : w \in DOMAIN list \ s.left}
      /\ s.given = [w \in DOMAIN list |-> byId[w]]
  BY <1>1 DEF Windows!Unnamed
<1>3. IsFiniteSet(DOMAIN list)
  BY FS_Subset, NameAssumption DEF ListOK
<1>4. IsFiniteSet(s.left)
  BY <1>2, <1>3, FS_Subset
<1>5. IsFiniteSet(s.live)
  <2> DEFINE named2 == DOMAIN list \ s.left
             g == [w \in named2 |-> byId[w]]
  <2>1. IsFiniteSet(named2)
    BY <1>3, FS_Subset
  <2>2. g \in Surjection(named2, s.live)
    BY <1>2 DEF Surjection
  <2> HIDE DEF g, named2
  <2> QED BY <2>1, <2>2, FS_Surjection
<1>6. NamedSince(list, s, byId, reserved)
  <2>1. Extends(reserved, s.reserved) /\ DOMAIN s.given = DOMAIN list
    BY <1>2 DEF Extends
  <2>2. \A w \in s.left : w \in DOMAIN list /\ s.byId[w] = Windows!NoName
    BY <1>2
  <2>3. \A w \in DOMAIN list : ~(w \notin s.left /\ s.byId[w] = Windows!NoName)
    BY <1>2
  <2> QED BY <1>2, <1>5, <2>1, <2>2, <2>3 DEF NamedSince
<1>7. PICK n : n = Cardinality(s.left)
  OBVIOUS
<1>8. n \in Nat
  BY <1>4, <1>7, FS_CardinalityType
<1>9. PICK f : IsNaming(list, s, n, f)
  BY <1>8, NamingIs
<1> DEFINE F == CHOOSE h : IsNaming(list, s, n, h)
<1>10. IsNaming(list, s, n, F)
  BY <1>9
<1>11. Windows!NameChromiumTargets(list) = F[n]
  BY <1>1, <1>7, WindowsCardinality DEF Windows!NameChromiumTargets, IsNaming
<1>12. n \in 0..n /\ n - n = 0
  BY <1>8
<1> HIDE DEF F
<1>13. /\ NamedSince(list, F[n], byId, reserved)
       /\ IsFiniteSet(F[n].left) /\ Cardinality(F[n].left) = n - n
  BY <1>4, <1>6, <1>7, <1>8, <1>10, <1>12, NamedSoFar
<1>14. F[n].left = {}
  BY <1>12, <1>13, FS_EmptySet
<1> QED BY <1>11, <1>13, <1>14

-----------------------------------------------------------------------------
(* The calls.                                                              *)

\* No name, no reservation and no window that was asked for is forgotten.
Grown(b, res, as, b2, more, as2) ==
    /\ \A w \in Ids : b[w] # Windows!NoName => b2[w] = b[w]
    /\ Extends(res, more) /\ as \subseteq as2

LEMMA LookupStands ==
  ASSUME NEW b, NEW res, NEW as, NEW b2, NEW more, NEW as2, Grown(b, res, as, b2, more, as2),
         NEW x, LookupOK(x, b, res, as)
  PROVE  LookupOK(x, b2, more, as2)
<1>1. ASSUME DOMAIN x.list \subseteq Ids, NEW w \in DOMAIN x.list, Listed(x.list[w], b[w], res)
      PROVE  Listed(x.list[w], b2[w], more)
  <2>1. b2[w] = Windows!NoName => b[w] = Windows!NoName
    BY <1>1 DEF Grown
  <2> QED BY <1>1, <2>1, NameForStands DEF Listed, Grown
<1>2. x.pc \in {"named", "dialled"} => \A w \in DOMAIN x.list : Listed(x.list[w], b2[w], more)
  BY <1>1 DEF LookupOK
<1>3. as \subseteq as2
  BY DEF Grown
<1> QED BY <1>2, <1>3 DEF LookupOK

LEMMA LookupsChange ==
  ASSUME NEW b, NEW res, NEW as, NEW b2, NEW more, NEW as2, Grown(b, res, as, b2, more, as2),
         NEW calls, LookupsOK(calls, b, res, as), NEW c \in Lookups,
         NEW x, LookupOK(x, b2, more, as2)
  PROVE  LookupsOK([calls EXCEPT ![c] = x], b2, more, as2)
<1>1. PICK new : new = [calls EXCEPT ![c] = x]
  OBVIOUS
<1>2. /\ new = [d \in Lookups |-> new[d]] /\ new[c] = x
      /\ \A d \in Lookups : d # c => new[d] = calls[d]
  BY <1>1 DEF LookupsOK
<1>3. ASSUME NEW d \in Lookups
      PROVE  LookupOK(new[d], b2, more, as2)
  <2>1. CASE d = c
    BY <1>2, <2>1
  <2>2. CASE d # c
    BY <1>2, <2>2, LookupStands DEF LookupsOK
  <2> QED BY <2>1, <2>2
<1> QED BY <1>1, <1>2, <1>3 DEF LookupsOK

LEMMA SameGrown == Grown(byId, reserved, asked, byId, reserved, asked)
BY DEF Grown, Extends

LEMMA NamesStart == Windows!Init => NameParts
<1> SUFFICES ASSUME Windows!Init
             PROVE  NameParts
  OBVIOUS
<1> USE DEF Windows!Init
<1>1. WindowPages(window)
  BY DEF WindowPages
<1>2. Namings(byId, reserved, shown)
  <2>1. reserved \in Seq(Entries) /\ DOMAIN reserved = {}
    OBVIOUS
  <2>2. Reserved(reserved)
    BY <2>1 DEF Reserved
  <2>3. byId \in [Ids -> NameOf] /\ shown \in [Ids -> Nat] /\ KeptAll(byId, reserved, shown)
    BY DEF NameOf, KeptAll
  <2> QED BY <2>2, <2>3 DEF Namings
<1>3. RegisteredAsFixed(named, byId, asked)
  BY DEF RegisteredAsFixed, NameOf
<1>4. LookupOK(Windows!Idle, byId, reserved, asked)
  BY DEF LookupOK, Windows!Idle, LookupFields
<1>5. LookupsOK(lookup, byId, reserved, asked)
  BY <1>4 DEF LookupsOK
<1> QED BY <1>1, <1>2, <1>3, <1>5 DEF NameParts

\* The windows themselves touch no name.
LEMMA PagesKeep ==
  ASSUME NameParts,
         \/ \E w \in Ids : Windows!WindowCloses(w) \/ Windows!Drops(w)
         \/ \E w \in Ids, u \in Urls : Windows!WindowOpens(w, u) \/ Windows!Navigates(w, u)
         \/ \E w \in Ids, t \in Titles : Windows!TitleLoads(w, t)
  PROVE  NameParts'
<1>1. UNCHANGED <<byId, shown, reserved, lookup, asked>>
  BY DEF Windows!WindowCloses, Windows!Drops, Windows!WindowOpens, Windows!Navigates, Windows!TitleLoads,
         Windows!names, Windows!pages
<1>2. WindowPages(window)'
  <2>1. ASSUME NEW w \in Ids, Windows!WindowCloses(w) \/ Windows!Drops(w)
        PROVE  WindowPages(window)'
    BY <2>1 DEF NameParts, WindowPages, Windows!WindowCloses, Windows!Drops, Windows!pages
  <2>2. ASSUME NEW w \in Ids, NEW u \in Urls, Windows!WindowOpens(w, u) \/ Windows!Navigates(w, u)
        PROVE  WindowPages(window)'
    BY <2>2 DEF NameParts, WindowPages, Shown, Windows!WindowOpens, Windows!Navigates
  <2>3. ASSUME NEW w \in Ids, NEW t \in Titles, Windows!TitleLoads(w, t)
        PROVE  WindowPages(window)'
    <3>1. window[w] \in Shown
      BY <2>3 DEF NameParts, WindowPages, Windows!TitleLoads, Windows!Open
    <3>2. [window[w] EXCEPT !.title = t] \in Shown
      BY <3>1 DEF Shown
    <3> QED BY <2>3, <3>2 DEF NameParts, WindowPages, Windows!TitleLoads
  <2> QED BY <2>1, <2>2, <2>3
<1>3. RegisteredAsFixed(named, byId, asked)'
  <2>1. CASE named' = named
    BY <1>1, <2>1 DEF NameParts, RegisteredAsFixed
  <2>2. ASSUME NEW w \in Ids, named' = [named EXCEPT ![w] = Windows!NoName]
        PROVE  RegisteredAsFixed(named, byId, asked)'
    BY <1>1, <2>2 DEF NameParts, RegisteredAsFixed, NameOf
  <2> QED BY <2>1, <2>2 DEF Windows!WindowCloses, Windows!Drops, Windows!WindowOpens, Windows!Navigates,
         Windows!TitleLoads
<1> QED BY <1>1, <1>2, <1>3 DEF NameParts

\* A call's step that fixes no name.
LEMMA QuietStep ==
  ASSUME NameParts, UNCHANGED <<window, byId, shown, reserved, named>>, asked \subseteq asked',
         NEW c \in Lookups, NEW x, LookupOK(x, byId, reserved, asked'),
         lookup' = [lookup EXCEPT ![c] = x]
  PROVE  NameParts'
<1>1. Grown(byId, reserved, asked, byId, reserved, asked')
  BY DEF Grown, Extends
<1>2. PICK as : as = asked'
  OBVIOUS
<1>3. LookupsOK([lookup EXCEPT ![c] = x], byId, reserved, as)
  BY <1>1, <1>2, LookupsChange DEF NameParts
<1>4. LookupsOK(lookup, byId, reserved, asked)'
  BY <1>2, <1>3
<1>5. RegisteredAsFixed(named, byId, asked)'
  BY DEF NameParts, RegisteredAsFixed
<1> QED BY <1>4, <1>5 DEF NameParts

LEMMA ListingIs ==
  ASSUME WindowPages(window)
  PROVE  DOMAIN Windows!Listing \subseteq Ids /\ \A w \in DOMAIN Windows!Listing : Windows!Listing[w] \in Shown
BY DEF WindowPages, Windows!Listing, Windows!Open

LEMMA BeginNamesKeeps ==
  ASSUME NameParts, NEW c \in Lookups, NEW for \in Ids \union {Windows!Whichever}, Windows!Begin(c, for)
  PROVE  NameParts'
<1>1. PICK x : x = [Windows!Idle EXCEPT !.pc = "listed", !.for = for, !.list = Windows!Listing]
  OBVIOUS
<1>2. /\ DOMAIN x = LookupFields /\ x.pc = "listed" /\ x.for = for /\ x.list = Windows!Listing
  BY <1>1 DEF Windows!Idle, LookupFields
<1>3. LookupOK(x, byId, reserved, asked)
  BY <1>2, ListingIs DEF LookupOK, Windows!Begin, NameParts
<1> QED BY <1>1, <1>3, QuietStep DEF Windows!Begin, Windows!pages, Windows!names

LEMMA PollAgainKeeps ==
  ASSUME NameParts, NEW c \in Lookups, Windows!PollAgain(c)
  PROVE  NameParts'
<1>1. PICK x : x = [lookup[c] EXCEPT !.list = Windows!Listing]
  OBVIOUS
<1>2. LookupOK(lookup[c], byId, reserved, asked) /\ lookup = [b \in Lookups |-> lookup[b]]
  BY DEF NameParts, LookupsOK
<1>3. /\ DOMAIN x = LookupFields /\ x.pc = "listed" /\ x.for = lookup[c].for /\ x.list = Windows!Listing
  BY <1>1, <1>2 DEF Windows!PollAgain, LookupOK, LookupFields
<1>4. LookupOK(x, byId, reserved, asked)
  BY <1>2, <1>3, ListingIs DEF LookupOK, NameParts
<1>5. lookup' = [lookup EXCEPT ![c] = x]
  BY <1>1, <1>2 DEF Windows!PollAgain
<1> QED BY <1>4, <1>5, QuietStep DEF Windows!PollAgain, Windows!pages, Windows!names

LEMMA DialKeeps ==
  ASSUME NameParts, NEW c \in Lookups, NEW w \in Ids, Windows!Dial(c, w)
  PROVE  NameParts'
<1>1. PICK x : x = [lookup[c] EXCEPT !.pc = "dialled", !.w = w]
  OBVIOUS
<1>2. LookupOK(lookup[c], byId, reserved, asked) /\ lookup = [b \in Lookups |-> lookup[b]]
  BY DEF NameParts, LookupsOK
<1>3. /\ DOMAIN x = LookupFields /\ x.pc = "dialled" /\ x.for = lookup[c].for
      /\ x.list = lookup[c].list /\ x.w = w
  BY <1>1, <1>2 DEF LookupOK, LookupFields
<1>4. /\ asked \subseteq asked' /\ w \in DOMAIN lookup[c].list /\ w \in asked'
  <2>1. CASE lookup[c].for = Windows!Whichever
    BY <2>1 DEF Windows!Dial, Windows!Wanted
  <2>2. CASE lookup[c].for # Windows!Whichever
    BY <1>2, <2>2 DEF Windows!Dial, Windows!Wanted, Windows!PickReconnectTarget, LookupOK
  <2> QED BY <2>1, <2>2
<1>5. lookup[c].pc = "named"
  BY DEF Windows!Dial
<1>6. LookupOK(x, byId, reserved, asked')
  BY <1>2, <1>3, <1>4, <1>5 DEF LookupOK
<1>7. lookup' = [lookup EXCEPT ![c] = x]
  BY <1>1, <1>2 DEF Windows!Dial
<1> QED BY <1>4, <1>6, <1>7, QuietStep DEF Windows!Dial, Windows!pages, Windows!names

LEMMA RefusedKeeps ==
  ASSUME NameParts, NEW c \in Lookups, Windows!Refused(c) \/ Windows!Answer(c)
  PROVE  NameParts'
<1>2. LookupOK(lookup[c], byId, reserved, asked) /\ lookup = [b \in Lookups |-> lookup[b]]
  BY DEF NameParts, LookupsOK
<1>3. CASE Windows!Refused(c)
  <2>1. PICK x : x = [lookup[c] EXCEPT !.pc = "named", !.w = Windows!NoId]
    OBVIOUS
  <2>2. /\ DOMAIN x = LookupFields /\ x.pc = "named" /\ x.for = lookup[c].for /\ x.list = lookup[c].list
    BY <1>2, <2>1 DEF LookupOK, LookupFields
  <2>3. LookupOK(x, byId, reserved, asked)
    BY <1>2, <1>3, <2>2 DEF LookupOK, Windows!Refused
  <2>4. lookup' = [lookup EXCEPT ![c] = x]
    BY <1>2, <1>3, <2>1 DEF Windows!Refused
  <2> QED BY <1>3, <2>3, <2>4, QuietStep DEF Windows!Refused, Windows!pages, Windows!names
<1>4. CASE Windows!Answer(c)
  <2>1. PICK x : x = [Windows!Idle EXCEPT !.pc = "done"]
    OBVIOUS
  <2>2. LookupOK(x, byId, reserved, asked)
    BY <2>1 DEF LookupOK, LookupFields, Windows!Idle
  <2> QED BY <1>4, <2>1, <2>2, QuietStep DEF Windows!Answer, Windows!pages, Windows!names
<1> QED BY <1>3, <1>4

\* A call's step that may fix names.
LEMMA NamingStep ==
  ASSUME NameParts, UNCHANGED <<window, asked>>,
         Namings(byId, reserved, shown)', Grown(byId, reserved, asked, byId', reserved', asked),
         RegisteredAsFixed(named, byId, asked)',
         NEW c \in Lookups, NEW x, LookupOK(x, byId', reserved', asked),
         lookup' = [lookup EXCEPT ![c] = x]
  PROVE  NameParts'
<1>1. PICK b, res : b = byId' /\ res = reserved'
  OBVIOUS
<1>2. LookupsOK([lookup EXCEPT ![c] = x], b, res, asked)
  BY <1>1, LookupsChange DEF NameParts
<1>3. LookupsOK(lookup, byId, reserved, asked)'
  BY <1>1, <1>2
<1> QED BY <1>3 DEF NameParts

LEMMA FetchKeeps ==
  ASSUME NameParts, NEW c \in Lookups, Windows!FetchDevices(c)
  PROVE  NameParts'
<1>1. LookupOK(lookup[c], byId, reserved, asked) /\ lookup = [b \in Lookups |-> lookup[b]]
  BY DEF NameParts, LookupsOK
<1>2. PICK list : list = lookup[c].list
  OBVIOUS
<1>3. ListOK(list)
  BY <1>1, <1>2 DEF Windows!FetchDevices, LookupOK, ListOK
<1>4. PICK t : t = Windows!NameChromiumTargets(list)
  OBVIOUS
<1>5. /\ byId \in [Ids -> NameOf] /\ shown \in [Ids -> Nat]
      /\ Reserved(reserved) /\ KeptAll(byId, reserved, shown)
  BY DEF NameParts, Namings
<1>6. NamedSince(list, t, byId, reserved) /\ t.left = {}
  BY <1>3, <1>4, <1>5, AllNamed
<1>7. byId' = t.byId /\ reserved' = t.reserved /\ UNCHANGED <<window, named, asked>>
  BY <1>2, <1>4 DEF Windows!FetchDevices, Windows!pages
<1>8. shown' = [w \in Ids |-> IF byId[w] = Windows!NoName /\ t.byId[w] # Windows!NoName
                              THEN list[w].url ELSE shown[w]]
  BY <1>2, <1>4, <1>7 DEF Windows!FetchDevices
<1>9. \A w \in Ids : byId[w] # Windows!NoName => t.byId[w] = byId[w]
  BY <1>6 DEF NamedSince
<1>10. Grown(byId, reserved, asked, t.byId, t.reserved, asked)
  BY <1>6, <1>9 DEF Grown, NamedSince
<1>11. ASSUME NEW w \in Ids, t.byId[w] # Windows!NoName
       PROVE  shown'[w] \in Nat /\ KeptFor(t.reserved, t.byId[w], shown'[w])
  <2>1. CASE byId[w] = Windows!NoName
    <3>1. w \in DOMAIN list /\ KeptFor(t.reserved, t.byId[w], list[w].url)
      BY <1>6, <1>11, <2>1 DEF NamedSince
    <3>2. list[w].url \in Nat
      BY <1>3, <3>1, NameAssumption DEF ListOK, Shown
    <3> QED BY <1>8, <1>11, <2>1, <3>1, <3>2
  <2>2. CASE byId[w] # Windows!NoName
    <3>1. KeptFor(reserved, byId[w], shown[w]) /\ Extends(reserved, t.reserved)
      BY <1>5, <1>6, <2>2 DEF KeptAll, NamedSince
    <3>2. KeptFor(t.reserved, byId[w], shown[w])
      BY <3>1, KeptStands
    <3> QED BY <1>5, <1>8, <1>9, <2>2, <3>2
  <2> QED BY <2>1, <2>2
<1>12. shown' \in [Ids -> Nat]
  BY <1>5, <1>8, <1>11
<1>13. Namings(byId, reserved, shown)'
  BY <1>6, <1>7, <1>11, <1>12 DEF Namings, KeptAll, NamedSince
<1>14. RegisteredAsFixed(named, byId, asked)'
  BY <1>7, <1>9 DEF NameParts, RegisteredAsFixed
<1>15. PICK y : y = [w \in DOMAIN list |-> [url |-> list[w].url, title |-> list[w].title, name |-> t.given[w]]]
  OBVIOUS
<1>16. PICK x : x = [lookup[c] EXCEPT !.pc = "named", !.list = y]
  OBVIOUS
<1>17. DOMAIN x = LookupFields /\ x.pc = "named" /\ x.for = lookup[c].for /\ x.list = y
  BY <1>1, <1>16 DEF LookupOK, LookupFields
<1>18. ASSUME NEW w \in DOMAIN list
       PROVE  Listed(y[w], t.byId[w], t.reserved)
  <2>1. y[w].url = list[w].url /\ y[w].title = list[w].title /\ y[w].name = t.given[w]
    BY <1>15
  <2>2. list[w].url \in Urls /\ list[w].title \in Titles \union {Windows!Untitled}
    BY <1>3 DEF ListOK, Shown
  <2>3. t.byId[w] = Windows!NoName =>
          list[w].title = Windows!Untitled /\ NameFor(t.reserved, t.given[w], list[w].url)
    BY <1>6 DEF NamedSince
  <2> QED BY <2>1, <2>2, <2>3 DEF Listed
<1>19. LookupOK(x, t.byId, t.reserved, asked)
  <2>1. DOMAIN y = DOMAIN list /\ DOMAIN list \subseteq Ids
    BY <1>3, <1>15 DEF ListOK
  <2> QED BY <1>1, <1>17, <1>18, <2>1 DEF LookupOK
<1>20. lookup' = [lookup EXCEPT ![c] = x]
  BY <1>1, <1>2, <1>4, <1>15, <1>16 DEF Windows!FetchDevices
<1> QED BY <1>7, <1>10, <1>13, <1>14, <1>19, <1>20, NamingStep

LEMMA AttachedKeeps ==
  ASSUME NameParts, NEW c \in Lookups, Windows!Attached(c)
  PROVE  NameParts'
<1>1. LookupOK(lookup[c], byId, reserved, asked) /\ lookup = [b \in Lookups |-> lookup[b]]
  BY DEF NameParts, LookupsOK
<1>2. PICK w : w = lookup[c].w
  OBVIOUS
<1>3. PICK d : d = lookup[c].list[w]
  OBVIOUS
<1>4. w \in Ids /\ w \in asked /\ Listed(d, byId[w], reserved)
  BY <1>1, <1>2, <1>3 DEF Windows!Attached, LookupOK
<1>5. /\ byId \in [Ids -> NameOf] /\ shown \in [Ids -> Nat]
      /\ Reserved(reserved) /\ KeptAll(byId, reserved, shown)
  BY DEF NameParts, Namings
<1>6. PICK s : s = [byId |-> byId, reserved |-> reserved]
  OBVIOUS
<1>7. PICK p : p = Pinned(s, w, d, d.name)
  OBVIOUS
<1>8. /\ byId' = p.byId /\ reserved' = p.reserved /\ UNCHANGED <<window, asked>>
      /\ shown' = [shown EXCEPT ![w] = IF byId[w] = Windows!NoName THEN d.url ELSE shown[w]]
      /\ named' = [named EXCEPT ![w] = p.byId[w]]
  BY <1>2, <1>3, <1>6, <1>7 DEF Windows!Attached, Pinned, Windows!RegisteredAs, Windows!pages
<1>9. /\ Namings(p.byId, p.reserved, shown') /\ Grown(byId, reserved, asked, p.byId, p.reserved, asked)
  <2>1. CASE byId[w] # Windows!NoName
    <3>1. p.byId = byId /\ p.reserved = reserved
      BY <1>6, <1>7, <2>1 DEF Pinned, Windows!PinChromiumName
    <3>2. shown' = shown
      BY <1>5, <1>8, <2>1
    <3> QED BY <1>5, <3>1, <3>2, SameGrown DEF Namings
  <2>2. CASE byId[w] = Windows!NoName
    <3>1. d.url \in Urls /\ d.title = Windows!Untitled /\ NameFor(reserved, d.name, d.url)
      BY <1>4, <2>2 DEF Listed
    <3>2. PICK n : n = d.name
      OBVIOUS
    <3>3. n \in Given /\ (KeptFor(reserved, n, d.url) \/ FreshFor(reserved, n, d))
      BY <1>5, <3>1, <3>2, NameForIs
    <3>4. s.byId = byId /\ s.reserved = reserved
      BY <1>6
    <3>5. /\ p.byId = [byId EXCEPT ![w] = n] /\ Reserved(p.reserved)
          /\ Extends(reserved, p.reserved) /\ KeptFor(p.reserved, n, d.url)
      <4>1. p = Pinned(s, w, d, n)
        BY <1>7, <3>2
      <4>2. s.byId \in [Ids -> NameOf] /\ s.byId[w] = Windows!NoName /\ Reserved(s.reserved)
        BY <1>5, <2>2, <3>4
      <4>3. n \in Given /\ (KeptFor(s.reserved, n, d.url) \/ FreshFor(s.reserved, n, d))
        BY <3>3, <3>4
      <4>4. w \in Ids /\ d.url \in Urls /\ d.title \in Titles \union {Windows!Untitled}
        BY <1>4, <3>1
      <4>5. /\ Pinned(s, w, d, n).byId = [s.byId EXCEPT ![w] = n]
            /\ Reserved(Pinned(s, w, d, n).reserved)
            /\ Extends(s.reserved, Pinned(s, w, d, n).reserved)
            /\ KeptFor(Pinned(s, w, d, n).reserved, n, d.url)
        BY <4>2, <4>3, <4>4, PinIs
      <4> QED BY <3>4, <4>1, <4>5
    <3>6. shown' = [shown EXCEPT ![w] = d.url] /\ d.url \in Nat
      BY <1>8, <2>2, <3>1, NameAssumption
    <3>7. p.byId \in [Ids -> NameOf] /\ shown' \in [Ids -> Nat]
      BY <1>5, <3>3, <3>5, <3>6 DEF NameOf
    <3>8. ASSUME NEW v \in Ids, p.byId[v] # Windows!NoName
          PROVE  KeptFor(p.reserved, p.byId[v], shown'[v])
      <4>1. CASE v = w
        BY <1>4, <1>5, <3>5, <3>6, <4>1
      <4>2. CASE v # w
        <5>1. p.byId[v] = byId[v] /\ shown'[v] = shown[v]
          BY <1>4, <1>5, <3>5, <3>6, <4>2
        <5>2. KeptFor(reserved, byId[v], shown[v])
          BY <1>5, <3>8, <5>1 DEF KeptAll
        <5> QED BY <3>5, <5>1, <5>2, KeptStands
      <4> QED BY <4>1, <4>2
    <3>9. Namings(p.byId, p.reserved, shown')
      BY <3>5, <3>7, <3>8 DEF Namings, KeptAll
    <3>10. \A v \in Ids : byId[v] # Windows!NoName => p.byId[v] = byId[v]
      BY <1>4, <1>5, <2>2, <3>5
    <3> QED BY <3>5, <3>9, <3>10 DEF Grown
  <2> QED BY <2>1, <2>2
<1>10. Namings(byId, reserved, shown)' /\ Grown(byId, reserved, asked, byId', reserved', asked)
  BY <1>8, <1>9
<1>11. RegisteredAsFixed(named, byId, asked)'
  <2>1. p.byId[w] \in NameOf /\ p.byId \in [Ids -> NameOf]
    BY <1>4, <1>9 DEF Namings
  <2>2. named' \in [Ids -> NameOf]
    BY <1>8, <2>1 DEF NameParts, RegisteredAsFixed
  <2>3. ASSUME NEW v \in Ids, named'[v] # Windows!NoName
        PROVE  named'[v] = p.byId[v] /\ v \in asked
    <3>1. CASE v = w
      BY <1>4, <1>8, <3>1 DEF NameParts, RegisteredAsFixed
    <3>2. CASE v # w
      BY <1>8, <1>9, <2>3, <3>2 DEF NameParts, RegisteredAsFixed, Grown
    <3> QED BY <3>1, <3>2
  <2> QED BY <1>8, <2>2, <2>3 DEF RegisteredAsFixed
<1>12. PICK x : x = [lookup[c] EXCEPT !.pc = "named", !.w = Windows!NoId]
  OBVIOUS
<1>13. DOMAIN x = LookupFields /\ x.pc = "named" /\ x.for = lookup[c].for /\ x.list = lookup[c].list
  BY <1>1, <1>12 DEF LookupOK, LookupFields
<1>14. LookupOK(x, byId, reserved, asked)
  BY <1>1, <1>13 DEF LookupOK, Windows!Attached
<1>15. LookupOK(x, p.byId, p.reserved, asked)
  BY <1>9, <1>14, LookupStands
<1>16. lookup' = [lookup EXCEPT ![c] = x]
  BY <1>1, <1>12 DEF Windows!Attached
<1> QED BY <1>8, <1>10, <1>11, <1>15, <1>16, NamingStep

LEMMA NamesStep == NameParts /\ Windows!Next => NameParts'
<1> SUFFICES ASSUME NameParts, Windows!Next
             PROVE  NameParts'
  OBVIOUS
<1>1. CASE \/ \E w \in Ids : Windows!WindowCloses(w) \/ Windows!Drops(w)
           \/ \E w \in Ids, u \in Urls : Windows!WindowOpens(w, u) \/ Windows!Navigates(w, u)
           \/ \E w \in Ids, t \in Titles : Windows!TitleLoads(w, t)
  BY <1>1, PagesKeep
<1>2. ASSUME NEW c \in Lookups,
             \/ Windows!PollAgain(c) \/ Windows!FetchDevices(c) \/ Windows!Attached(c)
             \/ Windows!Refused(c) \/ Windows!Answer(c)
      PROVE  NameParts'
  BY <1>2, PollAgainKeeps, FetchKeeps, AttachedKeeps, RefusedKeeps
<1>3. ASSUME NEW c \in Lookups, NEW w \in Ids \union {Windows!Whichever}, Windows!Begin(c, w)
      PROVE  NameParts'
  BY <1>3, BeginNamesKeeps
<1>4. ASSUME NEW c \in Lookups, NEW w \in Ids, Windows!Dial(c, w)
      PROVE  NameParts'
  BY <1>4, DialKeeps
<1> QED BY <1>1, <1>2, <1>3, <1>4 DEF Windows!Next

LEMMA NamesIdle == NameParts /\ UNCHANGED nameVars => NameParts'
BY DEF NameParts, nameVars

(*************************************************************************)
(* The theorems.                                                         *)
(*************************************************************************)

LEMMA ScanStarts == Init => Parts
<1> SUFFICES ASSUME Init
             PROVE  Parts
  OBVIOUS
<1> USE DEF Init
<1>1. Identity
  <2>1. metroPidByPort = [p \in Ports |-> 0] \/ metroPidByPort = pid
    OBVIOUS
  <2> QED BY <2>1 DEF Identity
<1>2. World /\ Registry
  <2>1. ASSUME NEW d \in Devices
        PROVE  front[d] \in Targets /\ DeviceOf[front[d]] = d
    <3>1. \E t \in Targets : DeviceOf[t] = d
      BY DEF Devices
    <3> QED BY <3>1
  <2>2. /\ front = [d \in Devices |-> front[d]] /\ attached \subseteq Targets /\ page \in [Targets -> Nat]
        /\ left \subseteq Targets /\ paused \subseteq Targets
    <3>1. attached \subseteq Targets
      <4>1. PICK cast \in {{}} \union Casts : attached \subseteq cast
        OBVIOUS
      <4> QED BY <4>1, ScanAssumption
    <3>2. page \in [Targets -> Nat]
      OBVIOUS
    <3> QED BY <3>1, <3>2
  <2> QED BY <2>1, <2>2 DEF World, Registry, OnePerDevice
<1>3. CallsOK
  <2>1. PICK x : x = [Idle EXCEPT !.pc = "idle"]
    OBVIOUS
  <2>2. CallOK(x)
    BY <1>1, <2>1, EndedIs DEF Ends
  <2>3. x = Idle
    BY <2>1 DEF Idle
  <2> QED BY <2>2, <2>3 DEF CallsOK
<1>4. Alone /\ RestartIsTold /\ SuspectedForCause /\ PassedHolds
  BY DEF Alone, RestartIsTold, SuspectedForCause, PassedHolds, Idle
<1> QED BY <1>1, <1>2, <1>3, <1>4 DEF Parts

LEMMA ScanSteps == Parts /\ Next => Parts'
<1> SUFFICES ASSUME Parts, Next
             PROVE  Parts'
  OBVIOUS
<1>1. ASSUME NEW p \in Ports, MetroRestarts(p)
      PROVE  Parts'
  BY <1>1, RestartKeeps
<1>2. ASSUME NEW t \in Targets, AppComesToFront(t) \/ DialogOpens(t) \/ DialogCloses(t)
      PROVE  Parts'
  BY <1>2, FrontKeeps, OpensKeeps, ClosesKeeps
<1>2a. ASSUME NEW t \in Targets, NEW kept \in SUBSET SameApp(t), AppAttaches(t, kept)
       PROVE  Parts'
  BY <1>2a, AttachKeeps
<1>3. ASSUME NEW c \in Calls,
             \/ BeginScan(c) \/ ListPort(c) \/ Purge(c) \/ ReadListenerPid(c) \/ MetroProcessChanged(c)
             \/ PidUnreadable(c) \/ ConnectPort(c) \/ AnswerScan(c) \/ ReloadApp(c)
             \/ NotEstablished(c) \/ WithOpenApps(c) \/ PausedByDialog(c) \/ AnswerEnsure(c)
      PROVE  Parts'
  BY <1>3, BeginScanKeeps, ListKeeps, PurgeKeeps, ReadPidKeeps, PidsKeep, UnreadableKeeps, ConnectKeeps,
     AnswerScanKeeps, ReloadAppKeeps, NotEstablishedKeeps, OpenAppsKeep, DialogKeeps, AnswerEnsureKeeps
<1>4. ASSUME NEW c \in Calls, NEW d \in Deviceless, BeginReload(c, d) \/ DisconnectMetro(c, d)
      PROVE  Parts'
  BY <1>4, BeginReloadKeeps, DisconnectKeeps
<1>5. ASSUME NEW c \in Calls, NEW b \in BOOLEAN, Reload(c, b) \/ CheckOne(c, b)
      PROVE  Parts'
  BY <1>5, ReloadKeeps, CheckOneKeeps
<1>5a. ASSUME NEW c \in Calls, NEW b \in BOOLEAN, NEW h \in BOOLEAN, BeginEnsure(c, b, h)
       PROVE  Parts'
  BY <1>5a, BeginEnsureKeeps
<1>6. ASSUME NEW c \in Calls, NEW p \in Ports, Establish(c, p)
      PROVE  Parts'
  BY <1>6, EstablishKeeps
<1>7. ASSUME NEW c \in Calls, NEW p \in Ports, NEW d \in Deviceless, ConnectMetro(c, p, d)
      PROVE  Parts'
  BY <1>7, ConnectMetroKeeps
<1> QED BY <1>1, <1>2, <1>2a, <1>3, <1>4, <1>5, <1>5a, <1>6, <1>7 DEF Next, Deviceless

LEMMA ScanIdles == Parts /\ UNCHANGED vars => Parts'
<1> SUFFICES ASSUME Parts, UNCHANGED vars
             PROVE  Parts'
  OBVIOUS
<1> USE DEF vars
<1>1. Identity' /\ World' /\ Registry'
  BY DEF Parts, Identity, World, Registry, OnePerDevice, Registered
<1>2. ASSUME NEW b \in Calls
      PROVE  CallOK(call[b])'
  <2>1. PICK y : y = call[b]
    OBVIOUS
  <2>2. CallOK(y)'
    BY <2>1, PidsStay, CallStands DEF Parts, CallsOK
  <2> QED BY <2>1, <2>2
<1>3. CallsOK'
  BY <1>2 DEF Parts, CallsOK
<1>4. RestartIsTold' /\ SuspectedForCause' /\ PassedHolds'
  BY DEF Parts, RestartIsTold, SuspectedForCause, InFlight, PassedHolds, Good, Answers
<1>5. Alone'
  <2> SUFFICES ASSUME lone # NoCall
               PROVE  lone \in Calls /\ InFlight \subseteq {lone} /\ Undisturbed(call[lone])'
    BY DEF Alone, InFlight
  <2>1. PICK y : y = call[lone]
    OBVIOUS
  <2>2. lone \in Calls /\ InFlight \subseteq {lone} /\ Undisturbed(y)
    BY <2>1 DEF Parts, Alone
  <2>3. SameWorld /\ registry' = registry
    BY DEF SameWorld
  <2>4. /\ \A p, g : Current(p, g) => Current(p, g)'
        /\ \A p : FrontHeld(p) => FrontHeld(p)'
        /\ \A p : Served(p) => Served(p)'
        /\ AllTried => AllTried'
        /\ \A e : Reported(y, e)' <=> Reported(y, e)
    BY <2>3, CurrentStands, HeldStands, ServedStands, TriedStand, ReportedStands
  <2>5. Undisturbed(y)'
    BY <2>2, <2>3, <2>4 DEF Undisturbed, Waiting
  <2> QED BY <2>1, <2>2, <2>5
<1> QED BY <1>1, <1>3, <1>4, <1>5 DEF Parts

ScanInv == part = "scan" => Parts

\* The inductive invariant of scan_metro, reload_app and ensure_connection.
THEOREM ScanInvariant == FindSpec => []ScanInv
<1>1. FindInit => ScanInv
  BY ScanStarts DEF FindInit, ScanInit, BuildInit, ScanInv
<1>2. ScanInv /\ [FindNext]_allVars => ScanInv'
  <2> SUFFICES ASSUME ScanInv, [FindNext]_allVars
               PROVE  ScanInv'
    OBVIOUS
  <2>1. CASE part = "scan" /\ Next /\ UNCHANGED <<part, nameVars, buildVars>>
    BY <2>1, ScanSteps DEF ScanInv
  <2>2. CASE part' = part /\ UNCHANGED vars
    BY <2>2, ScanIdles DEF ScanInv
  <2> QED BY <2>1, <2>2 DEF FindNext, allVars
<1> QED BY <1>1, <1>2, PTL DEF FindSpec

\* A Metro seen to be another process than before is told, and no bundle is
\* suspected without one (metroIdentity.ts): however calls overlap and apps move.
THEOREM RestartsAreTold == FindSpec => []RestartsTold
<1>1. ScanInv => RestartsTold
  BY DEF ScanInv, Parts, RestartsTold
<1> QED BY <1>1, ScanInvariant, PTL

\* A scan that nothing came between leaves the apps that answer connected, but for
\* those hidden behind a runtime their own app left; an app that ensure_connection
\* shows as PASSED answers, or stopped after it was asked, whatever happens meanwhile;
\* and no connected app is left out of its answer when nothing does.  Without the
\* health check apps are named unasked, and a page may wait for its dialog: the
\* statement says so (connectionTools.ts, connection.ts).
THEOREM WhatAnswersIsHeld == FindSpec => []AnswersHold
<1>1. ScanInv => AnswersHold
  <2> SUFFICES ASSUME Parts
               PROVE  FrontIsConnected /\ PassedAnswers /\ NoneLeftOut
    BY DEF ScanInv, AnswersHold
  <2>1. FrontIsConnected
    BY DEF Parts, Alone, Undisturbed, Served, FrontIsConnected
  <2>2. PassedAnswers
    BY DEF Parts, PassedHolds, Good, PassedAnswers
  <2>3. NoneLeftOut
    BY DEF Parts, Alone, Undisturbed, Reported, NoneLeftOut
  <2> QED BY <2>1, <2>2, <2>3
<1> QED BY <1>1, ScanInvariant, PTL

BuildInv == part = "build" => BuildParts

\* The inductive invariant of Metro's build events.
THEOREM BuildInvariant == FindSpec => []BuildInv
<1>1. FindInit => BuildInv
  BY BuildsStart DEF FindInit, ScanInit, BuildInit, BuildInv
<1>2. BuildInv /\ [FindNext]_allVars => BuildInv'
  <2> SUFFICES ASSUME BuildInv, [FindNext]_allVars
               PROVE  BuildInv'
    OBVIOUS
  <2>1. CASE part = "build" /\ Builds!Next /\ UNCHANGED <<part, vars, nameVars>>
    BY <2>1, BuildsStep DEF BuildInv
  <2>2. CASE part' = part /\ UNCHANGED buildVars
    BY <2>2, BuildsIdle DEF BuildInv
  <2> QED BY <2>1, <2>2 DEF FindNext, allVars
<1> QED BY <1>1, <1>2, PTL DEF FindSpec

\* No error is cleared unseen but for what an answer has no room for, "Has Error"
\* has one to show, and a link to Metro's build events that was made is open, on
\* its way or timed to come back (bundle.ts, bundleTools.ts).
THEOREM BuildsAreKept == FindSpec => []BuildsKept
<1>1. BuildInv => BuildsKept
  <2> SUFFICES ASSUME BuildParts
               PROVE  Builds!ErrorsBacked /\ Builds!ClearTellsAll /\ Builds!LinkComesBack
    BY DEF BuildInv, BuildsKept
  <2>1. Builds!ClearTellsAll
    BY DEF BuildParts, CallsTold, Told, Builds!ClearTellsAll
  <2>2. Builds!LinkComesBack
    BY DEF BuildParts, LinkOK, LinkTypes, RetryUnderWay, LinkStands, Builds!LinkComesBack
  <2> QED BY <2>1, <2>2 DEF BuildParts
<1> QED BY <1>1, BuildInvariant, PTL

NamesInv == part = "names" => NameParts

\* The inductive invariant of the names of an Electron app's windows: what is fixed,
\* reserved, listed and registered agrees, whatever the calls in flight have listed.
THEOREM NamesInvariant == FindSpec => []NamesInv
<1>1. FindInit => NamesInv
  BY NamesStart DEF FindInit, ScanInit, BuildInit, NamesInv
<1>2. NamesInv /\ [FindNext]_allVars => NamesInv'
  <2> SUFFICES ASSUME NamesInv, [FindNext]_allVars
               PROVE  NamesInv'
    OBVIOUS
  <2>1. CASE part = "names" /\ Windows!Next /\ UNCHANGED <<part, vars, buildVars>>
    BY <2>1, NamesStep DEF NamesInv
  <2>2. CASE part' = part /\ UNCHANGED nameVars
    BY <2>2, NamesIdle DEF NamesInv
  <2> QED BY <2>1, <2>2 DEF FindNext, allVars
<1> QED BY <1>1, <1>2, PTL DEF FindSpec

\* A connected window is registered under the name every listing gives it, a name
\* never moves to the window of another page, and no window is attached that no call
\* named (metro.ts): however many calls list, name and dial at once.
THEOREM NamesAreHeld == FindSpec => []NamesHold
<1>1. NamesInv => NamesHold
  <2> SUFFICES ASSUME NameParts
               PROVE  Windows!RegistryAgrees /\ Windows!NamesKeepTheirPage /\ Windows!OnlyTheAsked
    BY DEF NamesInv, NamesHold
  <2>1. Windows!RegistryAgrees /\ Windows!OnlyTheAsked
    BY DEF NameParts, RegisteredAsFixed, Windows!RegistryAgrees, Windows!OnlyTheAsked
  <2>2. ASSUME NEW v \in Ids, NEW w \in Ids, byId[v] # Windows!NoName, byId[v] = byId[w]
        PROVE  shown[v] = shown[w]
    <3>1. KeptFor(reserved, byId[v], shown[v]) /\ KeptFor(reserved, byId[v], shown[w])
      BY <2>2 DEF NameParts, Namings, KeptAll
    <3> QED BY <3>1 DEF NameParts, Namings, Reserved, KeptFor
  <2> QED BY <2>1, <2>2 DEF Windows!NamesKeepTheirPage
<1> QED BY <1>1, NamesInvariant, PTL
=============================================================================
