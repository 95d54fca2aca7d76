--------------------------- MODULE NetworkCapture ---------------------------
(***************************************************************************)
(* How the server records an app's network traffic: three sources that see *)
(* the same requests, the CDP Network domain and the injected interceptor  *)
(* (src/src/core/connection.ts, networkInterceptor.ts) and the in-app SDK, *)
(* whose entries the mirror poller copies (sdkMirrorPoller.ts); the probe  *)
(* that decides which source counts; and the epochs that keep the runs of  *)
(* a restarted app apart (state.ts, network.ts).                           *)
(*                                                                         *)
(* One device, one app.  Commands to the app and messages from it travel   *)
(* in order on the socket.  One action is the code between two awaits.  A  *)
(* mirror pass resumes after its answer was handled, before the next timer *)
(* or tool, but the messages of the same TCP segment come first: ws        *)
(* delivers them in one turn.  Every runtime numbers its requests from 1,  *)
(* which is what CDP and the SDK use as request id; the ids of the         *)
(* interceptor carry a random prefix per runtime.                          *)
(***************************************************************************)
EXTENDS Naturals, Sequences, Functions

CONSTANTS
  Backends,    \* CDP Network support: "refuses", "silent" (never answers Network.enable), "answers"
  NumIds,      \* bound: requests per runtime
  MaxRuns,     \* bound: runtimes, that is restarts + 1
  MaxDrops,    \* bound: connections lost without a restart
  MaxQueue,    \* bound: messages under way, beyond which nothing new is sent
  MaxSize      \* networkBufferSize()

ASSUME BoundsAssumption ==
  /\ Backends \subseteq {"refuses", "silent", "answers"}
  /\ {NumIds, MaxRuns, MaxQueue, MaxSize} \subseteq Nat \ {0} /\ MaxDrops \in Nat

VARIABLES
  backend, run, target,          \* app: CDP support, runtime, target id under Metro
  sdk, hooked, muted, cdpOn,     \* runtime: SDK initialised, interceptor injected,
                                 \* __RN_NET_DISABLED__, Network domain on
  req, wrapped, traced, inSdk,   \* runtime: requests, those each source knows
  link, drops, up, down,         \* the socket and the messages on it
  sdkPresent, miss, cdpNet,      \* ConnectedApp: sdkPresent, sdkMissCount, cdpNetworkSupported
  lastTarget, epoch,             \* lastTargetIdByDevice, sessionEpochs
  rows,                          \* NetworkBuffer, in insertion order
  replies, lastRun, seen         \* mirror: answers not yet handled, lastRunId, mirrored

runtimeVars == <<run, target, sdk, hooked, muted, cdpOn, req, wrapped, traced, inSdk>>
wireVars == <<link, drops, up, down>>
appVars == <<sdkPresent, miss, cdpNet>>
mirrorVars == <<replies, lastRun, seen>>
vars == <<backend, runtimeVars, wireVars, appVars, lastTarget, epoch, rows, mirrorVars>>

Ids == 1..NumIds
Runs == 1..MaxRuns
(* SDK_ABSENCE_CONFIRM_COUNT *)
ConfirmCount == 2

(* A row of the buffer: the Map key is epoch and request id, here the      *)
(* source by, the number n and, for the interceptor, its prefix p.  run is *)
(* the runtime that made the request, of the runtime whose response it     *)
(* shows, 0 for none.                                                      *)
Row(e, by, n, r, done) ==
  [epoch |-> e, by |-> by, n |-> n, p |-> IF by = "int" THEN r ELSE 0,
   run |-> r, of |-> IF done THEN r ELSE 0]
SameId(a, b) == a.by = b.by /\ a.n = b.n /\ a.p = b.p
Done(row) == row.of # 0

Msg == [t : {"sent", "done"}, by : {"cdp", "int"}, n : Ids, run : Runs]
       \cup [t : {"cleared", "created"}]
       \cup [t : {"probe", "enable"}, v : BOOLEAN]
       \cup [t : {"read"}, run : Runs, sdk : SUBSET Ids, done : SUBSET Ids]
Cmd == [t : {"inject", "enable", "probe", "read", "wipe"}] \cup [t : {"mute"}, v : BOOLEAN]

TypeOK ==
  /\ backend \in Backends /\ run \in Runs /\ target \in Runs
  /\ {sdk, hooked, muted, cdpOn, link} \subseteq BOOLEAN
  /\ req \in [Ids -> {"none", "sent", "done"}]
  /\ wrapped \subseteq Ids /\ traced \subseteq Ids /\ inSdk \subseteq Ids
  /\ drops \in 0..MaxDrops
  /\ \A i \in 1..Len(up) : up[i] \in Msg
  /\ \A i \in 1..Len(down) : down[i] \in Cmd
  /\ {sdkPresent, cdpNet} \subseteq {"unknown", "yes", "no"}
  /\ miss \in 0..(ConfirmCount - 1)
  /\ lastTarget \in 0..MaxRuns /\ epoch \in Nat \ {0}
  /\ \A i, j \in 1..Len(rows) :       \* a Map: no key twice
       i # j => ~(SameId(rows[i], rows[j]) /\ rows[i].epoch = rows[j].epoch)
  /\ Len(rows) <= MaxSize
  /\ lastRun.run \in 0..MaxRuns

Init ==
  /\ backend \in Backends /\ run = 1 /\ target = 1
  /\ sdk = FALSE /\ hooked = FALSE /\ muted = FALSE /\ cdpOn = FALSE
  /\ req = [i \in Ids |-> "none"] /\ wrapped = {} /\ traced = {} /\ inSdk = {}
  /\ link = FALSE /\ drops = 0 /\ up = <<>> /\ down = <<>>
  /\ sdkPresent = "unknown" /\ miss = 0 /\ cdpNet = "unknown"
  /\ lastTarget = 0 /\ epoch = 1 /\ rows = <<>>
  /\ replies = <<>> /\ lastRun = [run |-> 0, epoch |-> 0] /\ seen = {}

-----------------------------------------------------------------------------
(* NetworkBuffer                                                           *)

(* set: the entry of this key is replaced in place, a new one appended and *)
(* the oldest evicted.                                                     *)
Set(buffer, row) ==
  IF \E i \in 1..Len(buffer) : SameId(buffer[i], row) /\ buffer[i].epoch = row.epoch
  THEN [i \in 1..Len(buffer) |->
          IF SameId(buffer[i], row) /\ buffer[i].epoch = row.epoch THEN row ELSE buffer[i]]
  ELSE LET longer == Append(buffer, row)
       IN IF Len(longer) > MaxSize THEN Tail(longer) ELSE longer

(* filter: the rows that are not gone, in their order.                     *)
Without(buffer, gone) ==
  LET left[n \in 0..Len(buffer)] ==
        IF n = 0 THEN <<>>
        ELSE IF buffer[n] \in gone THEN left[n - 1] ELSE Append(left[n - 1], buffer[n])
  IN left[Len(buffer)]

(* get: the current epoch first, then the oldest entry with this id.       *)
Found(id) ==
  LET hits == {i \in 1..Len(rows) : SameId(rows[i], id)}
      now == {i \in hits : rows[i].epoch = epoch}
  IN IF now # {} THEN now ELSE {i \in hits : \A j \in hits : i <= j}

(* A response or an error for id: the entry found is changed in place.     *)
Complete(id) ==
  rows' = [i \in 1..Len(rows) |-> IF i \in Found(id) THEN [rows[i] EXCEPT !.of = id.run] ELSE rows[i]]

-----------------------------------------------------------------------------
(* The socket                                                              *)

(* Messages of the app reach the server only while the socket is open.     *)
Emit(msgs) == up' = IF link THEN up \o msgs ELSE up
Room(n) == Len(up) + Len(down) + Len(replies) + n <= MaxQueue
Tell(cmds) == down' = IF link THEN down \o cmds ELSE down

(* connectToDevice once the probe is answered: a fresh ConnectedApp, a new *)
(* epoch if the target id changed, interceptor and Network domain.         *)
Connect ==
  /\ ~link /\ replies = <<>>
  /\ link' = TRUE
  /\ sdkPresent' = "unknown" /\ miss' = 0 /\ cdpNet' = "unknown"
  /\ epoch' = IF lastTarget \notin {0, target} THEN epoch + 1 ELSE epoch
  /\ lastTarget' = target
  /\ down' = <<[t |-> "inject"], [t |-> "enable"]>>
  /\ UNCHANGED <<backend, runtimeVars, drops, up, rows, mirrorVars>>

(* The close of the socket: what is under way is lost, reads included.     *)
Lost == link' = FALSE /\ up' = <<>> /\ down' = <<>>
Drop ==
  /\ link /\ replies = <<>> /\ drops < MaxDrops
  /\ drops' = drops + 1
  /\ Lost
  /\ cdpOn' = FALSE /\ traced' = {}
  /\ UNCHANGED <<backend, run, target, sdk, hooked, muted, req, wrapped, inSdk, appVars,
                 lastTarget, epoch, rows, mirrorVars>>

-----------------------------------------------------------------------------
(* The app                                                                 *)

NewRuntime ==
  /\ run < MaxRuns /\ run' = run + 1
  /\ sdk' = FALSE /\ hooked' = FALSE /\ muted' = FALSE /\ cdpOn' = FALSE
  /\ req' = [i \in Ids |-> "none"] /\ wrapped' = {} /\ traced' = {} /\ inSdk' = {}

(* A reload announces itself on the socket, which it keeps.                *)
Reload ==
  /\ NewRuntime /\ Room(2)
  /\ Emit(<<[t |-> "cleared"], [t |-> "created"]>>)
  /\ UNCHANGED <<backend, target, link, drops, down, appVars, lastTarget, epoch, rows, mirrorVars>>

(* A killed process announces nothing; Metro hands back the same target.   *)
Kill ==
  /\ NewRuntime
  /\ UNCHANGED <<backend, target, wireVars, appVars, lastTarget, epoch, rows, mirrorVars>>

(* A relaunch under a new target id; the old socket closes.                *)
Relaunch ==
  /\ NewRuntime /\ target' = run' /\ replies = <<>>
  /\ Lost
  /\ UNCHANGED <<backend, drops, appVars, lastTarget, epoch, rows, mirrorVars>>

(* init() of execbro-sdk.                                                  *)
InitSdk ==
  /\ ~sdk /\ sdk' = TRUE
  /\ UNCHANGED <<backend, run, target, hooked, muted, cdpOn, req, wrapped, traced, inSdk, wireVars,
                 appVars, lastTarget, epoch, rows, mirrorVars>>

(* _report: silent while the SDK is there or the flag is set.              *)
Reported(kind, i) ==
  IF hooked /\ ~muted /\ ~sdk THEN <<[t |-> kind, by |-> "int", n |-> i, run |-> run]>> ELSE <<>>
Traced(kind, i) ==
  IF cdpOn /\ i \in traced' THEN <<[t |-> kind, by |-> "cdp", n |-> i, run |-> run]>> ELSE <<>>

(* The app sends its next request: the interceptor reports it, the SDK     *)
(* records it, the Network domain sees it.                                 *)
Send(i) ==
  /\ req[i] = "none" /\ \A j \in Ids : j < i => req[j] # "none"
  /\ Room(2)
  /\ req' = [req EXCEPT ![i] = "sent"]
  /\ wrapped' = IF hooked THEN wrapped \cup {i} ELSE wrapped
  /\ traced' = IF cdpOn THEN traced \cup {i} ELSE traced
  /\ inSdk' = IF sdk THEN inSdk \cup {i} ELSE inSdk
  /\ Emit(Reported("sent", i) \o Traced("sent", i))
  /\ UNCHANGED <<backend, run, target, sdk, hooked, muted, cdpOn, link, drops, down, appVars,
                 lastTarget, epoch, rows, mirrorVars>>

(* Its response arrives, or it fails.                                      *)
Respond(i) ==
  /\ req[i] = "sent" /\ Room(2)
  /\ req' = [req EXCEPT ![i] = "done"]
  /\ UNCHANGED traced
  /\ Emit(Traced("done", i) \o (IF i \in wrapped THEN Reported("done", i) ELSE <<>>))
  /\ UNCHANGED <<backend, run, target, sdk, hooked, muted, cdpOn, wrapped, inSdk, link, drops,
                 down, appVars, lastTarget, epoch, rows, mirrorVars>>

(* What the app sends back for a command.                                  *)
Answer(c) ==
  IF c.t = "enable" /\ backend # "silent" THEN <<[t |-> "enable", v |-> backend = "answers"]>>
  ELSE IF c.t = "probe" THEN <<[t |-> "probe", v |-> sdk]>>
  ELSE IF c.t = "read"
  THEN <<[t |-> "read", run |-> run, sdk |-> inSdk, done |-> {i \in inSdk : req[i] = "done"}]>>
  ELSE <<>>

(* The app runs the next command: the two scripts, the flag, Network.enable, *)
(* the probe of the SDK, the read of its buffer, clearNetwork().             *)
Run ==
  /\ down # <<>>
  /\ down' = Tail(down)
  /\ LET c == Head(down)
     IN /\ hooked' = (hooked \/ c.t = "inject")
        /\ muted' = IF c.t = "mute" THEN c.v ELSE muted
        /\ cdpOn' = (cdpOn \/ (c.t = "enable" /\ backend # "refuses"))
        /\ inSdk' = IF c.t = "wipe" THEN {} ELSE inSdk
        /\ Emit(Answer(c))
  /\ UNCHANGED <<backend, run, target, sdk, req, wrapped, traced, link, drops, appVars, lastTarget,
                 epoch, rows, mirrorVars>>

-----------------------------------------------------------------------------
(* handleCDPMessage                                                        *)

(* The interceptor's copies are dropped when another source reports them.  *)
Suppressed == cdpNet = "yes" \/ sdkPresent = "yes"

RequestSent(m) ==
  IF m.by = "cdp"
  THEN IF sdkPresent = "yes" THEN UNCHANGED <<cdpNet, rows>>
       ELSE cdpNet' = "yes" /\ rows' = Set(rows, Row(epoch, "cdp", m.n, m.run, FALSE))
  ELSE /\ UNCHANGED cdpNet
       /\ rows' = IF Suppressed THEN rows ELSE Set(rows, Row(epoch, "int", m.n, m.run, FALSE))

ResponseReceived(m) ==
  IF m.by = "int" /\ Suppressed THEN UNCHANGED rows
  ELSE Complete(Row(epoch, m.by, m.n, m.run, TRUE))

(* The answer of the probe, with hysteresis on the way from present to     *)
(* absent.  On an edge the flag is sent, and when the SDK appears the rows *)
(* the server captured itself in this epoch are dropped.                   *)
RowsKept(present) == rows                         \* mutant: duplicates stay
RowsAfterEdge(present) ==
  IF present THEN Without(rows, {r \in Range(rows) : r.epoch = epoch /\ r.by # "sdk"}) ELSE rows
ProbeAnswer(v) ==
  LET was == sdkPresent = "yes"
      held == ~v /\ was /\ miss + 1 < ConfirmCount
      present == v \/ held
  IN /\ miss' = IF held THEN miss + 1 ELSE 0
     /\ sdkPresent' = IF present THEN "yes" ELSE "no"
     /\ IF present # was
        THEN Tell(<<[t |-> "mute", v |-> present]>>) /\ rows' = RowsAfterEdge(present)
        ELSE UNCHANGED <<down, rows>>

(* executionContextCreated: inject, send the flag as believed, ask for the *)
(* Network domain again.                                                   *)
NoFlag == <<[t |-> "inject"], [t |-> "enable"]>>           \* mutant: flag on edges only
Reinjection == <<[t |-> "inject"], [t |-> "mute", v |-> sdkPresent = "yes"], [t |-> "enable"]>>

Deliver ==
  /\ up # <<>>
  /\ up' = Tail(up)
  /\ LET m == Head(up)
     IN \/ /\ m.t = "sent" /\ RequestSent(m)
           /\ UNCHANGED <<down, sdkPresent, miss, epoch, replies>>
        \/ /\ m.t = "done" /\ ResponseReceived(m)
           /\ UNCHANGED <<down, appVars, epoch, replies>>
        \/ /\ m.t = "probe" /\ ProbeAnswer(m.v)
           /\ UNCHANGED <<cdpNet, epoch, replies>>
        \/ /\ m.t = "enable" /\ cdpNet' = IF m.v THEN "yes" ELSE "no"
           /\ UNCHANGED <<down, sdkPresent, miss, epoch, rows, replies>>
        \/ /\ m.t = "created" /\ Tell(Reinjection)
           /\ UNCHANGED <<appVars, epoch, rows, replies>>
        \/ /\ m.t = "cleared" /\ epoch' = epoch + 1
           /\ UNCHANGED <<down, appVars, rows, replies>>
        \/ /\ m.t = "read" /\ replies' = Append(replies, m)
           /\ UNCHANGED <<down, appVars, epoch, rows>>
  /\ UNCHANGED <<backend, runtimeVars, link, drops, lastTarget, lastRun, seen>>

-----------------------------------------------------------------------------
(* Timers and tools                                                        *)

Ask(cmd) ==
  /\ link /\ replies = <<>> /\ Room(1)
  /\ Tell(<<[t |-> cmd]>>)

ProbeOnce ==                     \* mutant: no interval
  /\ sdkPresent = "unknown" /\ Ask("probe")
  /\ UNCHANGED <<backend, runtimeVars, link, drops, up, appVars, lastTarget, epoch, rows, mirrorVars>>
(* sendSdkProbe, from the interval or after a context was created.         *)
Probe ==
  /\ Ask("probe")
  /\ UNCHANGED <<backend, runtimeVars, link, drops, up, appVars, lastTarget, epoch, rows, mirrorVars>>

(* mirrorOnce up to its await, from the poller or before a tool's read.    *)
Poll ==
  /\ Ask("read")
  /\ UNCHANGED <<backend, runtimeVars, link, drops, up, appVars, lastTarget, epoch, rows, mirrorVars>>

(* clear_network: the buffer, then the SDK's own.                          *)
Clear ==
  /\ rows # <<>> /\ replies = <<>>
  /\ rows' = <<>>
  /\ IF sdkPresent = "yes" THEN Ask("wipe") ELSE UNCHANGED down
  /\ UNCHANGED <<backend, runtimeVars, link, drops, up, appVars, lastTarget, epoch, mirrorVars>>

(* mirrorOnce after its await.  A changed runtime starts a new epoch,      *)
(* unless something else has done so since the old one was seen.  What is  *)
(* finished is latched in seen, what is pending will be read again.        *)
NeverRestarted(a) == FALSE                        \* mutant: no run id
Restarted(a) == lastRun.run \notin {0, a.run} /\ lastRun.epoch = epoch
LatchedAll(a) == a.sdk                            \* mutant: latched at first sight
Latched(a) == a.done
(* the rows once each new entry of the answer was set, as one of epoch e   *)
Mirrored(a, e, new) ==
  LET after[i \in 0..NumIds] ==
        IF i = 0 THEN rows
        ELSE IF i \in new THEN Set(after[i - 1], Row(e, "sdk", i, a.run, i \in a.done))
        ELSE after[i - 1]
  IN after[NumIds]
Mirror ==
  /\ replies # <<>>
  /\ replies' = Tail(replies)
  /\ LET a == Head(replies)
         e == IF Restarted(a) THEN epoch + 1 ELSE epoch
         new == {i \in a.sdk : <<e, i>> \notin seen}
     IN /\ epoch' = e
        /\ lastRun' = [run |-> a.run, epoch |-> e]
        /\ seen' = seen \cup {<<e, i>> : i \in new \cap Latched(a)}
        /\ rows' = Mirrored(a, e, new)
  /\ UNCHANGED <<backend, runtimeVars, wireVars, appVars, lastTarget>>

-----------------------------------------------------------------------------
App == Reload \/ Kill \/ Relaunch \/ InitSdk \/ \E i \in Ids : Send(i) \/ Respond(i)

Next == Connect \/ Drop \/ App \/ Run \/ Deliver \/ Probe \/ Poll \/ Clear \/ Mirror

Spec == Init /\ [][Next]_vars

(* Node delivers what arrived, the app runs what it is sent, the intervals *)
(* of the probe and of the poller go on, a lost connection comes back.     *)
Fairness ==
  /\ WF_vars(Connect) /\ WF_vars(Run) /\ WF_vars(Deliver) /\ WF_vars(Mirror)
  /\ SF_vars(Probe) /\ SF_vars(Poll)
FairSpec == Spec /\ Fairness

-----------------------------------------------------------------------------
(* Properties                                                              *)

(* While the SDK counts as the source, the current epoch lists no request  *)
(* a second time from CDP or the interceptor: whatever those sources wrote *)
(* before the SDK was detected is gone, and nothing they had under way     *)
(* came in after it.                                                       *)
SdkIsSoleSource ==
  sdkPresent = "yes" => \A i \in 1..Len(rows) : rows[i].epoch = epoch => rows[i].by = "sdk"

(* An SDK entry of a new runtime never takes the row of an old one with    *)
(* the same id, however restarts, reads under way and the other two ways   *)
(* to bump the epoch interleave.                                           *)
SdkRowKeepsRun == [][
  \A i \in 1..Len(rows), j \in 1..Len(rows') :
    /\ rows[i].by = "sdk" /\ rows'[j].epoch = rows[i].epoch /\ SameId(rows'[j], rows[i])
    => rows'[j].run = rows[i].run
  ]_vars

(* What the mirror will not read again is complete: no request is shown    *)
(* pending for good because a poll met it in flight.                       *)
LatchedIsDone ==
  \A i \in 1..Len(rows) :
    rows[i].by = "sdk" /\ <<rows[i].epoch, rows[i].n>> \in seen => Done(rows[i])

(* When nothing is under way, a runtime with the interceptor has the flag  *)
(* the server believes in: a reload does not bring the suppressed traffic  *)
(* back.                                                                   *)
MutedWhileSdk ==
  link /\ up = <<>> /\ down = <<>> /\ hooked /\ sdkPresent = "yes" => muted

(* The SDK is the one source of a runtime that has it, and a source that   *)
(* loses nothing: no duplicate, nothing latched half-read, no other source *)
(* left talking.                                                           *)
SdkAlone == SdkIsSoleSource /\ LatchedIsDone /\ MutedWhileSdk

(* The SDK of a runtime that stays is detected in the end.                 *)
SdkDetected == <>[](sdk /\ link) => <>[](sdkPresent = "yes")

=============================================================================
