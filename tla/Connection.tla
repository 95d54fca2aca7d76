----------------------------- MODULE Connection -----------------------------
(***************************************************************************)
(* The life of CDP connections (src/src/core/connection.ts and             *)
(* connectionState.ts): connectToDevice, its close handler, the backoff    *)
(* loop (scheduleReconnection, attemptReconnection), and the tools that    *)
(* close connections under it.                                             *)
(*                                                                         *)
(* Node runs one callback at a time, so an action is the code between two  *)
(* awaits.  A Call is one run of attemptReconnection and/or                *)
(* connectToDevice; it creates at most one socket, which bears its name.   *)
(* No clock is kept: every pending timer may fire at any time.             *)
(***************************************************************************)
EXTENDS Naturals

CONSTANTS
  Keys,          \* appKeys, `${port}-${device.id}`
  Calls,         \* bound: runs of connectToDevice (hence sockets) alive at once
  NoCall,        \* absent registry entry / no pinged socket
  NoKey,         \* key of a call that has not started
  DeviceOf,      \* the device name behind each key
  Chromium,      \* keys whose target is a Chromium page
  MaxAttempts,   \* ReconnectionConfig.maxAttempts
  MaxStray       \* bound: forgotten reconnection timers counted per key

ASSUME CallsAssumption == NoCall \notin Calls
ASSUME KeysAssumption == NoKey \notin Keys /\ Chromium \subseteq Keys
ASSUME BoundsAssumption == MaxAttempts \in Nat \ {0} /\ MaxStray \in Nat \ {0}

VARIABLES
  pc,            \* where each call is waiting
  key,           \* the appKey it works on
  recon,         \* its options.isReconnection
  old,           \* the registered socket it is pinging or checking
  ws,            \* readyState of the socket it created
  connectedApps, \* the registry: appKey -> socket
  locks,         \* connectionLocks
  suppressed,    \* reconnectionSuppressed
  displaced,     \* displacedApps
  meta,          \* keys of connectionMetadata
  conn,          \* connectionStates (status, reconnectionAttempts, last gap)
  timer          \* reconnectionTimers, and timers no longer in that map

procVars == <<pc, key, recon, old, ws>>
flagVars == <<suppressed, displaced>>
loopVars == <<meta, conn, timer>>
vars == <<procVars, connectedApps, locks, flagVars, loopVars>>

-----------------------------------------------------------------------------
(* "scan": attemptReconnection waits for the port scan and /json;          *)
(* "vet": a tool waits for a registered socket to answer an evaluate;      *)
(* "ping", "dial", "probe": connectToDevice waits for the pong of the      *)
(* existing socket, for the handshake, for probeCdpAlive; "done": it has   *)
(* returned and its socket is registered or not yet closed; "left": its    *)
(* promise is never settled, so what awaits it is never resumed.           *)
Waiting == {"scan", "vet", "ping", "dial", "probe"}
Places == Waiting \cup {"free", "done", "left"}

(* "closing": no longer OPEN, the close event not yet delivered;           *)
(* "evicted": the same, and Metro gave [NEW_DEBUGGER_OPENED] as reason.    *)
Sockets == {"none", "open", "closing", "evicted"}

ConnStates ==
  [status : {"none", "connected", "reconnecting", "disconnected"},
   attempts : 0..MaxAttempts, gap : {"none", "open", "closed"}]

Timers == [map : {"none", "armed", "fired"}, stray : 0..MaxStray]

(* No entry in connectionStates.                                           *)
NoState == [status |-> "none", attempts |-> 0, gap |-> "none"]
(* initConnectionState *)
FreshState == [status |-> "connected", attempts |-> 0, gap |-> "none"]

HasState(s) == s.status # "none"
IsOpen(c) == c # NoCall /\ ws[c] = "open"

(* ws.close() and ws.terminate(): a socket that is already closing is      *)
(* left as it is.                                                          *)
Closed(sockets, C) ==
  [c \in Calls |-> IF c \in C /\ sockets[c] = "open" THEN "closing" ELSE sockets[c]]

Registered(k) == connectedApps[k] # NoCall
Sockets2(K) == {connectedApps[k] : k \in K}

TypeOK ==
  /\ pc \in [Calls -> Places]
  /\ key \in [Calls -> Keys \cup {NoKey}]
  /\ recon \in [Calls -> BOOLEAN]
  /\ old \in [Calls -> Calls \cup {NoCall}]
  /\ ws \in [Calls -> Sockets]
  /\ connectedApps \in [Keys -> Calls \cup {NoCall}]
  /\ locks \subseteq Keys
  /\ suppressed \subseteq Keys
  /\ displaced \subseteq Keys
  /\ meta \subseteq Keys
  /\ conn \in [Keys -> ConnStates]
  /\ timer \in [Keys -> Timers]

Init ==
  /\ pc = [c \in Calls |-> "free"]
  /\ key = [c \in Calls |-> NoKey]
  /\ recon = [c \in Calls |-> FALSE]
  /\ old = [c \in Calls |-> NoCall]
  /\ ws = [c \in Calls |-> "none"]
  /\ connectedApps = [k \in Keys |-> NoCall]
  /\ locks = {} /\ suppressed = {} /\ displaced = {} /\ meta = {}
  /\ conn = [k \in Keys |-> NoState]
  /\ timer = [k \in Keys |-> [map |-> "none", stray |-> 0]]

-----------------------------------------------------------------------------
(* Timers and the backoff schedule.                                        *)

(* cancelReconnectionTimer: reaches only the timer the map still names.    *)
Cancelled(t) == [t EXCEPT !.map = "none"]

(* scheduleReconnection, the state half: no state, no retry; at            *)
(* maxAttempts the loop gives up.                                          *)
Rescheduled(s) ==
  IF ~HasState(s) THEN s
  ELSE IF s.attempts < MaxAttempts
       THEN [s EXCEPT !.status = "reconnecting", !.attempts = s.attempts + 1]
       ELSE [s EXCEPT !.status = "disconnected"]

(* scheduleReconnection, the timer half: saveReconnectionTimer overwrites  *)
(* the map entry, so a timer that was still armed there can no longer be   *)
(* cancelled.                                                              *)
Rearmed(t, s) ==
  IF HasState(s) /\ s.attempts < MaxAttempts
  THEN [map |-> "armed",
        stray |-> IF t.map = "armed" /\ t.stray < MaxStray THEN t.stray + 1 ELSE t.stray]
  ELSE t

Schedule(k) ==
  /\ conn' = [conn EXCEPT ![k] = Rescheduled(conn[k])]
  /\ timer' = [timer EXCEPT ![k] = Rearmed(timer[k], conn[k])]

-----------------------------------------------------------------------------
(* connectToDevice                                                         *)

(* connectionLocks.delete                                                  *)
LockKept(k) == locks      \* mutant: a way out forgets the lock
Released(k) == locks \ {k}

MoveTo(c, place, k, r, o) ==
  /\ pc' = [pc EXCEPT ![c] = place]
  /\ key' = [key EXCEPT ![c] = k]
  /\ recon' = [recon EXCEPT ![c] = r]
  /\ old' = [old EXCEPT ![c] = o]

(* The call has returned; it owns no socket.                               *)
Return(c) == MoveTo(c, "free", NoKey, FALSE, NoCall)

(* "already connected on port ...": the same device is registered and open *)
(* under another key.                                                      *)
OnOtherPort(k, apps, sockets) ==
  \E k2 \in Keys \ {k} :
    /\ apps[k2] # NoCall /\ sockets[apps[k2]] = "open"
    /\ DeviceOf[k2] = DeviceOf[k]

(* From the duplicate check to the handshake: skipped, refused because     *)
(* another call holds the lock, or the lock taken, the timer cancelled and *)
(* the metadata saved.  apps and sockets are the registry and the sockets  *)
(* as the caller leaves them.                                              *)
Enter(c, k, r, apps, sockets) ==
  /\ connectedApps' = apps
  /\ ws' = sockets
  /\ IF OnOtherPort(k, apps, sockets) \/ k \in locks
     THEN /\ Return(c)
          /\ UNCHANGED <<locks, meta, timer>>
     ELSE /\ MoveTo(c, "dial", k, r, NoCall)
          /\ locks' = locks \cup {k}
          /\ meta' = meta \cup {k}
          /\ timer' = [timer EXCEPT ![k] = Cancelled(timer[k])]

(* The entry of connectToDevice: an OPEN registered socket is pinged       *)
(* first, one that is not OPEN is dropped from the registry.               *)
BeginConnect(c, k, r) ==
  /\ IF IsOpen(connectedApps[k])
     THEN /\ MoveTo(c, "ping", k, r, connectedApps[k])
          /\ UNCHANGED <<ws, connectedApps, locks, meta, timer>>
     ELSE Enter(c, k, r, [connectedApps EXCEPT ![k] = NoCall], ws)
  /\ UNCHANGED <<conn, flagVars>>

(* The existing socket answered: "Already connected".                      *)
PingOk(c) ==
  /\ pc[c] = "ping" /\ IsOpen(old[c])
  /\ Return(c)
  /\ UNCHANGED <<ws, connectedApps, locks, flagVars, loopVars>>

(* No pong within 2s.  The code suppresses the reconnection of the socket  *)
(* it terminates, deletes whatever is registered, and goes on.             *)
PingFail(c) ==
  /\ pc[c] = "ping"
  /\ suppressed' = suppressed \cup {key[c]}
  /\ Enter(c, key[c], recon[c], [connectedApps EXCEPT ![key[c]] = NoCall],
           Closed(ws, {old[c]}))
  /\ UNCHANGED <<displaced, conn>>

(* The handshake succeeded; close handler attached, probe sent.            *)
DialOk(c) ==
  /\ pc[c] = "dial"
  /\ pc' = [pc EXCEPT ![c] = "probe"]
  /\ ws' = [ws EXCEPT ![c] = "open"]
  /\ UNCHANGED <<key, recon, old, connectedApps, locks, flagVars, loopVars>>

(* The promise is rejected for a tool's call only.  A reconnection call is *)
(* neither resolved nor rejected: attemptReconnection waits for it for     *)
(* good, and the next attempt its catch would schedule is never scheduled. *)
DialRejected(c) == IF recon[c] THEN MoveTo(c, "left", NoKey, FALSE, NoCall) ELSE Return(c)

(* The handshake failed: the catch of connectToDevice.                     *)
DialFail(c) ==
  /\ pc[c] = "dial"
  /\ DialRejected(c)
  /\ locks' = Released(key[c])
  /\ timer' = [timer EXCEPT ![key[c]] = Cancelled(timer[key[c]])]
  /\ connectedApps' = [connectedApps EXCEPT ![key[c]] = NoCall]
  /\ UNCHANGED <<ws, flagVars, meta, conn>>

(* The state after a reconnection keeps the attempt counter and closes the *)
(* last gap (closeConnectionGap).                                          *)
ReconnectedGapOpen(s) ==  \* mutant: closeConnectionGap not called
  IF HasState(s) THEN [s EXCEPT !.status = "connected"] ELSE s
Reconnected(s) ==
  IF HasState(s)
  THEN [s EXCEPT !.status = "connected", !.gap = IF s.gap = "open" THEN "closed" ELSE s.gap]
  ELSE s

(* The probe was answered: the socket is registered and the state set up.  *)
ProbeOk(c) ==
  LET k == key[c]
  IN
  /\ pc[c] = "probe" /\ ws[c] = "open"
  /\ pc' = [pc EXCEPT ![c] = "done"]
  /\ locks' = Released(k)
  /\ connectedApps' = [connectedApps EXCEPT ![k] = c]
  /\ displaced' = displaced \ {k}
  /\ conn' = [conn EXCEPT ![k] = IF recon[c] THEN Reconnected(conn[k]) ELSE FreshState]
  /\ UNCHANGED <<key, recon, old, ws, suppressed, meta, timer>>

(* probeCdpAlive ends by its own timeout, whatever became of the socket.   *)
OpenProbeEnds(c) == pc[c] = "probe" /\ ws[c] = "open"   \* mutant: no timeout
ProbeEnds(c) == pc[c] = "probe"

(* No answer within PROBE_TIMEOUT_MS, which is also what a socket closed   *)
(* meanwhile comes to.  The close handler is taken off, so the close of    *)
(* this socket has no further effect.                                      *)
ProbeFail(c) ==
  LET k == key[c]
  IN
  /\ ProbeEnds(c)
  /\ Return(c)
  /\ ws' = [ws EXCEPT ![c] = "none"]
  /\ locks' = Released(k)
  /\ IF HasState(conn[k]) /\ k \notin suppressed
     THEN Schedule(k) /\ UNCHANGED meta
     ELSE meta' = meta \ {k} /\ UNCHANGED <<conn, timer>>
  /\ UNCHANGED <<connectedApps, flagVars>>

-----------------------------------------------------------------------------
(* Sockets closing                                                         *)

(* The remote end, or the network, closes the socket; evicted tells that   *)
(* Metro gave the app to another debugger.                                 *)
Drop(c) ==
  /\ ws[c] = "open"
  /\ \E how \in {"closing", "evicted"} : ws' = [ws EXCEPT ![c] = how]
  /\ UNCHANGED <<pc, key, recon, old, connectedApps, locks, flagVars, loopVars>>

(* The state handleClose leaves: attempts restart after a connection that  *)
(* lasted MIN_STABLE_CONNECTION_MS, and a gap is opened.                   *)
AfterClose(s, stable) ==
  IF HasState(s)
  THEN [status |-> "disconnected", attempts |-> IF stable THEN 0 ELSE s.attempts, gap |-> "open"]
  ELSE s

(* handleClose past the superseded-socket return, with the three ways the  *)
(* reconnection is decided.                                                *)
HandleClose(c, stable) ==
  LET k == key[c]
      s == AfterClose(conn[k], stable)
      r == IF HasState(s) THEN s ELSE FreshState
  IN
  /\ locks' = Released(k)
  /\ connectedApps' = [connectedApps EXCEPT ![k] = NoCall]
  /\ \/ /\ k \in suppressed
        /\ suppressed' = suppressed \ {k}
        /\ conn' = [conn EXCEPT ![k] = s]
        /\ UNCHANGED <<displaced, timer>>
     \/ /\ k \notin suppressed /\ ws[c] = "evicted"
        /\ displaced' = displaced \cup {k}
        /\ conn' = [conn EXCEPT ![k] = s]
        /\ UNCHANGED <<suppressed, timer>>
     \/ /\ k \notin suppressed /\ ws[c] = "closing"
        /\ conn' = [conn EXCEPT ![k] = Rescheduled(r)]
        /\ timer' = [timer EXCEPT ![k] = Rearmed(timer[k], r)]
        /\ UNCHANGED flagVars
  /\ UNCHANGED meta

NeverSuperseded(c) == FALSE                              \* mutant: no check
AnySuperseded(c) == connectedApps[key[c]] # NoCall       \* mutant: own entry too
(* isSupersededSocket: another socket is registered under this key.        *)
Superseded(c) == connectedApps[key[c]] \notin {NoCall, c}

(* The close event of a socket whose handler is attached.  A call still    *)
(* probing learns nothing here: its probe runs into its timeout.           *)
CloseEvent(c) ==
  /\ ws[c] \in {"closing", "evicted"}
  /\ ws' = [ws EXCEPT ![c] = "none"]
  /\ IF Superseded(c)
     THEN UNCHANGED <<connectedApps, locks, flagVars, loopVars>>
     ELSE \E stable \in BOOLEAN : HandleClose(c, stable)
  /\ IF pc[c] = "probe" THEN UNCHANGED <<pc, key, recon, old>> ELSE Return(c)

-----------------------------------------------------------------------------
(* attemptReconnection                                                     *)

(* A name a call may start under: not in use, or of a call that never      *)
(* resumes, and no other call still holds the socket that last bore it.    *)
Idle(c) == pc[c] \in {"free", "left"} /\ \A d \in Calls : old[d] # c

(* A reconnection timer fires.  The map keeps the spent handle.  Without   *)
(* metadata the attempt ends here.                                         *)
FireTimer(c, k) ==
  /\ Idle(c)
  /\ \/ timer[k].map = "armed" /\ timer' = [timer EXCEPT ![k].map = "fired"]
     \/ timer[k].stray > 0 /\ timer' = [timer EXCEPT ![k].stray = timer[k].stray - 1]
  /\ IF k \in meta
     THEN MoveTo(c, "scan", k, TRUE, NoCall)
     ELSE UNCHANGED <<pc, key, recon, old>>
  /\ UNCHANGED <<ws, connectedApps, locks, flagVars, meta, conn>>

(* The Metro port is closed: the loop stops.                               *)
ScanMetroDown(c) ==
  LET k == key[c]
  IN
  /\ pc[c] = "scan"
  /\ Return(c)
  /\ conn' = IF HasState(conn[k]) THEN [conn EXCEPT ![k].status = "disconnected"] ELSE conn
  /\ UNCHANGED <<ws, connectedApps, locks, flagVars, meta, timer>>

(* chromiumWindowGone *)
WindowGone(k, listed) == k \in Chromium /\ (listed \/ conn[k].attempts >= 2)

(* Metro is up but the device is not listed, or /json failed: the next     *)
(* attempt is scheduled, unless the window of a Chromium target is gone.   *)
ScanNoDevice(c) ==
  LET k == key[c]
  IN
  /\ pc[c] = "scan"
  /\ Return(c)
  /\ \E listed \in BOOLEAN :
       IF WindowGone(k, listed)
       THEN /\ conn' = [conn EXCEPT ![k] = NoState]
            /\ meta' = meta \ {k}
            /\ UNCHANGED timer
       ELSE Schedule(k) /\ UNCHANGED meta
  /\ UNCHANGED <<ws, connectedApps, locks, flagVars>>

(* pickReconnectTarget found the same target, or, for React Native, the    *)
(* main device of the port: a relaunched app has a new target id.          *)
ScanFound(c) ==
  /\ pc[c] = "scan"
  /\ \E k \in Keys :
       /\ key[c] \in Chromium => k = key[c]
       /\ BeginConnect(c, k, TRUE)

-----------------------------------------------------------------------------
(* Tools                                                                   *)

(* scan_metro, connect_metro, ensure_connection, reload_app and            *)
(* executeInApp call connectToDevice for a listed device.                  *)
UserConnect(c, k) == Idle(c) /\ BeginConnect(c, k, FALSE)

(* clearReconnectionSuppression: how scan_metro and ensure_connection      *)
(* start.                                                                  *)
ClearSuppression ==
  /\ suppressed # {}
  /\ suppressed' = {}
  /\ UNCHANGED <<procVars, connectedApps, locks, displaced, loopVars>>

(* Close the registered connection of k on purpose: purged after Metro     *)
(* restarted with another app, or disconnect_metro for one device.         *)
Release(k) ==
  /\ Registered(k)
  /\ suppressed' = suppressed \cup {k}
  /\ timer' = [timer EXCEPT ![k] = Cancelled(timer[k])]
  /\ ws' = Closed(ws, {connectedApps[k]})
  /\ connectedApps' = [connectedApps EXCEPT ![k] = NoCall]
  /\ UNCHANGED <<pc, key, recon, old, locks, displaced, meta, conn>>

(* disconnect_metro without a device: every registered key suppressed,     *)
(* every timer in the map cancelled, all connection state cleared.         *)
DisconnectAll ==
  LET K == {k \in Keys : Registered(k)}
  IN
  /\ K # {}
  /\ suppressed' = suppressed \cup K
  /\ ws' = Closed(ws, Sockets2(K))
  /\ connectedApps' = [k \in Keys |-> NoCall]
  /\ timer' = [k \in Keys |-> Cancelled(timer[k])]
  /\ meta' = {}
  /\ conn' = [k \in Keys |-> NoState]
  /\ UNCHANGED <<pc, key, recon, old, locks, displaced>>

(* ensure_connection with forceRefresh: every registered socket closed,    *)
(* with no suppression.                                                    *)
ForceRefresh ==
  LET K == {k \in Keys : Registered(k)}
  IN
  /\ K # {}
  /\ ws' = Closed(ws, Sockets2(K))
  /\ connectedApps' = [k \in Keys |-> NoCall]
  /\ timer' = [k \in Keys |-> IF k \in K THEN Cancelled(timer[k]) ELSE timer[k]]
  /\ UNCHANGED <<pc, key, recon, old, locks, flagVars, meta, conn>>

(* getFirstConnectedApp and the device resolvers drop entries whose socket *)
(* is not OPEN.                                                            *)
SweepStale(k) ==
  /\ Registered(k) /\ ~IsOpen(connectedApps[k])
  /\ connectedApps' = [connectedApps EXCEPT ![k] = NoCall]
  /\ UNCHANGED <<procVars, locks, flagVars, loopVars>>

(* A tool takes a registered socket and waits for its answer: the health   *)
(* check of ensure_connection, an execution that may meet a context error, *)
(* the vetting of apps that share a device.                                *)
BeginVet(c, k) ==
  /\ Idle(c) /\ IsOpen(connectedApps[k])
  /\ MoveTo(c, "vet", k, FALSE, connectedApps[k])
  /\ UNCHANGED <<ws, connectedApps, locks, flagVars, loopVars>>

(* It answers, or the tool gives up and leaves the connection alone.       *)
VetOk(c) ==
  /\ pc[c] = "vet"
  /\ Return(c)
  /\ UNCHANGED <<ws, connectedApps, locks, flagVars, loopVars>>

(* No answer.  The socket taken before the wait is closed, and the entry   *)
(* of its key deleted, whatever is registered there by now.                *)
VetFail(c) ==
  LET k == key[c]
  IN
  /\ pc[c] = "vet"
  /\ Return(c)
  /\ timer' = [timer EXCEPT ![k] = Cancelled(timer[k])]
  /\ ws' = Closed(ws, {old[c]})
  /\ connectedApps' = [connectedApps EXCEPT ![k] = NoCall]
  /\ UNCHANGED <<locks, flagVars, meta, conn>>

(* orderAppsOnDevice: the same with the reconnection suppressed, when the  *)
(* device of k runs another app too.                                       *)
VetSuppress(c) ==
  LET k == key[c]
  IN
  /\ pc[c] = "vet"
  /\ \E k2 \in Keys \ {k} : DeviceOf[k2] = DeviceOf[k]
  /\ Return(c)
  /\ suppressed' = suppressed \cup {k}
  /\ timer' = [timer EXCEPT ![k] = Cancelled(timer[k])]
  /\ ws' = Closed(ws, {old[c]})
  /\ connectedApps' = [connectedApps EXCEPT ![k] = NoCall]
  /\ UNCHANGED <<locks, displaced, meta, conn>>

-----------------------------------------------------------------------------
Resume(c) ==
  \/ PingOk(c) \/ PingFail(c)
  \/ DialOk(c) \/ DialFail(c)
  \/ ProbeOk(c) \/ ProbeFail(c)
  \/ ScanMetroDown(c) \/ ScanNoDevice(c) \/ ScanFound(c)
  \/ VetOk(c) \/ VetFail(c) \/ VetSuppress(c)

Tool ==
  \/ \E c \in Calls, k \in Keys : UserConnect(c, k) \/ BeginVet(c, k)
  \/ \E k \in Keys : Release(k) \/ SweepStale(k)
  \/ ClearSuppression \/ DisconnectAll \/ ForceRefresh

Next ==
  \/ \E c \in Calls : Resume(c) \/ CloseEvent(c) \/ Drop(c)
  \/ \E c \in Calls, k \in Keys : FireTimer(c, k)
  \/ Tool

Spec == Init /\ [][Next]_vars

(* Every await is bounded by a timeout of its own, every closing socket    *)
(* emits its close event, and armed timers fire.                           *)
Fairness ==
  /\ \A c \in Calls : WF_vars(Resume(c)) /\ WF_vars(CloseEvent(c))
  /\ \A k \in Keys : WF_vars(\E c \in Calls : FireTimer(c, k))

FairSpec == Spec /\ Fairness

-----------------------------------------------------------------------------
(* What the connection manager promises.                                   *)

(* A held lock always has a call that will release it: connectToDevice     *)
(* releases connectionLocks on every way out, so no key is left answering  *)
(* "Connection already in progress" for good.                              *)
LockHasOwner ==
  \A k \in locks : \E c \in Calls : pc[c] \in {"dial", "probe"} /\ key[c] = k

(* A registered socket was connected for that very key, and its close      *)
(* event is still to come with the handler attached: no close is ever      *)
(* swallowed while the entry stays in connectedApps.                       *)
RegisteredWillClose ==
  \A k \in Keys : Registered(k) =>
    LET c == connectedApps[k]
    IN  key[c] = k /\ pc[c] = "done" /\ ws[c] # "none"

(* Nothing is left behind: not a lock without the call that releases it,   *)
(* not a registered socket whose close nobody will handle.                 *)
NothingStranded == LockHasOwner /\ RegisteredWillClose

(* A call past its start works on a key.                                   *)
HasKey == \A c \in Calls : pc[c] \notin {"free", "left"} => key[c] \in Keys

(* Only a call in its probe, or one that has returned a connection, has a  *)
(* socket: a call that may start again left none behind.                   *)
SocketHasCall == \A c \in Calls : ws[c] # "none" => pc[c] \in {"probe", "done"}

(* A key without connection state has no gap.                              *)
GapNeedsState == \A k \in Keys : ~HasState(conn[k]) => conn[k].gap = "none"

(* While a key is registered its last connection gap is closed, so reads   *)
(* do not warn of a disconnect that is over (getRecentGaps).               *)
RegisteredGapClosed ==
  \A k \in Keys : Registered(k) => conn[k].gap # "open"

(* The inductive invariant.                                                *)
IInv ==
  /\ TypeOK /\ HasKey /\ SocketHasCall
  /\ LockHasOwner /\ RegisteredWillClose /\ GapNeedsState /\ RegisteredGapClosed

(* The close event of one socket never takes another socket out of the     *)
(* registry, whatever was connected under the same key meanwhile.          *)
CloseSparesReplacement ==
  [][\A c \in Calls, k \in Keys :
       CloseEvent(c) /\ connectedApps[k] # c => connectedApps'[k] = connectedApps[k]]_vars

(* Every call a tool makes is answered, whatever closes or hangs under it. *)
(* An attempt of the reconnection loop stops waiting for the network too,  *)
(* but after a failed handshake it is left pending instead of answered     *)
(* (by LockHasOwner without the lock of its key).                          *)
CallsReturn ==
  \A c \in Calls :
    /\ pc[c] \in Waiting /\ ~recon[c] ~> pc[c] \in {"free", "done"}
    /\ pc[c] \in Waiting ~> pc[c] \notin Waiting

(* A registered socket that drops is out of the registry in the end.       *)
DeadEntryLeaves ==
  \A k \in Keys, c \in Calls :
    connectedApps[k] = c /\ ws[c] # "open" ~> connectedApps[k] # c \/ ws[c] = "open"

=============================================================================
