-------------------------- MODULE Connection_proof --------------------------
(***************************************************************************)
(* Invariants of Connection for every set of keys, every set of calls and  *)
(* every bound.  The inductive invariant is the conjunction of the type    *)
(* invariant, lock ownership and the registry invariant: that a step of    *)
(* one call leaves the entry of another alone follows from the registry    *)
(* naming only sockets whose call is done and whose key is the entry's.    *)
(***************************************************************************)
EXTENDS Connection, TLAPS

(* scheduleReconnection keeps a connection state a connection state: the   *)
(* attempt counter never passes maxAttempts.                               *)
LEMMA RescheduledType ==
  ASSUME NEW s \in ConnStates
  PROVE  /\ Rescheduled(s) \in ConnStates
         /\ Rescheduled(s).gap = s.gap
         /\ HasState(Rescheduled(s)) <=> HasState(s)
<1>0. /\ s.attempts \in Nat /\ s.attempts <= MaxAttempts
      /\ s.gap \in {"none", "open", "closed"}
      /\ s = [status |-> s.status, attempts |-> s.attempts, gap |-> s.gap]
  BY BoundsAssumption DEF ConnStates
<1>1. CASE ~HasState(s)
  BY <1>1 DEF Rescheduled
<1>2. CASE HasState(s) /\ s.attempts < MaxAttempts
  <2>1. Rescheduled(s) = [status |-> "reconnecting", attempts |-> s.attempts + 1, gap |-> s.gap]
    BY <1>0, <1>2 DEF Rescheduled
  <2>2. s.attempts + 1 \in 0..MaxAttempts
    BY <1>0, <1>2, BoundsAssumption
  <2> QED
    BY <1>0, <1>2, <2>1, <2>2 DEF ConnStates, HasState
<1>3. CASE HasState(s) /\ ~(s.attempts < MaxAttempts)
  <2>1. Rescheduled(s) = [status |-> "disconnected", attempts |-> s.attempts, gap |-> s.gap]
    BY <1>0, <1>3 DEF Rescheduled
  <2> QED
    BY <1>0, <1>3, <2>1, BoundsAssumption DEF ConnStates, HasState
<1> QED
  BY <1>1, <1>2, <1>3

(* saveReconnectionTimer and cancelReconnectionTimer keep a timer a timer. *)
LEMMA RearmedType ==
  ASSUME NEW t \in Timers, NEW s \in ConnStates
  PROVE  Rearmed(t, s) \in Timers /\ Cancelled(t) \in Timers
  BY BoundsAssumption DEF Rearmed, Cancelled, Timers

(* A close event leaves a connection state, before and after a retry is    *)
(* scheduled.                                                              *)
LEMMA AfterCloseType ==
  ASSUME NEW s \in ConnStates, NEW stable \in BOOLEAN
  PROVE  AfterClose(s, stable) \in ConnStates
  BY BoundsAssumption DEF AfterClose, ConnStates, HasState

LEMMA StateConstants == NoState \in ConnStates /\ FreshState \in ConnStates
  BY BoundsAssumption DEF NoState, FreshState, ConnStates

(* A reconnection leaves a state whose last gap is closed.                 *)
LEMMA ReconnectedType ==
  ASSUME NEW s \in ConnStates
  PROVE  Reconnected(s) \in ConnStates /\ (HasState(s) => Reconnected(s).gap # "open")
  BY DEF Reconnected, ConnStates, HasState

(* ws.close() only turns OPEN sockets into closing ones.                   *)
LEMMA ClosedType ==
  ASSUME NEW sockets \in [Calls -> Sockets], NEW C
  PROVE  /\ Closed(sockets, C) \in [Calls -> Sockets]
         /\ \A c \in Calls : Closed(sockets, C)[c] = "none" <=> sockets[c] = "none"
  BY DEF Closed, Sockets

(***************************************************************************)
(* Type correctness                                                        *)
(***************************************************************************)

(* What Enter may change.                                                  *)
EnterTypeOK ==
  /\ pc \in [Calls -> Places] /\ key \in [Calls -> Keys \cup {NoKey}]
  /\ recon \in [Calls -> BOOLEAN] /\ old \in [Calls -> Calls \cup {NoCall}]
  /\ ws \in [Calls -> Sockets]
  /\ connectedApps \in [Keys -> Calls \cup {NoCall}]
  /\ locks \subseteq Keys /\ meta \subseteq Keys
  /\ timer \in [Keys -> Timers]

(* The part of connectToDevice from its entry to the handshake, wherever   *)
(* it is called from, keeps the types.                                     *)
LEMMA EnterType ==
  ASSUME TypeOK, NEW c \in Calls, NEW k \in Keys, NEW r \in BOOLEAN,
         NEW apps \in [Keys -> Calls \cup {NoCall}],
         NEW sockets \in [Calls -> Sockets],
         Enter(c, k, r, apps, sockets)
  PROVE  EnterTypeOK'
<1>1. ws' \in [Calls -> Sockets] /\ connectedApps' \in [Keys -> Calls \cup {NoCall}]
  BY DEF Enter
<1>2. CASE OnOtherPort(k, apps, sockets) \/ k \in locks
  BY <1>1, <1>2 DEF Enter, Return, MoveTo, TypeOK, EnterTypeOK, Places, Waiting
<1>3. CASE ~(OnOtherPort(k, apps, sockets) \/ k \in locks)
  <2>1. Cancelled(timer[k]) \in Timers
    BY RearmedType, StateConstants DEF TypeOK
  <2> QED
    BY <1>1, <1>3, <2>1 DEF Enter, MoveTo, TypeOK, EnterTypeOK, Places, Waiting
<1> QED
  BY <1>2, <1>3

LEMMA BeginConnectType ==
  ASSUME TypeOK, NEW c \in Calls, NEW k \in Keys, NEW r \in BOOLEAN,
         BeginConnect(c, k, r)
  PROVE  TypeOK'
<1>1. CASE IsOpen(connectedApps[k])
  BY <1>1 DEF BeginConnect, MoveTo, TypeOK, Places, Waiting, flagVars
<1>2. CASE ~IsOpen(connectedApps[k])
  <2>1. Enter(c, k, r, [connectedApps EXCEPT ![k] = NoCall], ws)
    BY <1>2 DEF BeginConnect
  <2>2. /\ [connectedApps EXCEPT ![k] = NoCall] \in [Keys -> Calls \cup {NoCall}]
        /\ ws \in [Calls -> Sockets]
    BY DEF TypeOK
  <2>3. EnterTypeOK'
    BY <2>1, <2>2, EnterType
  <2>4. UNCHANGED <<conn, suppressed, displaced>>
    BY DEF BeginConnect, flagVars
  <2> QED
    BY <2>3, <2>4 DEF TypeOK, EnterTypeOK
<1> QED
  BY <1>1, <1>2

LEMMA ScheduleType ==
  ASSUME TypeOK, NEW k \in Keys, Schedule(k)
  PROVE  conn' \in [Keys -> ConnStates] /\ timer' \in [Keys -> Timers]
<1>1. Rescheduled(conn[k]) \in ConnStates /\ Rearmed(timer[k], conn[k]) \in Timers
  BY RescheduledType, RearmedType DEF TypeOK
<1> QED
  BY <1>1 DEF Schedule, TypeOK

LEMMA ResumeType ==
  ASSUME TypeOK, HasKey, NEW c \in Calls, Resume(c)
  PROVE  TypeOK'
<1> DEFINE k == key[c]
<1>0. k \in Keys
  <2>1. pc[c] \notin {"free", "left"}
    BY DEF Resume, PingOk, PingFail, DialOk, DialFail, ProbeOk, ProbeFail, ProbeEnds,
           ScanMetroDown, ScanNoDevice, ScanFound, VetOk, VetFail, VetSuppress
  <2> QED
    BY <2>1 DEF HasKey
<1>t. Cancelled(timer[k]) \in Timers
  BY <1>0, RearmedType, StateConstants DEF TypeOK
<1>c. Closed(ws, {old[c]}) \in [Calls -> Sockets]
  BY ClosedType DEF TypeOK
<1>a. [connectedApps EXCEPT ![k] = NoCall] \in [Keys -> Calls \cup {NoCall}]
  BY DEF TypeOK
<1>1. CASE PingOk(c)
  BY <1>1 DEF PingOk, Return, MoveTo, TypeOK, Places, Waiting, flagVars, loopVars
<1>2. CASE PingFail(c)
  <2>1. Enter(c, k, recon[c], [connectedApps EXCEPT ![k] = NoCall], Closed(ws, {old[c]}))
    BY <1>2 DEF PingFail
  <2>2. recon[c] \in BOOLEAN
    BY DEF TypeOK
  <2>3. displaced' = displaced /\ conn' = conn /\ suppressed' \subseteq Keys
    BY <1>0, <1>2 DEF PingFail, TypeOK
  <2>4. EnterTypeOK'
    BY <1>0, <1>a, <1>c, <2>1, <2>2, EnterType
  <2> QED
    BY <2>3, <2>4 DEF TypeOK, EnterTypeOK
<1>3. CASE DialOk(c)
  BY <1>3 DEF DialOk, TypeOK, Places, Waiting, Sockets, flagVars, loopVars
<1>4. CASE DialFail(c)
  BY <1>0, <1>4, <1>t DEF DialFail, DialRejected, Return, MoveTo, Released, TypeOK, Places, Waiting, flagVars
<1>5. CASE ProbeOk(c)
  <2>1. Reconnected(conn[k]) \in ConnStates /\ FreshState \in ConnStates
    BY <1>0, ReconnectedType, StateConstants DEF TypeOK
  <2>2. conn' \in [Keys -> ConnStates]
    BY <1>5, <2>1 DEF ProbeOk, TypeOK
  <2> QED
    BY <1>0, <1>5, <2>2 DEF ProbeOk, Released, TypeOK, Places, Waiting
<1>6. CASE ProbeFail(c)
  <2>1. conn' \in [Keys -> ConnStates] /\ timer' \in [Keys -> Timers]
    BY <1>0, <1>6, ScheduleType DEF ProbeFail, TypeOK
  <2>2. meta' \subseteq Keys
    BY <1>6 DEF ProbeFail, TypeOK
  <2> QED
    BY <1>0, <1>6, <2>1, <2>2 DEF ProbeFail, Return, MoveTo, Released, TypeOK, Places, Waiting, Sockets, flagVars
<1>7. CASE ScanMetroDown(c)
  <2>1. conn' \in [Keys -> ConnStates]
    <3>1. [conn[k] EXCEPT !.status = "disconnected"] \in ConnStates
      BY <1>0 DEF TypeOK, ConnStates
    <3> QED
      BY <1>0, <1>7, <3>1 DEF ScanMetroDown, TypeOK
  <2> QED
    BY <1>7, <2>1 DEF ScanMetroDown, Return, MoveTo, TypeOK, Places, Waiting, flagVars
<1>8. CASE ScanNoDevice(c)
  <2>1. conn' \in [Keys -> ConnStates] /\ timer' \in [Keys -> Timers] /\ meta' \subseteq Keys
    BY <1>0, <1>8, ScheduleType, StateConstants DEF ScanNoDevice, TypeOK
  <2> QED
    BY <1>8, <2>1 DEF ScanNoDevice, Return, MoveTo, TypeOK, Places, Waiting, flagVars
<1>9. CASE ScanFound(c)
  BY <1>9, BeginConnectType DEF ScanFound
<1>10. CASE VetOk(c)
  BY <1>10 DEF VetOk, Return, MoveTo, TypeOK, Places, Waiting, flagVars, loopVars
<1>11. CASE VetFail(c)
  BY <1>11, <1>t, <1>c, <1>a DEF VetFail, Return, MoveTo, TypeOK, Places, Waiting, flagVars
<1>12. CASE VetSuppress(c)
  BY <1>0, <1>12, <1>t, <1>c, <1>a DEF VetSuppress, Return, MoveTo, TypeOK, Places, Waiting
<1> QED
  BY <1>1, <1>2, <1>3, <1>4, <1>5, <1>6, <1>7, <1>8, <1>9, <1>10, <1>11, <1>12 DEF Resume

(* The rest of handleClose: the state it leaves, and every timer.          *)
LEMMA HandleCloseType ==
  ASSUME TypeOK, NEW c \in Calls, key[c] \in Keys, NEW stable \in BOOLEAN,
         HandleClose(c, stable)
  PROVE  /\ connectedApps' \in [Keys -> Calls \cup {NoCall}] /\ locks' \subseteq Keys
         /\ suppressed' \subseteq Keys /\ displaced' \subseteq Keys /\ meta' \subseteq Keys
         /\ conn' \in [Keys -> ConnStates] /\ timer' \in [Keys -> Timers]
<1> DEFINE k == key[c]
           s == AfterClose(conn[k], stable)
           r == IF HasState(s) THEN s ELSE FreshState
<1>1. s \in ConnStates /\ r \in ConnStates
  BY AfterCloseType, StateConstants DEF TypeOK
<1>2. Rescheduled(r) \in ConnStates /\ Rearmed(timer[k], r) \in Timers
  BY <1>1, RescheduledType, RearmedType DEF TypeOK
<1>3. connectedApps' \in [Keys -> Calls \cup {NoCall}] /\ locks' \subseteq Keys /\ meta' \subseteq Keys
  BY DEF HandleClose, Released, TypeOK
<1> HIDE DEF s, r
<1>4. \/ /\ suppressed' = suppressed \ {k} /\ conn' = [conn EXCEPT ![k] = s]
         /\ UNCHANGED <<displaced, timer>>
      \/ /\ displaced' = displaced \cup {k} /\ conn' = [conn EXCEPT ![k] = s]
         /\ UNCHANGED <<suppressed, timer>>
      \/ /\ conn' = [conn EXCEPT ![k] = Rescheduled(r)]
         /\ timer' = [timer EXCEPT ![k] = Rearmed(timer[k], r)]
         /\ UNCHANGED <<suppressed, displaced>>
  BY DEF HandleClose, flagVars, s, r
<1> QED
  BY <1>1, <1>2, <1>3, <1>4 DEF TypeOK

LEMMA ToolType ==
  ASSUME TypeOK, Tool
  PROVE  TypeOK'
<1>t. \A k \in Keys : Cancelled(timer[k]) \in Timers
  BY RearmedType, StateConstants DEF TypeOK
<1>c. \A C : Closed(ws, C) \in [Calls -> Sockets]
  BY ClosedType DEF TypeOK
<1>1. ASSUME NEW c \in Calls, NEW k \in Keys, UserConnect(c, k)
      PROVE  TypeOK'
  BY <1>1, BeginConnectType DEF UserConnect
<1>2. ASSUME NEW c \in Calls, NEW k \in Keys, BeginVet(c, k)
      PROVE  TypeOK'
  BY <1>2 DEF BeginVet, MoveTo, TypeOK, Places, Waiting, flagVars, loopVars
<1>3. ASSUME NEW k \in Keys, Release(k)
      PROVE  TypeOK'
  BY <1>3, <1>t, <1>c DEF Release, TypeOK
<1>4. ASSUME NEW k \in Keys, SweepStale(k)
      PROVE  TypeOK'
  BY <1>4 DEF SweepStale, TypeOK, procVars, flagVars, loopVars
<1>5. CASE ClearSuppression
  BY <1>5 DEF ClearSuppression, TypeOK, procVars, loopVars
<1>6. CASE DisconnectAll
  <2>1. /\ timer' \in [Keys -> Timers] /\ ws' \in [Calls -> Sockets]
        /\ conn' \in [Keys -> ConnStates]
    BY <1>6, <1>t, <1>c, StateConstants DEF DisconnectAll
  <2> QED
    BY <1>6, <2>1 DEF DisconnectAll, TypeOK
<1>7. CASE ForceRefresh
  <2>1. timer' \in [Keys -> Timers] /\ ws' \in [Calls -> Sockets]
    BY <1>7, <1>t, <1>c DEF ForceRefresh, TypeOK
  <2> QED
    BY <1>7, <2>1 DEF ForceRefresh, TypeOK, flagVars
<1> QED
  BY <1>1, <1>2, <1>3, <1>4, <1>5, <1>6, <1>7 DEF Tool

(* The types are kept by every step: a call that is resumed, or whose      *)
(* socket closes, works on a key.                                          *)
LEMMA TypeInductive == TypeOK /\ HasKey /\ SocketHasCall /\ [Next]_vars => TypeOK'
<1> SUFFICES ASSUME TypeOK, HasKey, SocketHasCall, [Next]_vars
             PROVE  TypeOK'
  OBVIOUS
<1>1. ASSUME NEW c \in Calls, Resume(c)
      PROVE  TypeOK'
  BY <1>1, ResumeType
<1>2. ASSUME NEW c \in Calls, CloseEvent(c)
      PROVE  TypeOK'
  <2>0. key[c] \in Keys
    BY <1>2 DEF CloseEvent, SocketHasCall, HasKey
  <2>1. /\ pc' \in [Calls -> Places] /\ key' \in [Calls -> Keys \cup {NoKey}]
        /\ recon' \in [Calls -> BOOLEAN] /\ old' \in [Calls -> Calls \cup {NoCall}]
        /\ ws' \in [Calls -> Sockets]
    BY <1>2 DEF CloseEvent, Return, MoveTo, TypeOK, Places, Waiting, Sockets
  <2>2. CASE Superseded(c)
    BY <1>2, <2>1, <2>2 DEF CloseEvent, TypeOK, flagVars, loopVars
  <2>3. CASE ~Superseded(c)
    <3>1. PICK stable \in BOOLEAN : HandleClose(c, stable)
      BY <1>2, <2>3 DEF CloseEvent
    <3> QED
      BY <2>0, <2>1, <3>1, HandleCloseType DEF TypeOK
  <2> QED
    BY <2>2, <2>3
<1>3. ASSUME NEW c \in Calls, Drop(c)
      PROVE  TypeOK'
  BY <1>3 DEF Drop, TypeOK, Sockets, flagVars, loopVars
<1>4. ASSUME NEW c \in Calls, NEW k \in Keys, FireTimer(c, k)
      PROVE  TypeOK'
  <2>0. timer \in [Keys -> Timers] /\ timer[k] \in Timers
    BY DEF TypeOK
  <2>1. timer' \in [Keys -> Timers]
    <3>1. CASE timer[k].map = "armed" /\ timer' = [timer EXCEPT ![k].map = "fired"]
      BY <2>0, <3>1 DEF Timers
    <3>2. CASE /\ timer[k].stray > 0
               /\ timer' = [timer EXCEPT ![k].stray = timer[k].stray - 1]
      <4>1. timer[k].stray - 1 \in 0..MaxStray
        BY <2>0, <3>2, BoundsAssumption DEF Timers
      <4> QED
        BY <2>0, <3>2, <4>1 DEF Timers
    <3> QED
      BY <1>4, <3>1, <3>2 DEF FireTimer
  <2>2. UNCHANGED <<ws, connectedApps, locks, suppressed, displaced, meta, conn>>
    BY <1>4 DEF FireTimer, flagVars
  <2>3. \/ MoveTo(c, "scan", k, TRUE, NoCall)
        \/ UNCHANGED <<pc, key, recon, old>>
    BY <1>4 DEF FireTimer
  <2>4. /\ pc' \in [Calls -> Places] /\ key' \in [Calls -> Keys \cup {NoKey}]
        /\ recon' \in [Calls -> BOOLEAN] /\ old' \in [Calls -> Calls \cup {NoCall}]
    BY <2>3 DEF MoveTo, TypeOK, Places, Waiting
  <2> QED
    BY <2>1, <2>2, <2>4 DEF TypeOK
<1>5. CASE Tool
  BY <1>5, ToolType
<1>6. CASE UNCHANGED vars
  BY <1>6 DEF TypeOK, vars, procVars, flagVars, loopVars
<1> QED
  BY <1>1, <1>2, <1>3, <1>4, <1>5, <1>6 DEF Next

(***************************************************************************)
(* Locks and the registry                                                  *)
(***************************************************************************)

(* Who owns what: these four rest on each other.                           *)
OwnerInv == HasKey /\ SocketHasCall /\ LockHasOwner /\ RegisteredWillClose

ownerVars == <<pc, key, ws, connectedApps, locks>>

LEMMA OwnerStutter ==
  ASSUME OwnerInv, UNCHANGED ownerVars
  PROVE  OwnerInv'
  BY DEF OwnerInv, ownerVars, HasKey, SocketHasCall, LockHasOwner,
         RegisteredWillClose, Registered

(* A call that is not past the lock returns; sockets may have been closed  *)
(* and entries dropped.                                                    *)
LEMMA OwnerReturn ==
  ASSUME TypeOK, OwnerInv, NEW c \in Calls,
         pc[c] \in {"free", "left", "scan", "vet", "ping"}, Return(c), UNCHANGED locks,
         \A d \in Calls : ws'[d] = "none" <=> ws[d] = "none",
         \A k \in Keys : connectedApps'[k] \in {connectedApps[k], NoCall}
  PROVE  OwnerInv'
<1>1. \A d \in Calls : d # c => pc'[d] = pc[d] /\ key'[d] = key[d]
  BY DEF Return, MoveTo, TypeOK
<1>2. pc'[c] = "free"
  BY DEF Return, MoveTo, TypeOK
<1>3. HasKey' /\ SocketHasCall' /\ LockHasOwner'
  BY <1>1, <1>2 DEF OwnerInv, HasKey, SocketHasCall, LockHasOwner
<1>4. RegisteredWillClose'
  BY <1>1, <1>2 DEF OwnerInv, RegisteredWillClose, Registered, TypeOK
<1> QED
  BY <1>3, <1>4 DEF OwnerInv

(* A call that is not past the lock moves to another place before it.      *)
LEMMA OwnerMove ==
  ASSUME TypeOK, OwnerInv, NEW c \in Calls, NEW k \in Keys,
         pc[c] \in {"free", "left", "scan", "vet", "ping"},
         NEW place \in {"scan", "vet", "ping"},
         pc' = [pc EXCEPT ![c] = place], key' = [key EXCEPT ![c] = k],
         UNCHANGED <<ws, connectedApps, locks>>
  PROVE  OwnerInv'
<1>1. \A d \in Calls : d # c => pc'[d] = pc[d] /\ key'[d] = key[d]
  BY DEF TypeOK
<1>2. pc'[c] = place /\ key'[c] = k
  BY DEF TypeOK
<1>3. HasKey' /\ SocketHasCall' /\ LockHasOwner'
  BY <1>1, <1>2 DEF OwnerInv, HasKey, SocketHasCall, LockHasOwner
<1>4. RegisteredWillClose'
  BY <1>1, <1>2 DEF OwnerInv, RegisteredWillClose, Registered, TypeOK
<1> QED
  BY <1>3, <1>4 DEF OwnerInv

(* Entering the locked part: the lock is taken by a call that will release *)
(* it, or the call goes away.                                              *)
LEMMA OwnerEnter ==
  ASSUME TypeOK, OwnerInv, NEW c \in Calls, NEW k \in Keys, NEW r \in BOOLEAN, NEW sockets,
         pc[c] \in {"free", "left", "scan", "vet", "ping"},
         \A d \in Calls : sockets[d] = "none" <=> ws[d] = "none",
         Enter(c, k, r, [connectedApps EXCEPT ![k] = NoCall], sockets)
  PROVE  OwnerInv'
<1> DEFINE apps == [connectedApps EXCEPT ![k] = NoCall]
<1>0. /\ \A d \in Calls : ws'[d] = "none" <=> ws[d] = "none"
      /\ \A k2 \in Keys : connectedApps'[k2] \in {connectedApps[k2], NoCall}
  BY DEF Enter, TypeOK
<1>1. CASE OnOtherPort(k, apps, sockets) \/ k \in locks
  <2>1. Return(c) /\ UNCHANGED locks
    BY <1>1 DEF Enter
  <2> QED
    BY <1>0, <2>1, OwnerReturn
<1>2. CASE ~(OnOtherPort(k, apps, sockets) \/ k \in locks)
  <2>1. MoveTo(c, "dial", k, r, NoCall) /\ locks' = locks \cup {k}
    BY <1>2 DEF Enter
  <2>2. \A d \in Calls : d # c => pc'[d] = pc[d] /\ key'[d] = key[d]
    BY <2>1 DEF MoveTo, TypeOK
  <2>3. pc'[c] = "dial" /\ key'[c] = k
    BY <2>1 DEF MoveTo, TypeOK
  <2>4. HasKey' /\ SocketHasCall'
    BY <1>0, <2>2, <2>3 DEF OwnerInv, HasKey, SocketHasCall
  <2>5. LockHasOwner'
    BY <2>1, <2>2, <2>3 DEF OwnerInv, LockHasOwner
  <2>6. RegisteredWillClose'
    BY <1>0, <2>2, <2>3 DEF OwnerInv, RegisteredWillClose, Registered, TypeOK
  <2> QED
    BY <2>4, <2>5, <2>6 DEF OwnerInv
<1> QED
  BY <1>1, <1>2

LEMMA OwnerBegin ==
  ASSUME TypeOK, OwnerInv, NEW c \in Calls, NEW k \in Keys, NEW r \in BOOLEAN,
         pc[c] \in {"free", "left", "scan"}, BeginConnect(c, k, r)
  PROVE  OwnerInv'
<1>1. CASE IsOpen(connectedApps[k])
  BY <1>1, OwnerMove DEF BeginConnect, MoveTo
<1>2. CASE ~IsOpen(connectedApps[k])
  BY <1>2, OwnerEnter DEF BeginConnect
<1> QED
  BY <1>1, <1>2

(* A call that leaves the locked part without a socket, answered or not,   *)
(* its lock released and perhaps its entry dropped.                        *)
LEMMA OwnerLeave ==
  ASSUME TypeOK, OwnerInv, NEW c \in Calls, pc[c] \in {"dial", "probe"},
         NEW place \in {"free", "left"}, MoveTo(c, place, NoKey, FALSE, NoCall),
         locks' = locks \ {key[c]}, ws'[c] = "none",
         \A d \in Calls : d # c => ws'[d] = ws[d],
         \A k \in Keys : connectedApps'[k] \in {connectedApps[k], NoCall}
  PROVE  OwnerInv'
<1>1. \A d \in Calls : d # c => pc'[d] = pc[d] /\ key'[d] = key[d]
  BY DEF MoveTo, TypeOK
<1>2. pc'[c] = place
  BY DEF MoveTo, TypeOK
<1>3. HasKey' /\ SocketHasCall'
  BY <1>1, <1>2 DEF OwnerInv, HasKey, SocketHasCall
<1>4. LockHasOwner'
  BY <1>1 DEF OwnerInv, LockHasOwner
<1>5. RegisteredWillClose'
  BY <1>1, <1>2 DEF OwnerInv, RegisteredWillClose, Registered, TypeOK
<1> QED
  BY <1>3, <1>4, <1>5 DEF OwnerInv

LEMMA OwnerResume ==
  ASSUME TypeOK, OwnerInv, NEW c \in Calls, Resume(c)
  PROVE  OwnerInv'
<1> DEFINE k == key[c]
<1>c. \A C : \A d \in Calls : Closed(ws, C)[d] = "none" <=> ws[d] = "none"
  BY ClosedType DEF TypeOK
<1>0. k \in Keys
  <2>1. pc[c] \notin {"free", "left"}
    BY DEF Resume, PingOk, PingFail, DialOk, DialFail, ProbeOk, ProbeFail, ProbeEnds,
           ScanMetroDown, ScanNoDevice, ScanFound, VetOk, VetFail, VetSuppress
  <2> QED
    BY <2>1 DEF OwnerInv, HasKey
<1>1. CASE PingOk(c) \/ ScanMetroDown(c) \/ ScanNoDevice(c) \/ VetOk(c)
  <2>1. /\ Return(c) /\ UNCHANGED <<ws, connectedApps, locks>>
        /\ pc[c] \in {"ping", "scan", "vet"}
    BY <1>1 DEF PingOk, ScanMetroDown, ScanNoDevice, VetOk
  <2> QED
    BY <2>1, OwnerReturn
<1>2. CASE VetFail(c) \/ VetSuppress(c)
  <2>1. /\ Return(c) /\ locks' = locks /\ pc[c] = "vet"
        /\ ws' = Closed(ws, {old[c]})
        /\ connectedApps' = [connectedApps EXCEPT ![k] = NoCall]
    BY <1>2 DEF VetFail, VetSuppress
  <2>2. /\ \A d \in Calls : ws'[d] = "none" <=> ws[d] = "none"
        /\ \A k2 \in Keys : connectedApps'[k2] \in {connectedApps[k2], NoCall}
    BY <1>c, <2>1 DEF TypeOK
  <2> QED
    BY <2>1, <2>2, OwnerReturn
<1>3. CASE PingFail(c)
  <2>1. /\ Enter(c, k, recon[c], [connectedApps EXCEPT ![k] = NoCall], Closed(ws, {old[c]}))
        /\ pc[c] = "ping"
    BY <1>3 DEF PingFail
  <2>2. \A d \in Calls : Closed(ws, {old[c]})[d] = "none" <=> ws[d] = "none"
    BY <1>c
  <2>3. pc[c] \in {"free", "left", "scan", "vet", "ping"} /\ recon[c] \in BOOLEAN
    BY <2>1 DEF TypeOK
  <2> QED
    BY <1>0, <2>1, <2>2, <2>3, OwnerEnter
<1>4. CASE ScanFound(c)
  <2>1. PICK k2 \in Keys : BeginConnect(c, k2, TRUE)
    BY <1>4 DEF ScanFound
  <2>2. pc[c] \in {"free", "left", "scan"}
    BY <1>4 DEF ScanFound
  <2> QED
    BY <2>1, <2>2, OwnerBegin
<1>5. CASE DialOk(c)
  <2>1. /\ pc[c] = "dial" /\ pc' = [pc EXCEPT ![c] = "probe"]
        /\ ws' = [ws EXCEPT ![c] = "open"]
        /\ UNCHANGED <<key, connectedApps, locks>>
    BY <1>5 DEF DialOk
  <2>2. HasKey' /\ SocketHasCall' /\ LockHasOwner'
    BY <1>0, <2>1 DEF OwnerInv, HasKey, SocketHasCall, LockHasOwner, TypeOK
  <2>3. RegisteredWillClose'
    BY <2>1 DEF OwnerInv, RegisteredWillClose, Registered, TypeOK
  <2> QED
    BY <2>2, <2>3 DEF OwnerInv
<1>6. CASE DialFail(c)
  <2>1. /\ pc[c] = "dial" /\ locks' = locks \ {k} /\ ws' = ws
        /\ connectedApps' = [connectedApps EXCEPT ![k] = NoCall]
    BY <1>6 DEF DialFail, Released
  <2>0. PICK place \in {"free", "left"} : MoveTo(c, place, NoKey, FALSE, NoCall)
    BY <1>6 DEF DialFail, DialRejected, Return
  <2>2. /\ ws'[c] = "none"
        /\ \A k2 \in Keys : connectedApps'[k2] \in {connectedApps[k2], NoCall}
    BY <2>1 DEF OwnerInv, SocketHasCall, TypeOK
  <2> QED
    BY <2>0, <2>1, <2>2, OwnerLeave
<1>7. CASE ProbeFail(c)
  <2>1. /\ pc[c] = "probe" /\ MoveTo(c, "free", NoKey, FALSE, NoCall)
        /\ locks' = locks \ {k}
        /\ ws' = [ws EXCEPT ![c] = "none"] /\ connectedApps' = connectedApps
    BY <1>7 DEF ProbeFail, ProbeEnds, Released, Return
  <2>2. ws'[c] = "none" /\ \A d \in Calls : d # c => ws'[d] = ws[d]
    BY <2>1 DEF TypeOK
  <2> QED
    BY <2>1, <2>2, OwnerLeave
<1>8. CASE ProbeOk(c)
  <2>1. /\ pc[c] = "probe" /\ ws[c] = "open" /\ pc' = [pc EXCEPT ![c] = "done"]
        /\ locks' = locks \ {k} /\ connectedApps' = [connectedApps EXCEPT ![k] = c]
        /\ UNCHANGED <<key, ws>>
    BY <1>8 DEF ProbeOk, Released
  <2>2. HasKey' /\ SocketHasCall'
    BY <1>0, <2>1 DEF OwnerInv, HasKey, SocketHasCall, TypeOK
  <2>3. LockHasOwner'
    BY <2>1 DEF OwnerInv, LockHasOwner, TypeOK
  <2>4. RegisteredWillClose'
    BY <1>0, <2>1 DEF OwnerInv, RegisteredWillClose, Registered, TypeOK
  <2> QED
    BY <2>2, <2>3, <2>4 DEF OwnerInv
<1> QED
  BY <1>1, <1>2, <1>3, <1>4, <1>5, <1>6, <1>7, <1>8 DEF Resume

(* The close event of a socket: a probing call keeps its place, one that   *)
(* is done gives its socket up together with its entry.                    *)
LEMMA OwnerClose ==
  ASSUME TypeOK, OwnerInv, NEW c \in Calls, CloseEvent(c)
  PROVE  OwnerInv'
<1> DEFINE k == key[c]
<1>0. k \in Keys /\ pc[c] \in {"probe", "done"}
  BY DEF CloseEvent, OwnerInv, HasKey, SocketHasCall
<1>1. ws'[c] = "none" /\ \A d \in Calls : d # c => ws'[d] = ws[d]
  BY DEF CloseEvent, TypeOK
<1>2. /\ \A d \in Calls : d # c => pc'[d] = pc[d] /\ key'[d] = key[d]
      /\ pc[c] = "probe" => pc'[c] = "probe" /\ key'[c] = k
      /\ pc[c] = "done" => pc'[c] = "free"
  BY DEF CloseEvent, Return, MoveTo, TypeOK
<1>3. \/ connectedApps' = connectedApps /\ locks' = locks /\ connectedApps[k] \notin {NoCall, c}
      \/ /\ connectedApps' = [connectedApps EXCEPT ![k] = NoCall]
         /\ locks' = locks \ {k}
  BY DEF CloseEvent, Superseded, HandleClose, Released
<1>4. HasKey' /\ SocketHasCall'
  BY <1>0, <1>1, <1>2 DEF OwnerInv, HasKey, SocketHasCall
<1>5. LockHasOwner'
  BY <1>0, <1>2, <1>3 DEF OwnerInv, LockHasOwner
<1>6. RegisteredWillClose'
  <2> SUFFICES ASSUME NEW k2 \in Keys, connectedApps'[k2] # NoCall
               PROVE  /\ key'[connectedApps'[k2]] = k2 /\ pc'[connectedApps'[k2]] = "done"
                      /\ ws'[connectedApps'[k2]] # "none"
    BY DEF RegisteredWillClose, Registered
  <2>1. connectedApps'[k2] = connectedApps[k2] /\ (k2 = k => connectedApps[k2] # c)
    BY <1>3 DEF TypeOK
  <2>2. /\ connectedApps[k2] \in Calls /\ key[connectedApps[k2]] = k2
        /\ pc[connectedApps[k2]] = "done" /\ ws[connectedApps[k2]] # "none"
    BY <2>1 DEF OwnerInv, RegisteredWillClose, Registered, TypeOK
  <2>3. connectedApps[k2] # c
    BY <2>1, <2>2
  <2> QED
    BY <1>1, <1>2, <2>1, <2>2, <2>3
<1> QED
  BY <1>4, <1>5, <1>6 DEF OwnerInv

LEMMA OwnerTool ==
  ASSUME TypeOK, OwnerInv, Tool
  PROVE  OwnerInv'
<1>c. \A C : \A d \in Calls : Closed(ws, C)[d] = "none" <=> ws[d] = "none"
  BY ClosedType DEF TypeOK
<1>1. ASSUME NEW c \in Calls, NEW k \in Keys, UserConnect(c, k)
      PROVE  OwnerInv'
  <2>1. pc[c] \in {"free", "left", "scan"} /\ BeginConnect(c, k, FALSE)
    BY <1>1 DEF UserConnect, Idle
  <2> QED
    BY <2>1, OwnerBegin
<1>2. ASSUME NEW c \in Calls, NEW k \in Keys, BeginVet(c, k)
      PROVE  OwnerInv'
  <2>1. /\ pc[c] \in {"free", "left", "scan", "vet", "ping"}
        /\ pc' = [pc EXCEPT ![c] = "vet"] /\ key' = [key EXCEPT ![c] = k]
        /\ UNCHANGED <<ws, connectedApps, locks>>
    BY <1>2 DEF BeginVet, MoveTo, Idle
  <2> QED
    BY <2>1, OwnerMove
<1>3. CASE ClearSuppression
  BY <1>3, OwnerStutter DEF ClearSuppression, ownerVars, procVars
<1>4. ASSUME UNCHANGED <<pc, key, locks>>,
             \A d \in Calls : ws'[d] = "none" <=> ws[d] = "none",
             \A k \in Keys : connectedApps'[k] \in {connectedApps[k], NoCall}
      PROVE  OwnerInv'
  BY <1>4 DEF OwnerInv, HasKey, SocketHasCall, LockHasOwner, RegisteredWillClose,
              Registered, TypeOK
<1>5. ASSUME NEW k \in Keys, Release(k)
      PROVE  OwnerInv'
  <2>1. /\ UNCHANGED <<pc, key, locks>> /\ ws' = Closed(ws, {connectedApps[k]})
        /\ \A k2 \in Keys : connectedApps'[k2] \in {connectedApps[k2], NoCall}
    BY <1>5 DEF Release, TypeOK
  <2> QED
    BY <1>c, <1>4, <2>1
<1>6. ASSUME NEW k \in Keys, SweepStale(k)
      PROVE  OwnerInv'
  <2>1. /\ UNCHANGED <<pc, key, locks, ws>>
        /\ \A k2 \in Keys : connectedApps'[k2] \in {connectedApps[k2], NoCall}
    BY <1>6 DEF SweepStale, TypeOK, procVars
  <2> QED
    BY <1>4, <2>1
<1>7. CASE DisconnectAll \/ ForceRefresh
  <2>1. PICK K : /\ UNCHANGED <<pc, key, locks>> /\ ws' = Closed(ws, Sockets2(K))
                 /\ connectedApps' = [k \in Keys |-> NoCall]
    BY <1>7 DEF DisconnectAll, ForceRefresh
  <2> QED
    BY <1>c, <1>4, <2>1
<1> QED
  BY <1>1, <1>2, <1>3, <1>5, <1>6, <1>7 DEF Tool

(* No step, of whichever call, leaves a lock without an owner or an entry  *)
(* whose socket will not report its close.                                 *)
LEMMA OwnerInductive == TypeOK /\ OwnerInv /\ [Next]_vars => OwnerInv'
<1> SUFFICES ASSUME TypeOK, OwnerInv, [Next]_vars
             PROVE  OwnerInv'
  OBVIOUS
<1>1. ASSUME NEW c \in Calls, Resume(c)
      PROVE  OwnerInv'
  BY <1>1, OwnerResume
<1>2. ASSUME NEW c \in Calls, CloseEvent(c)
      PROVE  OwnerInv'
  BY <1>2, OwnerClose
<1>3. ASSUME NEW c \in Calls, Drop(c)
      PROVE  OwnerInv'
  <2>1. /\ UNCHANGED <<pc, key, connectedApps, locks>>
        /\ \A d \in Calls : ws'[d] = "none" <=> ws[d] = "none"
    BY <1>3 DEF Drop, TypeOK
  <2> QED
    BY <2>1 DEF OwnerInv, HasKey, SocketHasCall, LockHasOwner, RegisteredWillClose,
                Registered, TypeOK
<1>4. ASSUME NEW c \in Calls, NEW k \in Keys, FireTimer(c, k)
      PROVE  OwnerInv'
  <2>1. UNCHANGED <<ws, connectedApps, locks>> /\ pc[c] \in {"free", "left", "scan", "vet", "ping"}
    BY <1>4 DEF FireTimer, Idle
  <2>2. CASE MoveTo(c, "scan", k, TRUE, NoCall)
    BY <2>1, <2>2, OwnerMove DEF MoveTo
  <2>3. CASE UNCHANGED <<pc, key>>
    BY <2>1, <2>3, OwnerStutter DEF ownerVars
  <2> QED
    BY <1>4, <2>2, <2>3 DEF FireTimer
<1>5. CASE Tool
  BY <1>5, OwnerTool
<1>6. CASE UNCHANGED vars
  BY <1>6, OwnerStutter DEF vars, procVars, ownerVars
<1> QED
  BY <1>1, <1>2, <1>3, <1>4, <1>5, <1>6 DEF Next

(***************************************************************************)
(* Connection gaps                                                         *)
(***************************************************************************)

GapInv == GapNeedsState /\ RegisteredGapClosed

(* Entries may go, gaps stay as they are.                                  *)
LEMMA GapKept ==
  ASSUME TypeOK, GapInv,
         \A k \in Keys : connectedApps'[k] \in {connectedApps[k], NoCall},
         \A k \in Keys : /\ conn'[k].gap = conn[k].gap
                         /\ (HasState(conn[k]) => HasState(conn'[k]))
  PROVE  GapInv'
<1>1. GapNeedsState'
  BY DEF GapInv, GapNeedsState
<1>2. RegisteredGapClosed'
  BY DEF GapInv, RegisteredGapClosed, Registered
<1> QED
  BY <1>1, <1>2 DEF GapInv

(* scheduleReconnection keeps every gap.                                   *)
LEMMA GapSchedule ==
  ASSUME TypeOK, GapInv, NEW k \in Keys, Schedule(k), UNCHANGED connectedApps
  PROVE  GapInv'
<1>1. /\ Rescheduled(conn[k]).gap = conn[k].gap
      /\ HasState(Rescheduled(conn[k])) <=> HasState(conn[k])
  BY RescheduledType DEF TypeOK
<1>2. \A k2 \in Keys : conn'[k2] = IF k2 = k THEN Rescheduled(conn[k]) ELSE conn[k2]
  BY DEF Schedule, TypeOK
<1>3. \A k2 \in Keys : /\ conn'[k2].gap = conn[k2].gap
                       /\ (HasState(conn[k2]) => HasState(conn'[k2]))
  BY <1>1, <1>2
<1> QED
  BY <1>3, GapKept

(* connectToDevice up to the handshake only drops entries.                 *)
LEMMA GapBegin ==
  ASSUME TypeOK, GapInv, NEW c \in Calls, NEW k \in Keys, NEW r \in BOOLEAN,
         BeginConnect(c, k, r)
  PROVE  GapInv'
<1>1. /\ conn' = conn
      /\ \A k2 \in Keys : connectedApps'[k2] \in {connectedApps[k2], NoCall}
  BY DEF BeginConnect, Enter, TypeOK
<1> QED
  BY <1>1, GapKept

LEMMA GapResume ==
  ASSUME TypeOK, OwnerInv, GapInv, NEW c \in Calls, Resume(c)
  PROVE  GapInv'
<1> DEFINE k == key[c]
<1>0. k \in Keys
  <2>1. pc[c] \notin {"free", "left"}
    BY DEF Resume, PingOk, PingFail, DialOk, DialFail, ProbeOk, ProbeFail, ProbeEnds,
           ScanMetroDown, ScanNoDevice, ScanFound, VetOk, VetFail, VetSuppress
  <2> QED
    BY <2>1 DEF OwnerInv, HasKey
<1>1. CASE \/ PingOk(c) \/ PingFail(c) \/ DialOk(c) \/ DialFail(c)
           \/ VetOk(c) \/ VetFail(c) \/ VetSuppress(c)
  <2>1. /\ conn' = conn
        /\ \A k2 \in Keys : connectedApps'[k2] \in {connectedApps[k2], NoCall}
    BY <1>1 DEF PingOk, PingFail, DialOk, DialFail, VetOk, VetFail, VetSuppress,
                Enter, TypeOK, loopVars
  <2> QED
    BY <2>1, GapKept
<1>2. CASE ProbeOk(c)
  <2>1. /\ connectedApps' = [connectedApps EXCEPT ![k] = c]
        /\ conn' = [conn EXCEPT ![k] = IF recon[c] THEN Reconnected(conn[k]) ELSE FreshState]
    BY <1>2 DEF ProbeOk
  <2>2. conn'[k].gap # "open"
    <3>1. HasState(conn[k]) => Reconnected(conn[k]).gap # "open"
      BY <1>0, ReconnectedType DEF TypeOK
    <3>2. ~HasState(conn[k]) => Reconnected(conn[k]) = conn[k] /\ conn[k].gap = "none"
      BY <1>0 DEF Reconnected, GapInv, GapNeedsState
    <3>3. FreshState.gap = "none"
      BY DEF FreshState
    <3>4. conn'[k] \in {Reconnected(conn[k]), FreshState}
      BY <1>0, <2>1 DEF TypeOK
    <3> QED
      BY <3>1, <3>2, <3>3, <3>4
  <2>3. ~HasState(conn'[k]) => conn'[k].gap = "none"
    <3>1. HasState(FreshState)
      BY DEF FreshState, HasState
    <3>2. HasState(conn[k]) => HasState(Reconnected(conn[k]))
      BY <1>0 DEF Reconnected, HasState, ConnStates, TypeOK
    <3>3. ~HasState(conn[k]) => Reconnected(conn[k]) = conn[k] /\ conn[k].gap = "none"
      BY <1>0 DEF Reconnected, GapInv, GapNeedsState
    <3>4. conn'[k] \in {Reconnected(conn[k]), FreshState}
      BY <1>0, <2>1 DEF TypeOK
    <3> QED
      BY <3>1, <3>2, <3>3, <3>4
  <2>4. \A k2 \in Keys \ {k} : conn'[k2] = conn[k2] /\ connectedApps'[k2] = connectedApps[k2]
    BY <2>1 DEF TypeOK
  <2> QED
    BY <2>2, <2>3, <2>4 DEF GapInv, GapNeedsState, RegisteredGapClosed, Registered
<1>3. CASE ProbeFail(c)
  <2>1. CASE Schedule(k)
    BY <1>0, <1>3, <2>1, GapSchedule DEF ProbeFail
  <2>2. CASE conn' = conn
    BY <1>3, <2>2 DEF ProbeFail, GapInv, GapNeedsState, RegisteredGapClosed, Registered
  <2> QED
    BY <1>3, <2>1, <2>2 DEF ProbeFail
<1>4. CASE ScanMetroDown(c)
  <2>1. /\ connectedApps' = connectedApps
        /\ \A k2 \in Keys : /\ conn'[k2].gap = conn[k2].gap
                            /\ (HasState(conn[k2]) => HasState(conn'[k2]))
    BY <1>0, <1>4 DEF ScanMetroDown, HasState, TypeOK, ConnStates
  <2> QED
    BY <2>1, GapKept
<1>5. CASE ScanNoDevice(c)
  <2>1. CASE Schedule(k)
    BY <1>0, <1>5, <2>1, GapSchedule DEF ScanNoDevice
  <2>2. CASE conn' = [conn EXCEPT ![k] = NoState]
    BY <1>0, <1>5, <2>2 DEF ScanNoDevice, GapInv, GapNeedsState, RegisteredGapClosed,
                            Registered, NoState, TypeOK
  <2> QED
    BY <1>5, <2>1, <2>2 DEF ScanNoDevice
<1>6. CASE ScanFound(c)
  <2>1. PICK k2 \in Keys : BeginConnect(c, k2, TRUE)
    BY <1>6 DEF ScanFound
  <2> QED
    BY <2>1, GapBegin
<1> QED
  BY <1>1, <1>2, <1>3, <1>4, <1>5, <1>6 DEF Resume

(* A close event opens a gap, and drops the entry of that key.             *)
LEMMA GapClose ==
  ASSUME TypeOK, OwnerInv, GapInv, NEW c \in Calls, CloseEvent(c)
  PROVE  GapInv'
<1> DEFINE k == key[c]
<1>0. k \in Keys
  BY DEF CloseEvent, OwnerInv, HasKey, SocketHasCall
<1>1. CASE Superseded(c)
  BY <1>1 DEF CloseEvent, loopVars, GapInv, GapNeedsState, RegisteredGapClosed, Registered
<1>2. CASE ~Superseded(c)
  <2>1. PICK stable \in BOOLEAN : HandleClose(c, stable)
    BY <1>2 DEF CloseEvent
  <2> DEFINE s == AfterClose(conn[k], stable)
             r == IF HasState(s) THEN s ELSE FreshState
  <2>2. /\ s \in ConnStates /\ r \in ConnStates
        /\ HasState(r) /\ (~HasState(s) => s.gap = "none")
    <3>1. s \in ConnStates /\ r \in ConnStates
      BY <1>0, AfterCloseType, StateConstants DEF TypeOK
    <3>2. ~HasState(s) => s.gap = "none"
      BY <1>0 DEF AfterClose, HasState, GapInv, GapNeedsState
    <3>3. HasState(r)
      BY DEF FreshState, HasState
    <3> QED
      BY <3>1, <3>2, <3>3
  <2>3. connectedApps' = [connectedApps EXCEPT ![k] = NoCall]
    BY <2>1 DEF HandleClose
  <2>4. conn' = [conn EXCEPT ![k] = s] \/ conn' = [conn EXCEPT ![k] = Rescheduled(r)]
    BY <2>1 DEF HandleClose
  <2> HIDE DEF s, r
  <2>5. HasState(Rescheduled(r))
    BY <2>2, RescheduledType
  <2>6. ~HasState(conn'[k]) => conn'[k].gap = "none"
    BY <1>0, <2>2, <2>4, <2>5 DEF TypeOK
  <2>7. /\ connectedApps'[k] = NoCall
        /\ \A k2 \in Keys \ {k} : conn'[k2] = conn[k2] /\ connectedApps'[k2] = connectedApps[k2]
    BY <1>0, <2>3, <2>4 DEF TypeOK
  <2> QED
    BY <2>6, <2>7 DEF GapInv, GapNeedsState, RegisteredGapClosed, Registered
<1> QED
  BY <1>1, <1>2

LEMMA GapTool ==
  ASSUME TypeOK, GapInv, Tool
  PROVE  GapInv'
<1>1. ASSUME NEW c \in Calls, NEW k \in Keys, UserConnect(c, k)
      PROVE  GapInv'
  BY <1>1, GapBegin DEF UserConnect
<1>2. ASSUME conn' = conn,
             \A k \in Keys : connectedApps'[k] \in {connectedApps[k], NoCall}
      PROVE  GapInv'
  BY <1>2, GapKept
<1>3. ASSUME NEW c \in Calls, NEW k \in Keys, BeginVet(c, k)
      PROVE  GapInv'
  BY <1>2, <1>3 DEF BeginVet, loopVars
<1>4. ASSUME NEW k \in Keys, Release(k) \/ SweepStale(k)
      PROVE  GapInv'
  <2>1. conn' = conn /\ \A k2 \in Keys : connectedApps'[k2] \in {connectedApps[k2], NoCall}
    BY <1>4 DEF Release, SweepStale, loopVars, TypeOK
  <2> QED
    BY <1>2, <2>1
<1>5. CASE ClearSuppression
  BY <1>2, <1>5 DEF ClearSuppression, loopVars
<1>6. CASE ForceRefresh
  <2>1. conn' = conn /\ \A k2 \in Keys : connectedApps'[k2] \in {connectedApps[k2], NoCall}
    BY <1>6 DEF ForceRefresh
  <2> QED
    BY <1>2, <2>1
<1>7. CASE DisconnectAll
  BY <1>7 DEF DisconnectAll, GapInv, GapNeedsState, RegisteredGapClosed, Registered, NoState
<1> QED
  BY <1>1, <1>3, <1>4, <1>5, <1>6, <1>7 DEF Tool

(* No step leaves a registered key with an open gap.                       *)
LEMMA GapInductive == TypeOK /\ OwnerInv /\ GapInv /\ [Next]_vars => GapInv'
<1> SUFFICES ASSUME TypeOK, OwnerInv, GapInv, [Next]_vars
             PROVE  GapInv'
  OBVIOUS
<1>1. ASSUME NEW c \in Calls, Resume(c)
      PROVE  GapInv'
  BY <1>1, GapResume
<1>2. ASSUME NEW c \in Calls, CloseEvent(c)
      PROVE  GapInv'
  BY <1>2, GapClose
<1>3. ASSUME UNCHANGED <<connectedApps, conn>>
      PROVE  GapInv'
  BY <1>3 DEF GapInv, GapNeedsState, RegisteredGapClosed, Registered
<1>4. ASSUME NEW c \in Calls, Drop(c)
      PROVE  GapInv'
  BY <1>3, <1>4 DEF Drop, loopVars
<1>5. ASSUME NEW c \in Calls, NEW k \in Keys, FireTimer(c, k)
      PROVE  GapInv'
  BY <1>3, <1>5 DEF FireTimer
<1>6. CASE Tool
  BY <1>6, GapTool
<1>7. CASE UNCHANGED vars
  BY <1>3, <1>7 DEF vars, loopVars
<1> QED
  BY <1>1, <1>2, <1>4, <1>5, <1>6, <1>7 DEF Next

(***************************************************************************)
(* The theorems                                                            *)
(***************************************************************************)

(* The inductive invariant holds in every reachable state.                 *)
THEOREM Invariant == Spec => []IInv
<1>1. Init => IInv
  <2> SUFFICES ASSUME Init
               PROVE  IInv
    OBVIOUS
  <2>1. TypeOK
    BY BoundsAssumption, StateConstants
       DEF Init, TypeOK, Places, Waiting, Sockets, Timers
  <2>2. OwnerInv
    BY DEF Init, OwnerInv, HasKey, SocketHasCall, LockHasOwner, RegisteredWillClose, Registered
  <2>3. GapInv
    BY DEF Init, GapInv, GapNeedsState, RegisteredGapClosed, Registered, NoState
  <2> QED
    BY <2>1, <2>2, <2>3 DEF IInv, OwnerInv, GapInv
<1>2. IInv /\ [Next]_vars => IInv'
  <2> SUFFICES ASSUME IInv, [Next]_vars
               PROVE  IInv'
    OBVIOUS
  <2>1. TypeOK /\ OwnerInv /\ GapInv
    BY DEF IInv, OwnerInv, GapInv
  <2>2. TypeOK'
    BY <2>1, TypeInductive DEF OwnerInv
  <2>3. OwnerInv'
    BY <2>1, OwnerInductive
  <2>4. GapInv'
    BY <2>1, GapInductive
  <2> QED
    BY <2>2, <2>3, <2>4 DEF IInv, OwnerInv, GapInv
<1> QED
  BY <1>1, <1>2, PTL DEF Spec

(* Type correctness: in particular reconnectionAttempts never passes       *)
(* maxAttempts, however many timers of one key fire.                       *)
THEOREM TypeCorrect == Spec => []TypeOK
<1>1. IInv => TypeOK
  BY DEF IInv
<1> QED
  BY <1>1, Invariant, PTL

(* connectionLocks: every held lock has a call that will release it, so no *)
(* key is locked out of connectToDevice for good.                          *)
THEOREM LocksAreOwned == Spec => []LockHasOwner
<1>1. IInv => LockHasOwner
  BY DEF IInv
<1> QED
  BY <1>1, Invariant, PTL

(* connectedApps: the close of a registered socket is always still to be   *)
(* handled, for the key it is registered under.                            *)
THEOREM RegistryIsWatched == Spec => []RegisteredWillClose
<1>1. IInv => RegisteredWillClose
  BY DEF IInv
<1> QED
  BY <1>1, Invariant, PTL

(* Both ways in which a key could be lost for good are closed.             *)
THEOREM KeysAreNotLost == Spec => []NothingStranded
<1>1. Spec => [](LockHasOwner /\ RegisteredWillClose)
  BY LocksAreOwned, RegistryIsWatched, PTL
<1>2. LockHasOwner /\ RegisteredWillClose => NothingStranded
  BY DEF NothingStranded
<1> QED
  BY <1>1, <1>2, PTL

(* connectionGaps: the last gap of a registered key is closed.             *)
THEOREM RegisteredHasNoGap == Spec => []RegisteredGapClosed
<1>1. IInv => RegisteredGapClosed
  BY DEF IInv
<1> QED
  BY <1>1, Invariant, PTL

(* handleClose: the close event of one socket never drops the entry of     *)
(* another, under its own key (isSupersededSocket) or under any other.     *)
THEOREM ReplacementSpared == Spec => CloseSparesReplacement
<1>1. IInv /\ [Next]_vars =>
        [\A c \in Calls, k \in Keys :
           CloseEvent(c) /\ connectedApps[k] # c => connectedApps'[k] = connectedApps[k]]_vars
  <2> SUFFICES ASSUME IInv, NEW c \in Calls, NEW k \in Keys,
                      CloseEvent(c), connectedApps[k] # c
               PROVE  connectedApps'[k] = connectedApps[k]
    OBVIOUS
  <2>1. CASE Superseded(c)
    BY <2>1 DEF CloseEvent
  <2>2. CASE ~Superseded(c)
    <3>1. connectedApps' = [connectedApps EXCEPT ![key[c]] = NoCall]
      BY <2>2 DEF CloseEvent, HandleClose
    <3>2. connectedApps[key[c]] \in {NoCall, c}
      BY <2>2 DEF Superseded
    <3> QED
      BY <3>1, <3>2 DEF IInv, TypeOK
  <2> QED
    BY <2>1, <2>2
<1> QED
  BY <1>1, Invariant, PTL DEF Spec, CloseSparesReplacement
=============================================================================
