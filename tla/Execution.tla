----------------------------- MODULE Execution ------------------------------
(***************************************************************************)
(* executeInApp (src/src/core/jsExecute.ts): one expression evaluated in   *)
(* the app over CDP, the promise it may return polled, the result perhaps  *)
(* collected later (promiseHandles.ts), and the two layers of retries.     *)
(*                                                                         *)
(* One app is the target of every caller.  The connection manager is       *)
(* reduced to its sockets: connected, silently stale after a reload that   *)
(* changed the target, dropped, and the close event some time later.       *)
(* Requests and answers travel in any order; the app may run a request     *)
(* whose socket is gone.  A socket this side closes delivers until its     *)
(* close event ("closing"), one the other side dropped does not ("dead").  *)
(***************************************************************************)
EXTENDS Naturals, FiniteSets

CONSTANTS
  Callers,     \* runs of executeInApp
  Named,       \* those given a device name
  Background,  \* those with autoReconnect: false (the SDK mirror poller)
  Collectors,  \* those that evaluate buildCollectExpression(slot)
  MaxRetries,  \* options.maxRetries
  MaxSockets,  \* bound: sockets ever connected
  MaxPolls     \* length of buildPollDelays(timeoutMs)

ASSUME CallersAssumption ==
  Named \subseteq Callers /\ Background \subseteq Callers /\ Collectors \subseteq Callers
ASSUME BoundsAssumption == MaxRetries \in Nat /\ MaxSockets \in Nat /\ MaxPolls \in Nat \ {0}

VARIABLES
  pc,       \* the await each caller stands at
  phase,    \* which run of executeInAppInner: first, fiber-roots retry, after reconnect
  attempt,  \* its loop counter
  polls,    \* polls done by executeWithManualAwait
  used,     \* the socket the caller resolved, later the one it probes
  serial,   \* its requests so far: the last one has this message id
  pend,     \* pendingExecutions: the id each caller waits for, 0 for no entry
  outcome,  \* what executeInApp returned
  from,     \* the caller whose slot a collector names
  sockets, current, ever,    \* sockets, the entry of connectedApps, hasEverConnected
  reqs, answers,             \* messages under way
  slot, runs                 \* in the app: promise slots, evaluations per caller

endVars == <<outcome, ever>>
linkVars == <<sockets, current>>
msgVars == <<reqs, answers>>
appVars == <<slot, runs>>
vars == <<pc, phase, attempt, polls, used, serial, pend, from, endVars, linkVars,
          msgVars, appVars>>

Ids == 1..MaxSockets

Places == {"idle", "resolve", "boot", "eval", "sleep", "poll", "failed", "reconnect",
           "backoff", "roots", "probe", "outer", "done"}
Outcomes == {"none", "value", "roots", "pending", "missing", "deferred", "error",
             "dialog", "thrown", "reconnect failed", "retry failed"}
Kinds == {"expr", "read", "take"}
(* "lookalike": an exception of the expression whose text matches both     *)
(* CONTEXT_ERROR_PATTERNS and the transport patterns, "target closed".     *)
Replies == {"value", "roots", "awaiting", "pending", "missing",
            "throws", "lookalike", "context"}

TypeOK ==
  /\ pc \in [Callers -> Places]
  /\ phase \in [Callers -> {"first", "roots", "retry"}]
  /\ attempt \in [Callers -> 0..MaxRetries]
  /\ polls \in [Callers -> 0..MaxPolls]
  /\ used \in [Callers -> 0..MaxSockets]
  /\ serial \in [Callers -> Nat]
  /\ pend \in [Callers -> Nat]
  /\ outcome \in [Callers -> Outcomes]
  /\ from \in [Callers -> Callers]
  /\ sockets \in [Ids -> {"unborn", "open", "stale", "closing", "dead", "closed"}]
  /\ current \in 0..MaxSockets
  /\ ever \in BOOLEAN
  /\ reqs \subseteq [c : Callers, n : Nat, ws : Ids, kind : Kinds]
  /\ answers \subseteq [c : Callers, n : Nat, ws : Ids, res : Replies]
  /\ slot \in [Callers -> {"none", "pending", "settled", "taken", "wiped"}]
  /\ runs \in [Callers -> Nat]

Init ==
  /\ pc = [c \in Callers |-> "idle"] /\ phase = [c \in Callers |-> "first"]
  /\ attempt = [c \in Callers |-> 0] /\ polls = [c \in Callers |-> 0]
  /\ used = [c \in Callers |-> 0] /\ serial = [c \in Callers |-> 0]
  /\ pend = [c \in Callers |-> 0] /\ outcome = [c \in Callers |-> "none"]
  /\ from = [c \in Callers |-> c]
  /\ sockets = [s \in Ids |-> "unborn"] /\ current = 0 /\ ever = FALSE
  /\ reqs = {} /\ answers = {}
  /\ slot = [c \in Callers |-> "none"] /\ runs = [c \in Callers |-> 0]

-----------------------------------------------------------------------------
(* readyState === OPEN: a stale target keeps its socket open.              *)
ReadyOpen(s) == s # 0 /\ sockets[s] \in {"open", "stale"}
(* getConnectedAppByDevice finds the app.                                  *)
Reachable == ReadyOpen(current)

Retries(c) == c \notin Background /\ phase[c] # "retry" /\ attempt[c] < MaxRetries

Go(c, place) == pc' = [pc EXCEPT ![c] = place] /\ UNCHANGED endVars
(* hasEverConnected is set by a success that needed no retry.              *)
Finish(c, what) ==
  /\ pc' = [pc EXCEPT ![c] = "done"]
  /\ outcome' = [outcome EXCEPT ![c] = what]
  /\ ever' = (ever \/ (phase[c] # "retry" /\ what \in {"value", "roots", "pending", "missing"}))

(* executeInApp after a transport failure: attemptQuickReconnect, unless   *)
(* the caller asked for none.  The lookup of the preferred port throws for *)
(* a named device that is gone.                                            *)
TransportFailure(c) ==
  IF c \in Background THEN Finish(c, "error")
  ELSE IF c \in Named /\ ~Reachable THEN Finish(c, "thrown")
  ELSE Go(c, "outer")

(* executeInAppInner failed with error e: classifyTransportError.          *)
InnerFails(c, e) ==
  \/ phase[c] = "roots" /\ Finish(c, "roots")
  \/ phase[c] = "retry" /\ Finish(c, "retry failed")
  \/ /\ phase[c] = "first"
     /\ \/ e = "timeout" /\ Reachable /\ Go(c, "probe")
        \/ e \in {"ws closed", "lookalike", "context"} /\ TransportFailure(c)
        \/ e = "no apps" /\ ever /\ TransportFailure(c)
        \/ e \in {"deferred", "dialog"} /\ Finish(c, e)
        \/ /\ \/ e \in {"error", "context"}
              \/ e = "timeout" /\ ~Reachable
              \/ e = "no apps" /\ ~ever
           /\ Finish(c, "error")

(* executeInAppInner succeeded: a walker that found no fiber roots is      *)
(* evaluated once more.                                                    *)
RootsAlways(c, r) == IF r = "roots" THEN Go(c, "roots") ELSE Finish(c, r)   \* mutant
InnerSucceeds(c, r) ==
  IF r = "roots" /\ phase[c] = "first" THEN Go(c, "roots") ELSE Finish(c, r)

-----------------------------------------------------------------------------
(* executeInAppInner                                                       *)

(* A collector names the slot of a caller that was told its result is not  *)
(* lost.                                                                   *)
Start(c) ==
  /\ pc[c] = "idle"
  /\ IF c \in Collectors
     THEN \E d \in Callers : outcome[d] = "deferred" /\ from' = [from EXCEPT ![c] = d]
     ELSE UNCHANGED from
  /\ Go(c, "resolve")
  /\ UNCHANGED <<phase, attempt, polls, used, serial, pend, linkVars, msgVars, appVars>>

(* getConnectedAppByDevice: entries that are not OPEN are dropped.         *)
Resolve(c) ==
  /\ pc[c] = "resolve"
  /\ current' = IF Reachable THEN current ELSE 0
  /\ used' = [used EXCEPT ![c] = current']
  /\ \/ Reachable /\ Go(c, "boot")
     \/ /\ ~Reachable
        /\ IF c \in Named THEN Finish(c, "thrown")
           ELSE IF Retries(c) THEN Go(c, "reconnect")
           ELSE InnerFails(c, "no apps")
  /\ UNCHANGED <<phase, attempt, polls, serial, from, pend, sockets, msgVars, appVars>>

(* executeCDP: a request and its entry in pendingExecutions, or an error   *)
(* at once when the socket is no longer open.                              *)
Send(c, kind, place) ==
  IF ReadyOpen(used[c])
  THEN LET n == serial[c] + 1
       IN /\ serial' = [serial EXCEPT ![c] = n]
          /\ pend' = [pend EXCEPT ![c] = n]
          /\ reqs' = reqs \cup {[c |-> c, n |-> n, ws |-> used[c], kind |-> kind]}
          /\ Go(c, place)
  ELSE /\ InnerFails(c, "ws closed")
       /\ UNCHANGED <<serial, pend, reqs>>

(* ensureRnGlobalsBootstrap has returned: evaluate the expression.         *)
Evaluate(c) ==
  /\ pc[c] = "boot"
  /\ Send(c, IF c \in Collectors THEN "take" ELSE "expr", "eval")
  /\ polls' = [polls EXCEPT ![c] = 0]
  /\ UNCHANGED <<phase, attempt, used, from, linkVars, answers, appVars>>

(* executeWithManualAwait: one look at the slot.                           *)
Poll(c) ==
  /\ pc[c] = "sleep"
  /\ Send(c, "read", "poll")
  /\ polls' = [polls EXCEPT ![c] = polls[c] + 1]
  /\ UNCHANGED <<phase, attempt, used, from, linkVars, answers, appVars>>

(* The reply res reached caller c.  Only a context error is retried here,  *)
(* the socket closed and the entry of the registry deleted first, whatever *)
(* socket the entry holds by now.                                          *)
Unresolved(c, res) ==      \* mutant: a protocol error is not passed on
  /\ UNCHANGED linkVars
  /\ IF res = "context" THEN UNCHANGED <<pc, endVars>>
     ELSE IF res = "awaiting" THEN Go(c, "sleep") ELSE InnerSucceeds(c, "value")
Resolved(c, res) ==
  \/ /\ res \in {"context", "lookalike"} /\ Retries(c)
     /\ sockets' = IF ReadyOpen(used[c]) THEN [sockets EXCEPT ![used[c]] = "closing"] ELSE sockets
     /\ current' = 0
     /\ Go(c, "reconnect")
  \/ /\ UNCHANGED linkVars
     /\ \/ res \in {"context", "lookalike"} /\ ~Retries(c) /\ InnerFails(c, res)
        \/ /\ res = "awaiting" \/ (res = "pending" /\ pc[c] = "poll")
           /\ IF polls[c] < MaxPolls THEN Go(c, "sleep") ELSE InnerFails(c, "deferred")
        \/ res = "throws" /\ InnerFails(c, "error")
        \/ res \in {"value", "roots", "missing"} /\ InnerSucceeds(c, res)
        \/ res = "pending" /\ pc[c] # "poll" /\ InnerSucceeds(c, res)

(* handleCDPMessage: the entry with the answer's id is resolved; an answer *)
(* that nobody waits for any more is dropped.                              *)
Answer(a) ==
  /\ a \in answers
  /\ answers' = answers \ {a}
  /\ IF pend[a.c] = a.n
     THEN pend' = [pend EXCEPT ![a.c] = 0] /\ Resolved(a.c, a.res)
     ELSE UNCHANGED <<pend, pc, endVars, linkVars>>
  /\ UNCHANGED <<phase, attempt, polls, used, serial, from, reqs, appVars>>

(* The timeout of executeCDP.  Its message quotes the state of the socket: *)
(* only OPEN leads to the liveness probe, of the app resolved once more.   *)
Timeout(c) ==
  /\ pend[c] # 0
  /\ pend' = [pend EXCEPT ![c] = 0]
  /\ used' = [used EXCEPT ![c] = IF Reachable THEN current ELSE used[c]]
  /\ InnerFails(c, IF ReadyOpen(used[c]) THEN "timeout" ELSE "error")
  /\ UNCHANGED <<phase, attempt, polls, serial, from, linkVars, msgVars, appVars>>

(* onDialogOpened: a Chromium page opened alert, confirm or prompt.        *)
DialogOpened(c) ==
  /\ pend[c] # 0 /\ sockets[used[c]] = "open"
  /\ pend' = [pend EXCEPT ![c] = 0]
  /\ InnerFails(c, "dialog")
  /\ UNCHANGED <<phase, attempt, polls, used, serial, from, linkVars, msgVars, appVars>>

(* The caller whose request failPendingExecutionsForSocket settled.        *)
SocketFailed(c) ==
  /\ pc[c] = "failed"
  /\ InnerFails(c, "ws closed")
  /\ UNCHANGED <<phase, attempt, polls, used, serial, from, pend, linkVars, msgVars, appVars>>

(* attemptQuickReconnect inside the loop: true does not mean that a socket *)
(* was connected ("already connected", "already in progress", "stale CDP   *)
(* target").  When it fails the error that led to it is returned.          *)
InnerReconnect(c) ==
  /\ pc[c] = "reconnect"
  /\ \/ Go(c, "backoff")
     \/ InnerFails(c, IF used[c] = 0 THEN "no apps" ELSE "context")
  /\ UNCHANGED <<phase, attempt, polls, used, serial, from, pend, linkVars, msgVars, appVars>>

(* retryDelayMs later, the next attempt.                                   *)
NextAttempt(c) ==
  /\ pc[c] = "backoff"
  /\ attempt' = [attempt EXCEPT ![c] = attempt[c] + 1]
  /\ Go(c, "resolve")
  /\ UNCHANGED <<phase, polls, used, serial, from, pend, linkVars, msgVars, appVars>>

-----------------------------------------------------------------------------
(* executeInApp around it                                                  *)

Again(c, which) ==
  /\ phase' = [phase EXCEPT ![c] = which] /\ attempt' = [attempt EXCEPT ![c] = 0]
  /\ Go(c, "resolve")

(* NO_FIBER_ROOTS_RETRY_MS later.                                          *)
RootsRetry(c) ==
  /\ pc[c] = "roots"
  /\ Again(c, "roots")
  /\ UNCHANGED <<polls, used, serial, from, pend, linkVars, msgVars, appVars>>

(* classifyWithLivenessProbe: a transport failure only if the probe is     *)
(* silent and Metro lists other targets, so that only a socket without its *)
(* target is given up.                                                     *)
ProbeOnly(s) == TRUE                        \* mutant: a silent probe is enough
Gone(s) == sockets[s] # "open"
Probe(c) ==
  /\ pc[c] = "probe"
  /\ \/ Finish(c, "error")
     \/ Gone(used[c]) /\ TransportFailure(c)
  /\ UNCHANGED <<phase, attempt, polls, used, serial, from, pend, linkVars, msgVars, appVars>>

(* attemptQuickReconnect, then one more run without reconnects.            *)
OuterReconnect(c) ==
  /\ pc[c] = "outer"
  /\ \/ Finish(c, "reconnect failed") /\ UNCHANGED <<phase, attempt>>
     \/ Again(c, "retry")
  /\ UNCHANGED <<polls, used, serial, from, pend, linkVars, msgVars, appVars>>

-----------------------------------------------------------------------------
(* The connections                                                         *)

(* connectToDevice, from a reconnect or from the tools.  It skips a device *)
(* whose name is connected, a stale target included.                       *)
Connect(s) ==
  /\ sockets[s] = "unborn" /\ \A r \in Ids : r < s => sockets[r] # "unborn"
  /\ ~Reachable
  /\ sockets' = [sockets EXCEPT ![s] = "open"] /\ current' = s
  /\ UNCHANGED <<pc, phase, attempt, polls, used, serial, from, pend, endVars, msgVars, appVars>>

(* Metro, the app or the network ends the connection.                      *)
Drop(s) ==
  /\ ReadyOpen(s)
  /\ sockets' = [sockets EXCEPT ![s] = "dead"]
  /\ answers' = {a \in answers : a.ws # s}
  /\ UNCHANGED <<pc, phase, attempt, polls, used, serial, from, pend, current, endVars,
                 reqs, appVars>>

(* handleClose: every call that waits on the socket is settled.  What was  *)
(* not delivered never will be.                                            *)
KeptWaiting(s) == {}                        \* mutant: calls are left to their timers
Waiting(s) == {c \in Callers : pend[c] # 0 /\ used[c] = s}
CloseEvent(s) ==
  /\ sockets[s] \in {"closing", "dead"}
  /\ sockets' = [sockets EXCEPT ![s] = "closed"]
  /\ current' = IF current = s THEN 0 ELSE current
  /\ pend' = [c \in Callers |-> IF c \in Waiting(s) THEN 0 ELSE pend[c]]
  /\ pc' = [c \in Callers |-> IF c \in Waiting(s) THEN "failed" ELSE pc[c]]
  /\ answers' = {a \in answers : a.ws # s}
  /\ UNCHANGED <<phase, attempt, polls, used, serial, from, endVars, reqs, appVars>>

-----------------------------------------------------------------------------
(* The app                                                                 *)

(* A reload wipes the promise slots.  When it also replaces the target,    *)
(* the sockets of the old one stay open and swallow what they are sent.    *)
Wipe == slot' = [c \in Callers |-> IF slot[c] \in {"pending", "settled"} THEN "wiped" ELSE slot[c]]
Reload ==
  /\ Wipe
  /\ UNCHANGED <<pc, phase, attempt, polls, used, serial, from, pend, endVars, linkVars,
                 msgVars, runs>>
ReplaceTarget ==
  /\ \E s \in Ids : sockets[s] = "open"
  /\ sockets' = [s \in Ids |-> IF sockets[s] = "open" THEN "stale" ELSE sockets[s]]
  /\ reqs' = {q \in reqs : sockets'[q.ws] # "stale"}
  /\ Wipe
  /\ UNCHANGED <<pc, phase, attempt, polls, used, serial, from, pend, current, endVars,
                 answers, runs>>

(* The wrapper of executeWithManualAwait, its readExpr, and                *)
(* buildCollectExpression.                                                 *)
Reply(q, res) ==
  /\ reqs' = reqs \ {q}
  /\ answers' = IF sockets[q.ws] \in {"dead", "closed"} THEN answers
                ELSE answers \cup {[c |-> q.c, n |-> q.n, ws |-> q.ws, res |-> res]}
RunExpr(q) ==
  /\ runs' = [runs EXCEPT ![q.c] = @ + 1]
  /\ \E res \in {"value", "roots", "throws", "lookalike", "context", "awaiting"} :
       /\ Reply(q, res)
       /\ slot' = IF res = "awaiting" THEN [slot EXCEPT ![q.c] = "pending"] ELSE slot
RunRead(q) ==
  /\ \/ slot[q.c] # "settled" /\ Reply(q, "pending") /\ UNCHANGED slot
     \/ slot[q.c] = "settled" /\ Reply(q, "value") /\ slot' = [slot EXCEPT ![q.c] = "taken"]
  /\ UNCHANGED runs
RunTake(q) ==
  LET d == from[q.c]
  IN /\ \/ slot[d] = "pending" /\ Reply(q, "pending") /\ UNCHANGED slot
        \/ slot[d] = "settled" /\ Reply(q, "value") /\ slot' = [slot EXCEPT ![d] = "taken"]
        \/ slot[d] \notin {"pending", "settled"} /\ Reply(q, "missing") /\ UNCHANGED slot
     /\ UNCHANGED runs
AppRun(q) ==
  /\ q \in reqs
  /\ \/ q.kind = "expr" /\ RunExpr(q)
     \/ q.kind = "read" /\ RunRead(q)
     \/ q.kind = "take" /\ RunTake(q)
  /\ UNCHANGED <<pc, phase, attempt, polls, used, serial, from, pend, endVars, linkVars>>

(* The promise settles.                                                    *)
Settle(c) ==
  /\ slot[c] = "pending"
  /\ slot' = [slot EXCEPT ![c] = "settled"]
  /\ UNCHANGED <<pc, phase, attempt, polls, used, serial, from, pend, endVars, linkVars,
                 msgVars, runs>>

-----------------------------------------------------------------------------
CallStep(c) ==
  \/ Start(c) \/ Resolve(c) \/ Evaluate(c) \/ Poll(c) \/ Timeout(c) \/ DialogOpened(c)
  \/ SocketFailed(c) \/ InnerReconnect(c) \/ NextAttempt(c) \/ RootsRetry(c)
  \/ Probe(c) \/ OuterReconnect(c)

Next ==
  \/ \E c \in Callers : CallStep(c) \/ Settle(c)
  \/ \E a \in answers : Answer(a)
  \/ \E s \in Ids : Connect(s) \/ Drop(s) \/ CloseEvent(s)
  \/ Reload \/ ReplaceTarget
  \/ \E q \in reqs : AppRun(q)

Spec == Init /\ [][Next]_vars

(* Timers fire and continuations run; nothing is assumed of the app, of    *)
(* Metro or of the network.                                                *)
Fairness == \A c \in Callers :
  WF_vars(Resolve(c) \/ Evaluate(c) \/ Poll(c) \/ Timeout(c) \/ SocketFailed(c)
          \/ InnerReconnect(c) \/ NextAttempt(c) \/ RootsRetry(c) \/ Probe(c)
          \/ OuterReconnect(c))
LiveSpec == Spec /\ Fairness

-----------------------------------------------------------------------------
(* Properties                                                              *)

(* pendingExecutions holds exactly the request each waiting caller sent    *)
(* last: an answer to an earlier attempt, or a timer of it, cannot settle  *)
(* the attempt that runs now, and no caller waits for an entry that is     *)
(* gone.                                                                   *)
PendingMatches == \A c \in Callers :
  /\ pend[c] # 0 <=> pc[c] \in {"eval", "poll"}
  /\ pend[c] # 0 => pend[c] = serial[c]

(* A caller waits on a socket that can still deliver or whose close event  *)
(* will settle the call; its timer is not the only way out.                *)
PendingWillEnd == \A c \in Callers :
  pend[c] # 0 => used[c] # 0 /\ sockets[used[c]] \in {"open", "stale", "closing", "dead"}

(* Every wait is for something that is still to come, and for the attempt  *)
(* that runs now.                                                          *)
WaitsAreAnswered == PendingMatches /\ PendingWillEnd

(* A reconnect inside the loop leaves an attempt to make, a sleep leaves   *)
(* a poll to send.                                                         *)
StepsLeft == \A c \in Callers :
  /\ pc[c] \in {"reconnect", "backoff"} => attempt[c] < MaxRetries
  /\ pc[c] = "sleep" => polls[c] < MaxPolls

(* What the proofs show to be inductive.                                   *)
IInv == TypeOK /\ PendingMatches /\ PendingWillEnd /\ StepsLeft

(* An expression is evaluated at most twice per attempt of the first run:  *)
(* the fiber-roots retry and the retry after a reconnect exclude each      *)
(* other, and no retry renews the attempts of another.                     *)
RunsBounded == \A c \in Callers : runs[c] <= 2 * (MaxRetries + 1)

(* isTargetStillAdvertised: a retry re-runs the expression, so it is never *)
(* sent again while the connection that serves the device may still run or *)
(* answer the copy before it.                                              *)
NoRerunWhileAnswerable == [][
  \A c \in Callers :
    pc[c] = "boot" /\ serial'[c] # serial[c] =>
      \A m \in reqs \cup answers :
        m.c = c /\ m.ws \in {used[c], current} => sockets[m.ws] # "open"
  ]_vars

(* Every call of executeInApp returns, however the app, Metro and the      *)
(* network behave.                                                         *)
CallEnds == \A c \in Callers : pc[c] = "resolve" ~> pc[c] = "done"

=============================================================================
