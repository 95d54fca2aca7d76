-------------------------- MODULE Execution_proof ---------------------------
(***************************************************************************)
(* Invariants of Execution for every set of callers and every bound.  A    *)
(* step moves one caller, the close event of a socket moves all those that *)
(* wait on it: Moves names the first kind, and the lemmas say where each   *)
(* outcome of executeInApp may take a caller.  IInv says what every wait   *)
(* is for; on it rest RunsInv, how often an expression is evaluated, and   *)
(* RerunInv, which messages may still be answered when one is sent.        *)
(***************************************************************************)
EXTENDS Execution, FiniteSetTheorems, TLAPS

(* Caller c goes to one of the given places; what it returns is an outcome.*)
Moves(c, S) == \E p \in S :
  /\ pc' = [pc EXCEPT ![c] = p]
  /\ outcome' \in [Callers -> Outcomes] /\ ever' \in BOOLEAN

Errors == {"timeout", "ws closed", "lookalike", "no apps", "context", "deferred",
           "dialog", "error"}
Ends == {"done", "probe", "outer"}
Calm == Places \ {"eval", "poll"}

LEMMA GoMoves ==
  ASSUME TypeOK, NEW c \in Callers, NEW p, Go(c, p)
  PROVE  Moves(c, {p})
  BY DEF TypeOK, Go, Moves, endVars

LEMMA FinishMoves ==
  ASSUME TypeOK, NEW c \in Callers, NEW o \in Outcomes, Finish(c, o)
  PROVE  Moves(c, {"done"})
<1>1. outcome' \in [Callers -> Outcomes]
  BY DEF TypeOK, Finish
<1>2. ever' \in BOOLEAN
  BY DEF TypeOK, Finish
<1> QED
  BY <1>1, <1>2 DEF Finish, Moves

LEMMA MovesMore ==
  ASSUME NEW c \in Callers, NEW S, NEW T, S \subseteq T, Moves(c, S)
  PROVE  Moves(c, T)
  BY DEF Moves

LEMMA TransportMoves ==
  ASSUME TypeOK, NEW c \in Callers, TransportFailure(c)
  PROVE  Moves(c, Ends)
<1>1. Finish(c, "error") => Moves(c, {"done"})
  BY FinishMoves DEF Outcomes
<1>2. Finish(c, "thrown") => Moves(c, {"done"})
  BY FinishMoves DEF Outcomes
<1>3. Go(c, "outer") => Moves(c, {"outer"})
  BY GoMoves
<1>4. Moves(c, {"done"}) \/ Moves(c, {"outer"})
  BY <1>1, <1>2, <1>3 DEF TransportFailure
<1> QED
  BY <1>4, MovesMore DEF Ends

(* classifyTransportError only ends the call, probes or reconnects.        *)
LEMMA FailsMoves ==
  ASSUME TypeOK, NEW c \in Callers, NEW e \in Errors, InnerFails(c, e)
  PROVE  Moves(c, Ends)
<1>1. \A o \in {"roots", "retry failed", "error", "deferred", "dialog"} :
        Finish(c, o) => Moves(c, {"done"})
  BY FinishMoves DEF Outcomes
<1>2. Go(c, "probe") => Moves(c, {"probe"})
  BY GoMoves
<1>3. Moves(c, {"done"}) => Moves(c, Ends)
  BY MovesMore DEF Ends
<1>4. Moves(c, {"probe"}) => Moves(c, Ends)
  BY MovesMore DEF Ends
<1>5. TransportFailure(c) => Moves(c, Ends)
  BY TransportMoves
<1>6. \/ \E o \in {"roots", "retry failed", "error", "deferred", "dialog"} : Finish(c, o)
      \/ Go(c, "probe") \/ TransportFailure(c)
  <2>1. CASE phase[c] \in {"roots", "retry"}
    BY <2>1 DEF InnerFails
  <2>2. CASE phase[c] \notin {"roots", "retry"}
    BY <2>2 DEF InnerFails
  <2> QED
    BY <2>1, <2>2
<1> QED
  BY <1>1, <1>2, <1>3, <1>4, <1>5, <1>6

LEMMA SucceedsMoves ==
  ASSUME TypeOK, NEW c \in Callers, NEW r \in {"value", "roots", "pending", "missing"},
         InnerSucceeds(c, r)
  PROVE  Moves(c, {"done", "roots"})
<1>1. Finish(c, r) => Moves(c, {"done"})
  BY FinishMoves DEF Outcomes
<1>2. Go(c, "roots") => Moves(c, {"roots"})
  BY GoMoves
<1>3. Moves(c, {"done"}) \/ Moves(c, {"roots"})
  BY <1>1, <1>2 DEF InnerSucceeds
<1> QED
  BY <1>3, MovesMore

-----------------------------------------------------------------------------
(* The part of TypeOK a step of one caller must keep by itself.            *)
RestTyped ==
  /\ phase \in [Callers -> {"first", "roots", "retry"}]
  /\ attempt \in [Callers -> 0..MaxRetries]
  /\ polls \in [Callers -> 0..MaxPolls]
  /\ used \in [Callers -> 0..MaxSockets]
  /\ from \in [Callers -> Callers]
  /\ sockets \in [Ids -> {"unborn", "open", "stale", "closing", "dead", "closed"}]
  /\ current \in 0..MaxSockets
  /\ reqs \subseteq [c : Callers, n : Nat, ws : Ids, kind : Kinds]
  /\ answers \subseteq [c : Callers, n : Nat, ws : Ids, res : Replies]
  /\ slot \in [Callers -> {"none", "pending", "settled", "taken", "wiped"}]
  /\ runs \in [Callers -> Nat]

Live == {"open", "stale", "closing", "dead"}
(* No socket somebody waits on is closed behind the caller's back.         *)
KeepsLive == \A s \in Ids : sockets[s] \in Live => sockets'[s] \in Live
(* Only caller c renews its counters or its socket.                        *)
OthersKeep(c) == \A d \in Callers \ {c} :
  attempt'[d] = attempt[d] /\ polls'[d] = polls[d] /\ used'[d] = used[d]
(* Caller c leaves a reconnect or a sleep only where steps are left.       *)
StepLeft(c) ==
  /\ pc'[c] \in {"reconnect", "backoff"} => attempt'[c] < MaxRetries
  /\ pc'[c] = "sleep" => polls'[c] < MaxPolls

LEMMA RestType == TypeOK => RestTyped
  BY DEF TypeOK, RestTyped

(* A caller that waits for no answer after its step.                       *)
LEMMA CalmStep ==
  ASSUME IInv, NEW c \in Callers, Moves(c, Calm), RestTyped', OthersKeep(c), StepLeft(c),
         KeepsLive, serial' = serial, pend' = [pend EXCEPT ![c] = 0]
  PROVE  IInv'
<1> USE DEF IInv
<1>1. PICK p \in Calm : /\ pc' = [pc EXCEPT ![c] = p]
                        /\ outcome' \in [Callers -> Outcomes] /\ ever' \in BOOLEAN
  BY DEF Moves
<1>2. TypeOK'
  <2>1. pc' \in [Callers -> Places]
    BY <1>1 DEF TypeOK, Calm
  <2>2. pend' \in [Callers -> Nat] /\ serial' \in [Callers -> Nat]
    BY DEF TypeOK
  <2>3. outcome' \in [Callers -> Outcomes] /\ ever' \in BOOLEAN
    BY <1>1
  <2> QED
    BY <2>1, <2>2, <2>3 DEF TypeOK, RestTyped
<1>3. \A d \in Callers : pc'[d] = (IF d = c THEN p ELSE pc[d]) /\ pend'[d] = (IF d = c THEN 0 ELSE pend[d])
  BY <1>1 DEF TypeOK
<1>4. PendingMatches'
  BY <1>3 DEF PendingMatches, Calm
<1>5. PendingWillEnd'
  <2>1. \A d \in Callers : used[d] # 0 => used[d] \in Ids
    BY BoundsAssumption DEF TypeOK, Ids
  <2>2. ASSUME NEW d \in Callers, pend'[d] # 0
        PROVE  used'[d] # 0 /\ sockets'[used'[d]] \in Live
    <3>1. d # c /\ pend[d] # 0
      BY <1>3, <2>2
    <3>2. used'[d] = used[d] /\ used[d] # 0 /\ sockets[used[d]] \in Live
      BY <3>1 DEF OthersKeep, PendingWillEnd, Live
    <3> QED
      BY <2>1, <3>2 DEF KeepsLive
  <2> QED
    BY <2>2 DEF PendingWillEnd, Live
<1>6. StepsLeft'
  BY <1>3 DEF StepsLeft, StepLeft, OthersKeep
<1> QED
  BY <1>2, <1>4, <1>5, <1>6

(* A step that no caller takes.                                            *)
LEMMA WorldStep ==
  ASSUME IInv, RestTyped', KeepsLive,
         UNCHANGED <<pc, attempt, polls, used, serial, pend, endVars>>
  PROVE  IInv'
<1> USE DEF IInv
<1>1. TypeOK'
  BY DEF TypeOK, RestTyped, endVars
<1>2. PendingMatches' /\ StepsLeft'
  BY DEF PendingMatches, StepsLeft
<1>3. PendingWillEnd'
  <2>1. \A d \in Callers : used[d] # 0 => used[d] \in Ids
    BY BoundsAssumption DEF TypeOK, Ids
  <2> QED
    BY <2>1 DEF PendingWillEnd, KeepsLive, Live
<1> QED
  BY <1>1, <1>2, <1>3

-----------------------------------------------------------------------------
(* Steps of a caller                                                       *)

StillPlaces == Calm \ {"reconnect", "backoff", "sleep"}

LEMMA ToPlace ==
  ASSUME TypeOK, NEW c \in Callers, NEW S, Moves(c, S)
  PROVE  pc'[c] \in S
  BY DEF Moves, TypeOK

LEMMA EndsCalm ==
  ASSUME TypeOK, NEW c \in Callers, Moves(c, Ends)
  PROVE  Moves(c, Calm) /\ StepLeft(c)
<1>1. Ends \subseteq Calm
  BY DEF Ends, Calm, Places
<1>2. pc'[c] \in Ends
  BY ToPlace
<1>3. StepLeft(c)
  BY <1>2 DEF Ends, StepLeft
<1> QED
  BY <1>1, <1>3, MovesMore

(* A caller at a place where it waits for no answer has no entry.          *)
LEMMA NoEntry ==
  ASSUME IInv, NEW c \in Callers, pc[c] \notin {"eval", "poll"}
  PROVE  pend[c] = 0 /\ pend = [pend EXCEPT ![c] = 0]
  BY DEF IInv, TypeOK, PendingMatches

LEMMA GoCalm ==
  ASSUME TypeOK, NEW c \in Callers, NEW p \in Calm, Go(c, p)
  PROVE  Moves(c, Calm) /\ pc'[c] = p
<1>1. Moves(c, {p})
  BY GoMoves
<1>2. {p} \subseteq Calm
  OBVIOUS
<1>3. Moves(c, Calm)
  BY <1>1, <1>2, MovesMore
<1>4. pc'[c] \in {p}
  BY <1>1, ToPlace
<1> QED
  BY <1>3, <1>4

LEMMA StartStep ==
  ASSUME IInv, NEW c \in Callers, Start(c)
  PROVE  IInv'
<1> USE DEF IInv
<1>1. Moves(c, Calm) /\ pc'[c] = "resolve"
  BY GoCalm DEF Start, Calm, Places
<1>2. RestTyped'
  BY RestType DEF Start, RestTyped, linkVars, msgVars, appVars
<1>3. OthersKeep(c) /\ StepLeft(c) /\ KeepsLive
  BY <1>1 DEF Start, OthersKeep, StepLeft, KeepsLive, linkVars
<1>4. serial' = serial /\ pend' = [pend EXCEPT ![c] = 0]
  BY NoEntry DEF Start
<1> QED
  BY <1>1, <1>2, <1>3, <1>4, CalmStep

LEMMA ResolveStep ==
  ASSUME IInv, NEW c \in Callers, Resolve(c)
  PROVE  IInv'
<1> USE DEF IInv
<1>1. Moves(c, Calm) /\ StepLeft(c)
  <2>1. CASE Reachable /\ Go(c, "boot")
    BY <2>1, GoCalm DEF StepLeft, Calm, Places
  <2>2. CASE Finish(c, "thrown")
    <3>1. Moves(c, {"done"})
      BY <2>2, FinishMoves DEF Outcomes
    <3> QED
      BY <3>1, MovesMore, EndsCalm DEF Ends
  <2>3. CASE Retries(c) /\ Go(c, "reconnect")
    <3>1. attempt'[c] < MaxRetries
      BY <2>3 DEF Retries, Resolve
    <3> QED
      BY <2>3, <3>1, GoCalm DEF StepLeft, Calm, Places
  <2>4. CASE InnerFails(c, "no apps")
    BY <2>4, FailsMoves, EndsCalm DEF Errors
  <2> QED
    BY <2>1, <2>2, <2>3, <2>4 DEF Resolve
<1>2. current' \in 0..MaxSockets
  <2>1. 0 \in 0..MaxSockets /\ current \in 0..MaxSockets
    BY BoundsAssumption DEF TypeOK
  <2>2. current' \in {0, current}
    BY DEF Resolve
  <2> QED
    BY <2>1, <2>2
<1>3. RestTyped'
  BY <1>2, RestType DEF Resolve, RestTyped, msgVars, appVars
<1>4. OthersKeep(c) /\ KeepsLive
  BY DEF Resolve, OthersKeep, KeepsLive, TypeOK
<1>5. serial' = serial /\ pend' = [pend EXCEPT ![c] = 0]
  BY NoEntry DEF Resolve
<1> QED
  BY <1>1, <1>3, <1>4, <1>5, CalmStep

(* executeCDP on behalf of a caller about to evaluate or to poll.          *)
LEMMA SendStep ==
  ASSUME IInv, NEW c \in Callers, NEW kind \in Kinds, NEW place \in {"eval", "poll"},
         pc[c] \notin {"eval", "poll"}, Send(c, kind, place),
         polls' \in [Callers -> 0..MaxPolls],
         \A d \in Callers \ {c} : polls'[d] = polls[d],
         UNCHANGED <<phase, attempt, used, from, linkVars, answers, appVars>>
  PROVE  IInv'
<1> USE DEF IInv
<1>1. OthersKeep(c) /\ KeepsLive
  BY DEF OthersKeep, KeepsLive, linkVars
<1>2. CASE InnerFails(c, "ws closed") /\ UNCHANGED <<serial, pend, reqs>>
  <2>1. Moves(c, Calm) /\ StepLeft(c)
    BY <1>2, FailsMoves, EndsCalm DEF Errors
  <2>2. RestTyped'
    BY <1>2, RestType DEF RestTyped, linkVars, appVars
  <2>3. serial' = serial /\ pend' = [pend EXCEPT ![c] = 0]
    BY <1>2, NoEntry
  <2> QED
    BY <1>1, <2>1, <2>2, <2>3, CalmStep
<1>3. CASE ReadyOpen(used[c]) /\ ~(InnerFails(c, "ws closed") /\ UNCHANGED <<serial, pend, reqs>>)
  <2> DEFINE n == serial[c] + 1
             q == [c |-> c, n |-> n, ws |-> used[c], kind |-> kind]
  <2>1. /\ serial' = [serial EXCEPT ![c] = n] /\ pend' = [pend EXCEPT ![c] = n]
        /\ reqs' = reqs \cup {q} /\ Go(c, place)
    BY <1>3 DEF Send
  <2>2. used[c] \in Ids /\ n \in Nat \ {0}
    <3>1. used[c] \in 0..MaxSockets /\ serial[c] \in Nat
      BY DEF TypeOK
    <3>2. used[c] # 0
      BY <1>3 DEF ReadyOpen
    <3> QED
      BY <3>1, <3>2, BoundsAssumption DEF Ids
  <2>3. \A d \in Callers : /\ pc'[d] = (IF d = c THEN place ELSE pc[d])
                           /\ pend'[d] = (IF d = c THEN n ELSE pend[d])
                           /\ serial'[d] = (IF d = c THEN n ELSE serial[d])
    BY <2>1 DEF TypeOK, Go
  <2>4. TypeOK'
    <3>1. pc' \in [Callers -> Places] /\ UNCHANGED endVars
      BY <2>1 DEF TypeOK, Go, Places
    <3>2. serial' \in [Callers -> Nat] /\ pend' \in [Callers -> Nat]
      BY <2>1, <2>2 DEF TypeOK
    <3>3. q \in [c : Callers, n : Nat, ws : Ids, kind : Kinds]
      BY <2>2
    <3>4. reqs' \subseteq [c : Callers, n : Nat, ws : Ids, kind : Kinds]
      BY <2>1, <3>3 DEF TypeOK
    <3> HIDE DEF q
    <3> QED
      BY <3>1, <3>2, <3>4 DEF TypeOK, linkVars, appVars, endVars
  <2> HIDE DEF n
  <2>5. PendingMatches'
    BY <2>2, <2>3 DEF PendingMatches
  <2>6. PendingWillEnd'
    <3>1. ReadyOpen(used[c])
      BY <1>3
    <3>2. used'[c] # 0 /\ sockets'[used'[c]] \in {"open", "stale"}
      BY <3>1 DEF ReadyOpen, linkVars
    <3> QED
      BY <2>3, <3>2 DEF PendingWillEnd, linkVars
  <2>7. StepsLeft'
    BY <2>3 DEF StepsLeft
  <2> QED
    BY <2>4, <2>5, <2>6, <2>7
<1> QED
  BY <1>2, <1>3 DEF Send

LEMMA EvaluateStep ==
  ASSUME IInv, NEW c \in Callers, Evaluate(c)
  PROVE  IInv'
<1>1. polls' \in [Callers -> 0..MaxPolls] /\ \A d \in Callers \ {c} : polls'[d] = polls[d]
  BY BoundsAssumption DEF IInv, TypeOK, Evaluate
<1>2. pc[c] \notin {"eval", "poll"}
  BY DEF Evaluate
<1>3. \E kind \in Kinds : Send(c, kind, "eval")
  BY DEF Evaluate, Kinds
<1> QED
  BY <1>1, <1>2, <1>3, SendStep DEF Evaluate

LEMMA PollStep ==
  ASSUME IInv, NEW c \in Callers, Poll(c)
  PROVE  IInv'
<1>1. polls[c] < MaxPolls
  BY DEF IInv, StepsLeft, Poll
<1>2. polls' \in [Callers -> 0..MaxPolls] /\ \A d \in Callers \ {c} : polls'[d] = polls[d]
  BY <1>1, BoundsAssumption DEF IInv, TypeOK, Poll
<1>3. pc[c] \notin {"eval", "poll"}
  BY DEF Poll
<1>4. Send(c, "read", "poll") /\ "read" \in Kinds
  BY DEF Poll, Kinds
<1> QED
  BY <1>2, <1>3, <1>4, SendStep DEF Poll

(* A caller that only changes its place.                                   *)
LEMMA PlaceStep ==
  ASSUME IInv, NEW c \in Callers, Moves(c, Calm), StepLeft(c),
         pend' = [pend EXCEPT ![c] = 0],
         UNCHANGED <<phase, attempt, polls, used, serial, from, linkVars, msgVars, appVars>>
  PROVE  IInv'
<1>1. RestTyped'
  BY RestType DEF IInv, RestTyped, linkVars, msgVars, appVars
<1>2. OthersKeep(c) /\ KeepsLive
  BY DEF OthersKeep, KeepsLive, linkVars
<1> QED
  BY <1>1, <1>2, CalmStep

LEMMA TimeoutStep ==
  ASSUME IInv, NEW c \in Callers, Timeout(c)
  PROVE  IInv'
<1> USE DEF IInv
<1>1. Moves(c, Calm) /\ StepLeft(c)
  BY FailsMoves, EndsCalm DEF Timeout, Errors
<1>2. used' \in [Callers -> 0..MaxSockets]
  BY DEF Timeout, TypeOK
<1>3. RestTyped'
  BY <1>2, RestType DEF Timeout, RestTyped, linkVars, msgVars, appVars
<1>4. OthersKeep(c) /\ KeepsLive
  BY DEF Timeout, OthersKeep, KeepsLive, linkVars, TypeOK
<1>5. serial' = serial /\ pend' = [pend EXCEPT ![c] = 0]
  BY DEF Timeout
<1> QED
  BY <1>1, <1>3, <1>4, <1>5, CalmStep

LEMMA DialogStep ==
  ASSUME IInv, NEW c \in Callers, DialogOpened(c)
  PROVE  IInv'
<1>1. Moves(c, Calm) /\ StepLeft(c)
  BY FailsMoves, EndsCalm DEF DialogOpened, Errors, IInv
<1> QED
  BY <1>1, PlaceStep DEF DialogOpened

LEMMA SocketFailedStep ==
  ASSUME IInv, NEW c \in Callers, SocketFailed(c)
  PROVE  IInv'
<1>1. Moves(c, Calm) /\ StepLeft(c)
  BY FailsMoves, EndsCalm DEF SocketFailed, Errors, IInv
<1>2. pend' = [pend EXCEPT ![c] = 0]
  BY NoEntry DEF SocketFailed
<1> QED
  BY <1>1, <1>2, PlaceStep DEF SocketFailed

LEMMA InnerReconnectStep ==
  ASSUME IInv, NEW c \in Callers, InnerReconnect(c)
  PROVE  IInv'
<1>1. Moves(c, Calm) /\ StepLeft(c)
  <2>1. CASE Go(c, "backoff")
    <3>1. attempt'[c] < MaxRetries
      BY DEF InnerReconnect, IInv, StepsLeft
    <3>2. "backoff" \in Calm
      BY DEF Calm, Places
    <3>3. Moves(c, Calm) /\ pc'[c] = "backoff"
      BY <2>1, <3>2, GoCalm DEF IInv
    <3> QED
      BY <3>1, <3>3 DEF StepLeft
  <2>2. CASE InnerFails(c, "no apps") \/ InnerFails(c, "context")
    BY <2>2, FailsMoves, EndsCalm DEF Errors, IInv
  <2> QED
    BY <2>1, <2>2 DEF InnerReconnect
<1>2. pend' = [pend EXCEPT ![c] = 0]
  BY NoEntry DEF InnerReconnect
<1> QED
  BY <1>1, <1>2, PlaceStep DEF InnerReconnect

LEMMA NextAttemptStep ==
  ASSUME IInv, NEW c \in Callers, NextAttempt(c)
  PROVE  IInv'
<1> USE DEF IInv
<1>1. Moves(c, Calm) /\ pc'[c] = "resolve"
  BY GoCalm DEF NextAttempt, Calm, Places
<1>2. attempt' \in [Callers -> 0..MaxRetries]
  <2>1. attempt[c] < MaxRetries /\ attempt[c] \in 0..MaxRetries
    BY DEF NextAttempt, StepsLeft, TypeOK
  <2>2. attempt[c] + 1 \in 0..MaxRetries
    BY <2>1, BoundsAssumption
  <2> QED
    BY <2>2 DEF NextAttempt, TypeOK
<1>3. RestTyped'
  BY <1>2, RestType DEF NextAttempt, RestTyped, linkVars, msgVars, appVars
<1>4. OthersKeep(c) /\ StepLeft(c) /\ KeepsLive
  BY <1>1 DEF NextAttempt, OthersKeep, StepLeft, KeepsLive, linkVars, TypeOK
<1>5. serial' = serial /\ pend' = [pend EXCEPT ![c] = 0]
  BY NoEntry DEF NextAttempt
<1> QED
  BY <1>1, <1>3, <1>4, <1>5, CalmStep

LEMMA AgainStep ==
  ASSUME IInv, NEW c \in Callers, NEW which \in {"roots", "retry"}, Again(c, which),
         pc[c] \notin {"eval", "poll"},
         UNCHANGED <<polls, used, serial, from, pend, linkVars, msgVars, appVars>>
  PROVE  IInv'
<1> USE DEF IInv
<1>1. Moves(c, Calm) /\ pc'[c] = "resolve"
  BY GoCalm DEF Again, Calm, Places
<1>2. /\ attempt' \in [Callers -> 0..MaxRetries]
      /\ phase' \in [Callers -> {"first", "roots", "retry"}]
  BY BoundsAssumption DEF Again, TypeOK
<1>3. RestTyped'
  BY <1>2, RestType DEF RestTyped, linkVars, msgVars, appVars
<1>4. OthersKeep(c) /\ StepLeft(c) /\ KeepsLive
  BY <1>1 DEF Again, OthersKeep, StepLeft, KeepsLive, linkVars, TypeOK
<1>5. pend' = [pend EXCEPT ![c] = 0]
  BY NoEntry
<1> QED
  BY <1>1, <1>3, <1>4, <1>5, CalmStep

LEMMA ProbeStep ==
  ASSUME IInv, NEW c \in Callers, Probe(c)
  PROVE  IInv'
<1>1. Moves(c, Ends)
  <2>1. Finish(c, "error") => Moves(c, {"done"})
    BY FinishMoves DEF Outcomes, IInv
  <2>2. Moves(c, {"done"}) => Moves(c, Ends)
    BY MovesMore DEF Ends
  <2> QED
    BY <2>1, <2>2, TransportMoves DEF Probe, IInv
<1>2. Moves(c, Calm) /\ StepLeft(c)
  BY <1>1, EndsCalm DEF IInv
<1>3. pend' = [pend EXCEPT ![c] = 0]
  BY NoEntry DEF Probe
<1> QED
  BY <1>2, <1>3, PlaceStep DEF Probe

LEMMA OuterReconnectStep ==
  ASSUME IInv, NEW c \in Callers, OuterReconnect(c)
  PROVE  IInv'
<1>1. pc[c] \notin {"eval", "poll"}
  BY DEF OuterReconnect
<1>2. CASE Finish(c, "reconnect failed") /\ UNCHANGED <<phase, attempt>>
  <2>1. Moves(c, {"done"})
    BY <1>2, FinishMoves DEF Outcomes, IInv
  <2>2. Moves(c, Ends)
    BY <2>1, MovesMore DEF Ends
  <2>3. Moves(c, Calm) /\ StepLeft(c)
    BY <2>2, EndsCalm DEF IInv
  <2>4. pend' = [pend EXCEPT ![c] = 0]
    BY <1>1, NoEntry DEF OuterReconnect
  <2> QED
    BY <1>2, <2>3, <2>4, PlaceStep DEF OuterReconnect
<1>3. CASE Again(c, "retry")
  BY <1>1, <1>3, AgainStep DEF OuterReconnect
<1> QED
  BY <1>2, <1>3 DEF OuterReconnect

LEMMA RootsRetryStep ==
  ASSUME IInv, NEW c \in Callers, RootsRetry(c)
  PROVE  IInv'
<1>1. pc[c] \notin {"eval", "poll"}
  BY DEF RootsRetry
<1> QED
  BY <1>1, AgainStep DEF RootsRetry

(* What the reply to a waiting caller may do, the closing of its socket    *)
(* after a context error included.                                         *)
LEMMA ResolvedMoves ==
  ASSUME IInv, NEW c \in Callers, NEW res \in Replies, Resolved(c, res),
         UNCHANGED <<attempt, polls>>
  PROVE  /\ Moves(c, Calm) /\ StepLeft(c) /\ KeepsLive
         /\ sockets' \in [Ids -> {"unborn", "open", "stale", "closing", "dead", "closed"}]
         /\ current' \in 0..MaxSockets
<1> USE DEF IInv
<1>0. 0 \in 0..MaxSockets /\ current \in 0..MaxSockets
  BY BoundsAssumption DEF TypeOK
<1>1. CASE /\ Retries(c) /\ current' = 0 /\ Go(c, "reconnect")
           /\ sockets' = IF ReadyOpen(used[c]) THEN [sockets EXCEPT ![used[c]] = "closing"]
                         ELSE sockets
  <2>1. "reconnect" \in Calm /\ attempt'[c] < MaxRetries
    BY <1>1 DEF Calm, Places, Retries
  <2>2. Moves(c, Calm) /\ pc'[c] = "reconnect"
    BY <1>1, <2>1, GoCalm
  <2>3. StepLeft(c)
    BY <2>1, <2>2 DEF StepLeft
  <2>4. sockets' \in [Ids -> {"unborn", "open", "stale", "closing", "dead", "closed"}]
    BY <1>1 DEF TypeOK
  <2>5. KeepsLive
    BY <1>1 DEF KeepsLive, Live, TypeOK
  <2> QED
    BY <1>0, <1>1, <2>2, <2>3, <2>4, <2>5
<1>2. CASE UNCHANGED linkVars /\ \E e \in Errors : InnerFails(c, e)
  <2>1. Moves(c, Calm) /\ StepLeft(c)
    BY <1>2, FailsMoves, EndsCalm
  <2> QED
    BY <1>0, <1>2, <2>1 DEF TypeOK, KeepsLive, linkVars
<1>3. CASE UNCHANGED linkVars /\ polls[c] < MaxPolls /\ Go(c, "sleep")
  <2>1. "sleep" \in Calm
    BY DEF Calm, Places
  <2>2. Moves(c, Calm) /\ pc'[c] = "sleep"
    BY <1>3, <2>1, GoCalm
  <2>3. StepLeft(c)
    BY <1>3, <2>2 DEF StepLeft
  <2> QED
    BY <1>0, <1>3, <2>2, <2>3 DEF TypeOK, KeepsLive, linkVars
<1>4. CASE UNCHANGED linkVars /\ \E r \in {"value", "roots", "pending", "missing"} : InnerSucceeds(c, r)
  <2>1. Moves(c, {"done", "roots"})
    BY <1>4, SucceedsMoves
  <2>2. {"done", "roots"} \subseteq Calm
    BY DEF Calm, Places
  <2>3. pc'[c] \in {"done", "roots"}
    BY <2>1, ToPlace
  <2>4. Moves(c, Calm) /\ StepLeft(c)
    BY <2>1, <2>2, <2>3, MovesMore DEF StepLeft
  <2> QED
    BY <1>0, <1>4, <2>4 DEF TypeOK, KeepsLive, linkVars
<1>5. \/ UNCHANGED linkVars /\ \E e \in Errors : InnerFails(c, e)
      \/ UNCHANGED linkVars /\ polls[c] < MaxPolls /\ Go(c, "sleep")
      \/ UNCHANGED linkVars /\ \E r \in {"value", "roots", "pending", "missing"} : InnerSucceeds(c, r)
      \/ /\ Retries(c) /\ current' = 0 /\ Go(c, "reconnect")
         /\ sockets' = IF ReadyOpen(used[c]) THEN [sockets EXCEPT ![used[c]] = "closing"]
                       ELSE sockets
  BY DEF Resolved, Errors
<1> QED
  BY <1>1, <1>2, <1>3, <1>4, <1>5

LEMMA AnswerStep ==
  ASSUME IInv, NEW a \in answers, Answer(a)
  PROVE  IInv'
<1>0. a.c \in Callers /\ a.res \in Replies
  BY DEF IInv, TypeOK
<1>1. CASE pend[a.c] = a.n
  <2>1. pend' = [pend EXCEPT ![a.c] = 0] /\ Resolved(a.c, a.res)
    BY <1>1 DEF Answer
  <2>2. /\ UNCHANGED <<phase, attempt, polls, used, serial, from, reqs, appVars>>
        /\ answers' \subseteq answers
    BY DEF Answer
  <2>3. /\ Moves(a.c, Calm) /\ StepLeft(a.c) /\ KeepsLive
        /\ sockets' \in [Ids -> {"unborn", "open", "stale", "closing", "dead", "closed"}]
        /\ current' \in 0..MaxSockets
    BY <1>0, <2>1, <2>2, ResolvedMoves
  <2>4. RestTyped'
    BY <2>2, <2>3, RestType DEF IInv, RestTyped, appVars
  <2>5. OthersKeep(a.c)
    BY <2>2 DEF OthersKeep
  <2> QED
    BY <1>0, <2>1, <2>2, <2>3, <2>4, <2>5, CalmStep
<1>2. CASE pend[a.c] # a.n
  <2>1. RestTyped'
    BY <1>2, RestType DEF Answer, IInv, RestTyped, appVars, linkVars
  <2>2. KeepsLive
    BY <1>2 DEF Answer, KeepsLive, linkVars
  <2> QED
    BY <1>2, <2>1, <2>2, WorldStep DEF Answer
<1> QED
  BY <1>1, <1>2

-----------------------------------------------------------------------------
(* Steps of the connections and of the app                                 *)

LEMMA ConnectStep ==
  ASSUME IInv, NEW s \in Ids, Connect(s)
  PROVE  IInv'
<1>1. s \in 0..MaxSockets
  BY BoundsAssumption DEF Ids
<1>2. RestTyped'
  BY <1>1, RestType DEF IInv, Connect, RestTyped, msgVars, appVars
<1>3. KeepsLive
  BY DEF Connect, KeepsLive, IInv, TypeOK, Live
<1> QED
  BY <1>2, <1>3, WorldStep DEF Connect

LEMMA DropStep ==
  ASSUME IInv, NEW s \in Ids, Drop(s)
  PROVE  IInv'
<1>1. RestTyped'
  BY RestType DEF IInv, Drop, RestTyped, appVars
<1>2. KeepsLive
  BY DEF Drop, KeepsLive, IInv, TypeOK, Live
<1> QED
  BY <1>1, <1>2, WorldStep DEF Drop

(* handleClose: whoever waits on the socket is settled, nobody else is.    *)
LEMMA CloseEventStep ==
  ASSUME IInv, NEW s \in Ids, CloseEvent(s)
  PROVE  IInv'
<1> USE DEF IInv
<1>1. \A c \in Callers :
        /\ pend'[c] = (IF c \in Waiting(s) THEN 0 ELSE pend[c])
        /\ pc'[c] = (IF c \in Waiting(s) THEN "failed" ELSE pc[c])
  BY DEF CloseEvent
<1>2. TypeOK'
  <2>1. pc' \in [Callers -> Places]
    BY DEF CloseEvent, TypeOK, Places
  <2>2. pend' \in [Callers -> Nat]
    BY DEF CloseEvent, TypeOK
  <2>3. current' \in 0..MaxSockets
    BY BoundsAssumption DEF CloseEvent, TypeOK
  <2>4. sockets' \in [Ids -> {"unborn", "open", "stale", "closing", "dead", "closed"}]
    BY DEF CloseEvent, TypeOK
  <2>5. answers' \subseteq answers
    BY DEF CloseEvent
  <2>6. UNCHANGED <<phase, attempt, polls, used, serial, from, endVars, reqs, appVars>>
    BY DEF CloseEvent
  <2> QED
    BY <2>1, <2>2, <2>3, <2>4, <2>5, <2>6 DEF TypeOK, endVars, appVars
<1>3. PendingMatches'
  BY <1>1 DEF CloseEvent, PendingMatches
<1>4. PendingWillEnd'
  <2>1. ASSUME NEW c \in Callers, pend'[c] # 0
        PROVE  used'[c] # 0 /\ sockets'[used'[c]] \in Live
    <3>1. c \notin Waiting(s) /\ pend[c] # 0
      BY <1>1, <2>1
    <3>2. used[c] # s /\ used[c] # 0 /\ sockets[used[c]] \in Live
      BY <3>1 DEF Waiting, PendingWillEnd, Live
    <3>3. used[c] \in Ids
      BY <3>2, BoundsAssumption DEF TypeOK, Ids
    <3> QED
      BY <3>2, <3>3 DEF CloseEvent, TypeOK
  <2> QED
    BY <2>1 DEF PendingWillEnd, Live
<1>5. StepsLeft'
  BY <1>1 DEF CloseEvent, StepsLeft
<1> QED
  BY <1>2, <1>3, <1>4, <1>5

LEMMA WipeType ==
  ASSUME TypeOK, Wipe
  PROVE  slot' \in [Callers -> {"none", "pending", "settled", "taken", "wiped"}]
  BY DEF TypeOK, Wipe

LEMMA ReloadStep ==
  ASSUME IInv, Reload
  PROVE  IInv'
<1>1. RestTyped'
  BY RestType, WipeType DEF IInv, Reload, RestTyped, linkVars, msgVars
<1>2. KeepsLive
  BY DEF Reload, KeepsLive, linkVars
<1> QED
  BY <1>1, <1>2, WorldStep DEF Reload

LEMMA ReplaceTargetStep ==
  ASSUME IInv, ReplaceTarget
  PROVE  IInv'
<1>1. sockets' \in [Ids -> {"unborn", "open", "stale", "closing", "dead", "closed"}]
  BY DEF ReplaceTarget, IInv, TypeOK
<1>2. reqs' \subseteq reqs
  BY DEF ReplaceTarget
<1>3. RestTyped'
  BY <1>1, <1>2, RestType, WipeType DEF IInv, ReplaceTarget, RestTyped
<1>4. KeepsLive
  BY DEF ReplaceTarget, KeepsLive, Live
<1> QED
  BY <1>3, <1>4, WorldStep DEF ReplaceTarget

LEMMA ReplyType ==
  ASSUME TypeOK, NEW q \in reqs, NEW res \in Replies, Reply(q, res)
  PROVE  /\ reqs' \subseteq [c : Callers, n : Nat, ws : Ids, kind : Kinds]
         /\ answers' \subseteq [c : Callers, n : Nat, ws : Ids, res : Replies]
<1>1. [c |-> q.c, n |-> q.n, ws |-> q.ws, res |-> res] \in [c : Callers, n : Nat, ws : Ids, res : Replies]
  BY DEF TypeOK
<1> QED
  BY <1>1 DEF TypeOK, Reply

LEMMA AppRunStep ==
  ASSUME IInv, NEW q \in reqs, AppRun(q)
  PROVE  IInv'
<1> USE DEF IInv
<1>1. /\ reqs' \subseteq [c : Callers, n : Nat, ws : Ids, kind : Kinds]
      /\ answers' \subseteq [c : Callers, n : Nat, ws : Ids, res : Replies]
  <2>1. \E res \in Replies : Reply(q, res)
    BY DEF AppRun, RunExpr, RunRead, RunTake, Replies
  <2> QED
    BY <2>1, ReplyType
<1>2. q.c \in Callers /\ from[q.c] \in Callers
  BY DEF TypeOK
<1>3. slot' \in [Callers -> {"none", "pending", "settled", "taken", "wiped"}]
  BY <1>2 DEF AppRun, RunExpr, RunRead, RunTake, TypeOK
<1>4. runs' \in [Callers -> Nat]
  BY <1>2 DEF AppRun, RunExpr, RunRead, RunTake, TypeOK
<1>5. UNCHANGED <<pc, phase, attempt, polls, used, serial, from, pend, endVars, linkVars>>
  BY DEF AppRun
<1>6. RestTyped'
  BY <1>1, <1>3, <1>4, <1>5, RestType DEF RestTyped, linkVars
<1>7. KeepsLive
  BY <1>5 DEF KeepsLive, linkVars
<1> QED
  BY <1>5, <1>6, <1>7, WorldStep

LEMMA SettleStep ==
  ASSUME IInv, NEW c \in Callers, Settle(c)
  PROVE  IInv'
<1>1. slot' \in [Callers -> {"none", "pending", "settled", "taken", "wiped"}]
  BY DEF Settle, IInv, TypeOK
<1>2. RestTyped'
  BY <1>1, RestType DEF IInv, Settle, RestTyped, linkVars, msgVars
<1>3. KeepsLive
  BY DEF Settle, KeepsLive, linkVars
<1> QED
  BY <1>2, <1>3, WorldStep DEF Settle

-----------------------------------------------------------------------------
(* executeInApp starts with nothing pending.                               *)
THEOREM InitIInv == Init => IInv
<1> SUFFICES ASSUME Init PROVE IInv
  OBVIOUS
<1>0. 0 \in 0..MaxRetries /\ 0 \in 0..MaxPolls /\ 0 \in 0..MaxSockets
  BY BoundsAssumption
<1>1. TypeOK
  BY <1>0 DEF Init, TypeOK, Places, Outcomes
<1>2. PendingMatches /\ PendingWillEnd /\ StepsLeft
  BY DEF Init, PendingMatches, PendingWillEnd, StepsLeft
<1> QED
  BY <1>1, <1>2 DEF IInv

(* Every step of a call, of the connections and of the app keeps it.       *)
THEOREM NextIInv == IInv /\ [Next]_vars => IInv'
<1> SUFFICES ASSUME IInv, [Next]_vars PROVE IInv'
  OBVIOUS
<1>1. ASSUME NEW c \in Callers, CallStep(c) PROVE IInv'
  BY <1>1, StartStep, ResolveStep, EvaluateStep, PollStep, TimeoutStep, DialogStep,
     SocketFailedStep, InnerReconnectStep, NextAttemptStep, RootsRetryStep, ProbeStep,
     OuterReconnectStep DEF CallStep
<1>2. ASSUME NEW c \in Callers, Settle(c) PROVE IInv'
  BY <1>2, SettleStep
<1>3. ASSUME NEW a \in answers, Answer(a) PROVE IInv'
  BY <1>3, AnswerStep
<1>4. ASSUME NEW s \in Ids, Connect(s) \/ Drop(s) \/ CloseEvent(s) PROVE IInv'
  BY <1>4, ConnectStep, DropStep, CloseEventStep
<1>5. CASE Reload \/ ReplaceTarget
  BY <1>5, ReloadStep, ReplaceTargetStep
<1>6. ASSUME NEW q \in reqs, AppRun(q) PROVE IInv'
  BY <1>6, AppRunStep
<1>7. CASE UNCHANGED vars
  <2>1. RestTyped'
    BY <1>7, RestType DEF IInv, vars, RestTyped, linkVars, msgVars, appVars
  <2>2. KeepsLive
    BY <1>7 DEF vars, KeepsLive, linkVars
  <2> QED
    BY <1>7, <2>1, <2>2, WorldStep DEF vars
<1> QED
  BY <1>1, <1>2, <1>3, <1>4, <1>5, <1>6, <1>7 DEF Next

(* A reply, a timer or a close event settles the attempt that runs now,    *)
(* and no caller waits on a socket whose close event is past.              *)
THEOREM ExecutionInvariant == Spec => []IInv
  BY InitIInv, NextIInv, PTL DEF Spec

THEOREM ExecutionTypeOK == Spec => []TypeOK
<1>1. IInv => TypeOK
  BY DEF IInv
<1> QED
  BY <1>1, ExecutionInvariant, PTL

THEOREM EveryWaitEnds == Spec => []WaitsAreAnswered
<1>1. IInv => WaitsAreAnswered
  BY DEF IInv, WaitsAreAnswered
<1> QED
  BY <1>1, ExecutionInvariant, PTL

-----------------------------------------------------------------------------
(* RunsBounded: each caller has sent at most so many expressions as its    *)
(* place, attempt and phase say (Sent); those the app has run and those on *)
(* their way are together no more.                                         *)

(* Places before the expression of the present attempt is sent, and places *)
(* that only the first run reaches.                                        *)
Early == {"idle", "resolve", "boot"}
FirstOnly == {"roots", "probe", "outer"}

Underway(c) == {q \in reqs : q.c = c /\ q.kind = "expr"}
Sent(c) == (IF phase[c] = "first" THEN 0 ELSE MaxRetries + 1) + attempt[c]
           + (IF pc[c] \in Early THEN 0 ELSE 1)

FirstPlaces == \A c \in Callers : pc[c] \in FirstOnly => phase[c] = "first"
Counted == \A c \in Callers : runs[c] + Cardinality(Underway(c)) <= Sent(c)
RunsInv == IInv /\ FirstPlaces /\ IsFiniteSet(reqs) /\ Counted

LEMMA SentNat == ASSUME TypeOK, NEW c \in Callers
                 PROVE  Sent(c) \in Nat /\ runs[c] \in Nat
  BY BoundsAssumption DEF TypeOK, Sent

LEMMA UnderwayCounts ==
  ASSUME IsFiniteSet(reqs), NEW c \in Callers
  PROVE  IsFiniteSet(Underway(c)) /\ Cardinality(Underway(c)) \in Nat
<1>1. Underway(c) \subseteq reqs
  BY DEF Underway
<1> QED
  BY <1>1, FS_Subset, FS_CardinalityType

(* A step that runs nothing and sends no expression.                       *)
Quiet == /\ runs' = runs /\ IsFiniteSet(reqs')
         /\ \A d \in Callers : Underway(d)' \subseteq Underway(d)

LEMMA QuietStep ==
  ASSUME RunsInv, IInv', Quiet, FirstPlaces', \A d \in Callers : Sent(d)' >= Sent(d)
  PROVE  RunsInv'
<1>1. ASSUME NEW d \in Callers PROVE (runs[d] + Cardinality(Underway(d)) <= Sent(d))'
  <2>1. IsFiniteSet(Underway(d)) /\ Cardinality(Underway(d)) \in Nat
    BY UnderwayCounts DEF RunsInv
  <2>2. Cardinality(Underway(d)') <= Cardinality(Underway(d)) /\ Cardinality(Underway(d)') \in Nat
    BY <2>1, FS_Subset, FS_CardinalityType DEF Quiet
  <2>3. Sent(d) \in Nat /\ runs[d] \in Nat
    BY SentNat DEF RunsInv, IInv
  <2>4. Sent(d)' \in Nat
    BY BoundsAssumption DEF IInv, TypeOK, Sent
  <2>5. runs[d] + Cardinality(Underway(d)) <= Sent(d) /\ runs'[d] = runs[d] /\ Sent(d)' >= Sent(d)
    BY DEF RunsInv, Counted, Quiet
  <2> QED
    BY <2>2, <2>3, <2>4, <2>5, <2>1
<1> QED
  BY <1>1 DEF RunsInv, Counted, Quiet

(* A step of one caller, to a place past the sending.                      *)
LEMMA LateStep ==
  ASSUME RunsInv, IInv', Quiet, NEW c \in Callers, Moves(c, Places \ Early),
         pc'[c] \in FirstOnly => phase[c] = "first", UNCHANGED <<phase, attempt>>
  PROVE  RunsInv'
<1>1. PICK p \in Places \ Early : pc' = [pc EXCEPT ![c] = p]
  BY DEF Moves
<1>2. \A d \in Callers : pc'[d] = IF d = c THEN p ELSE pc[d]
  BY <1>1 DEF RunsInv, IInv, TypeOK
<1>3. FirstPlaces'
  BY <1>2 DEF RunsInv, FirstPlaces
<1>4. ASSUME NEW d \in Callers PROVE Sent(d)' >= Sent(d)
  <2>1. attempt[d] \in Nat
    BY BoundsAssumption DEF RunsInv, IInv, TypeOK
  <2>2. pc'[d] \in Early => pc[d] \in Early
    BY <1>2
  <2> QED
    BY <2>1, <2>2, BoundsAssumption DEF Sent
<1> QED
  BY <1>3, <1>4, QuietStep

(* A step of one caller between places before the sending.                 *)
LEMMA EarlyStep ==
  ASSUME RunsInv, IInv', Quiet, NEW c \in Callers, NEW p \in Early, pc[c] \in Early,
         pc' = [pc EXCEPT ![c] = p], UNCHANGED <<phase, attempt>>
  PROVE  RunsInv'
<1>2. \A d \in Callers : pc'[d] = IF d = c THEN p ELSE pc[d]
  BY DEF RunsInv, IInv, TypeOK
<1>3. FirstPlaces'
  BY <1>2 DEF RunsInv, FirstPlaces, Early, FirstOnly
<1>4. ASSUME NEW d \in Callers PROVE Sent(d)' >= Sent(d)
  <2>1. attempt[d] \in Nat
    BY BoundsAssumption DEF RunsInv, IInv, TypeOK
  <2>2. pc'[d] \in Early <=> pc[d] \in Early
    BY <1>2
  <2> QED
    BY <2>1, <2>2, BoundsAssumption DEF Sent
<1> QED
  BY <1>3, <1>4, QuietStep

(* Steps that leave the callers where they are.                            *)
LEMMA StillStep ==
  ASSUME RunsInv, IInv', Quiet, UNCHANGED <<pc, phase, attempt>>
  PROVE  RunsInv'
<1>1. FirstPlaces'
  BY DEF RunsInv, FirstPlaces
<1>2. ASSUME NEW d \in Callers PROVE Sent(d)' >= Sent(d)
  <2>1. attempt[d] \in Nat
    BY BoundsAssumption DEF RunsInv, IInv, TypeOK
  <2> QED
    BY <2>1, BoundsAssumption DEF Sent
<1> QED
  BY <1>1, <1>2, QuietStep

LEMMA SameQuiet ==
  ASSUME RunsInv, runs' = runs, reqs' \subseteq reqs
  PROVE  Quiet
<1>1. IsFiniteSet(reqs')
  BY FS_Subset DEF RunsInv
<1> QED
  BY <1>1 DEF Quiet, Underway

-----------------------------------------------------------------------------
(* Where a failure takes a caller: only the first run probes or reconnects. *)
Settled(c) == Moves(c, Places \ Early) /\ (pc'[c] \in FirstOnly => phase[c] = "first")

LEMMA FinishSettles ==
  ASSUME TypeOK, NEW c \in Callers, NEW o \in Outcomes, Finish(c, o)
  PROVE  Settled(c)
<1>1. Moves(c, {"done"})
  BY FinishMoves
<1>2. pc'[c] \in {"done"}
  BY <1>1, ToPlace
<1>3. Moves(c, Places \ Early)
  BY <1>1, MovesMore DEF Places, Early
<1> QED
  BY <1>2, <1>3 DEF Settled, FirstOnly

LEMMA FirstSettles ==
  ASSUME TypeOK, NEW c \in Callers, NEW S, S \subseteq Places \ Early, Moves(c, S),
         phase[c] = "first"
  PROVE  Settled(c)
  BY MovesMore DEF Settled

LEMMA FailsSettle ==
  ASSUME TypeOK, NEW c \in Callers, NEW e \in Errors, InnerFails(c, e)
  PROVE  Settled(c)
<1>1. CASE phase[c] = "first"
  <2>1. Moves(c, Ends)
    BY FailsMoves
  <2> QED
    BY <1>1, <2>1, FirstSettles DEF Ends, Places, Early
<1>2. CASE phase[c] # "first"
  <2>1. Finish(c, "roots") \/ Finish(c, "retry failed")
    BY <1>2 DEF InnerFails
  <2> QED
    BY <2>1, FinishSettles DEF Outcomes
<1> QED
  BY <1>1, <1>2

LEMMA SucceedsSettles ==
  ASSUME TypeOK, NEW c \in Callers, NEW r \in {"value", "roots", "pending", "missing"},
         InnerSucceeds(c, r)
  PROVE  Settled(c)
<1>1. CASE r = "roots" /\ phase[c] = "first"
  <2>1. Moves(c, {"roots"})
    BY <1>1, GoMoves DEF InnerSucceeds
  <2> QED
    BY <1>1, <2>1, FirstSettles DEF Places, Early
<1>2. CASE ~(r = "roots" /\ phase[c] = "first")
  BY <1>2, FinishSettles DEF InnerSucceeds, Outcomes
<1> QED
  BY <1>1, <1>2

LEMMA GoSettles ==
  ASSUME TypeOK, NEW c \in Callers, NEW p \in Places \ Early, p \notin FirstOnly, Go(c, p)
  PROVE  Settled(c)
<1>1. Moves(c, {p})
  BY GoMoves
<1>2. pc'[c] \in {p}
  BY <1>1, ToPlace
<1> QED
  BY <1>1, <1>2, MovesMore DEF Settled

LEMMA SettledStep ==
  ASSUME RunsInv, IInv', Quiet, NEW c \in Callers, Settled(c), UNCHANGED <<phase, attempt>>
  PROVE  RunsInv'
  BY LateStep DEF Settled

-----------------------------------------------------------------------------
(* Steps of a caller                                                       *)

LEMMA StartRuns ==
  ASSUME RunsInv, IInv', NEW c \in Callers, Start(c)
  PROVE  RunsInv'
<1>1. Quiet
  BY SameQuiet DEF Start, msgVars, appVars
<1>2. pc[c] \in Early /\ "resolve" \in Early /\ pc' = [pc EXCEPT ![c] = "resolve"]
  BY DEF Start, Go, Early
<1> QED
  BY <1>1, <1>2, EarlyStep DEF Start

LEMMA ResolveRuns ==
  ASSUME RunsInv, IInv', NEW c \in Callers, Resolve(c)
  PROVE  RunsInv'
<1>1. Quiet /\ UNCHANGED <<phase, attempt>> /\ pc[c] \in Early
  BY SameQuiet DEF Resolve, msgVars, appVars, Early
<1>2. CASE Go(c, "boot")
  <2>1. "boot" \in Early /\ pc' = [pc EXCEPT ![c] = "boot"]
    BY <1>2 DEF Go, Early
  <2> QED
    BY <1>1, <2>1, EarlyStep
<1>3. CASE Finish(c, "thrown")
  <2>1. Settled(c)
    BY <1>3, FinishSettles DEF Outcomes, RunsInv, IInv
  <2> QED
    BY <1>1, <2>1, SettledStep
<1>4. CASE Go(c, "reconnect")
  <2>1. Settled(c)
    BY <1>4, GoSettles DEF Places, Early, FirstOnly, RunsInv, IInv
  <2> QED
    BY <1>1, <2>1, SettledStep
<1>5. CASE InnerFails(c, "no apps")
  <2>1. Settled(c)
    BY <1>5, FailsSettle DEF Errors, RunsInv, IInv
  <2> QED
    BY <1>1, <2>1, SettledStep
<1> QED
  BY <1>2, <1>3, <1>4, <1>5 DEF Resolve

(* executeCDP that sends no expression: a poll, a collector, or a socket   *)
(* that is no longer open.                                                 *)
LEMMA UnsentRuns ==
  ASSUME RunsInv, IInv', NEW c \in Callers, InnerFails(c, "ws closed"),
         UNCHANGED <<phase, attempt, reqs, runs>>
  PROVE  RunsInv'
<1>1. Quiet
  BY SameQuiet
<1>2. Settled(c)
  BY FailsSettle DEF Errors, RunsInv, IInv
<1> QED
  BY <1>1, <1>2, SettledStep

LEMMA OtherSendRuns ==
  ASSUME RunsInv, IInv', NEW c \in Callers, NEW q, q.kind # "expr",
         reqs' = reqs \cup {q}, NEW place \in {"eval", "poll"}, Go(c, place),
         UNCHANGED <<phase, attempt, runs>>
  PROVE  RunsInv'
<1>1. IsFiniteSet(reqs')
  BY FS_AddElement DEF RunsInv
<1>2. Quiet
  BY <1>1 DEF Quiet, Underway
<1>3. Settled(c)
  BY GoSettles DEF Places, Early, FirstOnly, RunsInv, IInv
<1> QED
  BY <1>2, <1>3, SettledStep

(* The expression of an attempt is sent.                                   *)
LEMMA ExprSendRuns ==
  ASSUME RunsInv, IInv', NEW c \in Callers, pc[c] = "boot", NEW q, q.c = c,
         reqs' = reqs \cup {q}, Go(c, "eval"), UNCHANGED <<phase, attempt, runs>>
  PROVE  RunsInv'
<1>1. IsFiniteSet(reqs')
  BY FS_AddElement DEF RunsInv
<1>2. \A d \in Callers : pc'[d] = IF d = c THEN "eval" ELSE pc[d]
  BY DEF RunsInv, IInv, TypeOK, Go
<1>3. FirstPlaces'
  BY <1>2 DEF RunsInv, FirstPlaces, FirstOnly
<1>4. ASSUME NEW d \in Callers PROVE (runs[d] + Cardinality(Underway(d)) <= Sent(d))'
  <2>1. IsFiniteSet(Underway(d)) /\ Cardinality(Underway(d)) \in Nat
    BY UnderwayCounts DEF RunsInv
  <2>2. IsFiniteSet(Underway(d) \cup {q})
        /\ Cardinality(Underway(d) \cup {q}) <= Cardinality(Underway(d)) + 1
        /\ Cardinality(Underway(d) \cup {q}) \in Nat
    BY <2>1, FS_AddElement
  <2>3. Sent(d) \in Nat /\ runs[d] \in Nat /\ attempt[d] \in Nat
    BY SentNat, BoundsAssumption DEF RunsInv, IInv, TypeOK
  <2>4. runs[d] + Cardinality(Underway(d)) <= Sent(d)
    BY DEF RunsInv, Counted
  <2>5. CASE d = c
    <3>1. Underway(d)' \subseteq Underway(d) \cup {q}
      BY DEF Underway
    <3>2. Cardinality(Underway(d)') <= Cardinality(Underway(d)) + 1 /\ Cardinality(Underway(d)') \in Nat
      BY <3>1, <2>1, <2>2, FS_Subset, FS_CardinalityType
    <3>3. Sent(d)' = Sent(d) + 1
      BY <2>3, <2>5, <1>2, BoundsAssumption DEF Sent, Early
    <3>4. runs'[d] = runs[d]
      OBVIOUS
    <3> QED
      BY <2>1, <2>3, <2>4, <3>2, <3>3, <3>4
  <2>6. CASE d # c
    <3>1. Underway(d)' = Underway(d)
      BY <2>6 DEF Underway
    <3>2. Sent(d)' = Sent(d)
      BY <2>6, <1>2 DEF Sent
    <3> QED
      BY <2>4, <3>1, <3>2
  <2> QED
    BY <2>5, <2>6
<1> QED
  BY <1>1, <1>3, <1>4 DEF RunsInv, Counted

LEMMA EvaluateRuns ==
  ASSUME RunsInv, IInv', NEW c \in Callers, Evaluate(c)
  PROVE  RunsInv'
<1>0. UNCHANGED <<phase, attempt, runs>> /\ pc[c] = "boot"
  BY DEF Evaluate, appVars
<1>1. CASE InnerFails(c, "ws closed") /\ UNCHANGED reqs
  BY <1>0, <1>1, UnsentRuns
<1>2. CASE /\ Go(c, "eval")
           /\ \E q \in [c : {c}, n : {serial[c] + 1}, ws : {used[c]}, kind : Kinds] : reqs' = reqs \cup {q}
  <2>1. PICK q \in [c : {c}, n : {serial[c] + 1}, ws : {used[c]}, kind : Kinds] : reqs' = reqs \cup {q}
    BY <1>2
  <2>2. q.c = c
    BY <2>1
  <2> QED
    BY <1>0, <1>2, <2>1, <2>2, ExprSendRuns
<1> QED
  BY <1>1, <1>2 DEF Evaluate, Send, Kinds

LEMMA PollRuns ==
  ASSUME RunsInv, IInv', NEW c \in Callers, Poll(c)
  PROVE  RunsInv'
<1>0. UNCHANGED <<phase, attempt, runs>>
  BY DEF Poll, appVars
<1>1. CASE InnerFails(c, "ws closed") /\ UNCHANGED reqs
  BY <1>0, <1>1, UnsentRuns
<1>2. CASE /\ Go(c, "poll")
           /\ \E q \in [c : {c}, n : {serial[c] + 1}, ws : {used[c]}, kind : {"read"}] : reqs' = reqs \cup {q}
  <2>1. PICK q \in [c : {c}, n : {serial[c] + 1}, ws : {used[c]}, kind : {"read"}] : reqs' = reqs \cup {q}
    BY <1>2
  <2>2. q.kind # "expr"
    BY <2>1
  <2> QED
    BY <1>0, <1>2, <2>1, <2>2, OtherSendRuns
<1> QED
  BY <1>1, <1>2 DEF Poll, Send

(* A caller that fails, with the error of a timer, a dialog, a closed      *)
(* socket or a reconnect that brought nothing.                             *)
LEMMA FailingRuns ==
  ASSUME RunsInv, IInv', NEW c \in Callers,
         Timeout(c) \/ DialogOpened(c) \/ SocketFailed(c)
  PROVE  RunsInv'
<1>1. UNCHANGED <<phase, attempt, reqs, runs>>
  BY DEF Timeout, DialogOpened, SocketFailed, msgVars, appVars
<1>2. \E e \in Errors : InnerFails(c, e)
  BY DEF Timeout, DialogOpened, SocketFailed, Errors
<1>3. Settled(c)
  BY <1>2, FailsSettle DEF RunsInv, IInv
<1>4. Quiet
  BY <1>1, SameQuiet
<1> QED
  BY <1>1, <1>3, <1>4, SettledStep

LEMMA InnerReconnectRuns ==
  ASSUME RunsInv, IInv', NEW c \in Callers, InnerReconnect(c)
  PROVE  RunsInv'
<1>1. Quiet /\ UNCHANGED <<phase, attempt>>
  BY SameQuiet DEF InnerReconnect, msgVars, appVars
<1>2. CASE Go(c, "backoff")
  <2>1. Settled(c)
    BY <1>2, GoSettles DEF Places, Early, FirstOnly, RunsInv, IInv
  <2> QED
    BY <1>1, <2>1, SettledStep
<1>3. CASE \E e \in Errors : InnerFails(c, e)
  <2>1. Settled(c)
    BY <1>3, FailsSettle DEF RunsInv, IInv
  <2> QED
    BY <1>1, <2>1, SettledStep
<1>4. Go(c, "backoff") \/ \E e \in Errors : InnerFails(c, e)
  BY DEF InnerReconnect, Errors
<1> QED
  BY <1>2, <1>3, <1>4

(* The next attempt may send what the last has sent.                       *)
LEMMA NextAttemptRuns ==
  ASSUME RunsInv, IInv', NEW c \in Callers, NextAttempt(c)
  PROVE  RunsInv'
<1>1. Quiet
  BY SameQuiet DEF NextAttempt, msgVars, appVars
<1>2. \A d \in Callers : /\ pc'[d] = (IF d = c THEN "resolve" ELSE pc[d])
                         /\ attempt'[d] = (IF d = c THEN attempt[d] + 1 ELSE attempt[d])
  BY DEF NextAttempt, Go, RunsInv, IInv, TypeOK
<1>3. phase' = phase /\ pc[c] = "backoff"
  BY DEF NextAttempt
<1>4. FirstPlaces'
  BY <1>2, <1>3 DEF RunsInv, FirstPlaces, FirstOnly
<1>5. ASSUME NEW d \in Callers PROVE Sent(d)' >= Sent(d)
  <2>1. attempt[d] \in Nat
    BY BoundsAssumption DEF RunsInv, IInv, TypeOK
  <2> QED
    BY <1>2, <1>3, <2>1, BoundsAssumption DEF Sent, Early
<1> QED
  BY <1>1, <1>4, <1>5, QuietStep

(* The first run has sent at most MaxRetries + 1, and it happens once.     *)
LEMMA AgainRuns ==
  ASSUME RunsInv, IInv', NEW c \in Callers, NEW which \in {"roots", "retry"},
         Again(c, which), pc[c] \in FirstOnly, UNCHANGED <<reqs, runs>>
  PROVE  RunsInv'
<1>1. Quiet
  BY SameQuiet
<1>2. \A d \in Callers : /\ pc'[d] = (IF d = c THEN "resolve" ELSE pc[d])
                         /\ attempt'[d] = (IF d = c THEN 0 ELSE attempt[d])
                         /\ phase'[d] = (IF d = c THEN which ELSE phase[d])
  BY DEF Again, Go, RunsInv, IInv, TypeOK
<1>3. phase[c] = "first"
  BY DEF RunsInv, FirstPlaces
<1>4. FirstPlaces'
  BY <1>2 DEF RunsInv, FirstPlaces, FirstOnly
<1>5. ASSUME NEW d \in Callers PROVE Sent(d)' >= Sent(d)
  <2>1. attempt[d] \in Nat /\ attempt[d] <= MaxRetries /\ MaxRetries \in Nat
    BY BoundsAssumption DEF RunsInv, IInv, TypeOK
  <2>2. CASE d = c
    BY <1>2, <1>3, <2>1, <2>2 DEF Sent, Early, FirstOnly
  <2>3. CASE d # c
    BY <1>2, <2>1, <2>3 DEF Sent
  <2> QED
    BY <2>2, <2>3
<1> QED
  BY <1>1, <1>4, <1>5, QuietStep

LEMMA RootsRetryRuns ==
  ASSUME RunsInv, IInv', NEW c \in Callers, RootsRetry(c)
  PROVE  RunsInv'
  BY AgainRuns DEF RootsRetry, FirstOnly, msgVars, appVars

LEMMA ProbeRuns ==
  ASSUME RunsInv, IInv', NEW c \in Callers, Probe(c)
  PROVE  RunsInv'
<1>1. Quiet /\ UNCHANGED <<phase, attempt>>
  BY SameQuiet DEF Probe, msgVars, appVars
<1>2. phase[c] = "first"
  BY DEF Probe, RunsInv, FirstPlaces, FirstOnly
<1>3. CASE Finish(c, "error")
  <2>1. Settled(c)
    BY <1>3, FinishSettles DEF Outcomes, RunsInv, IInv
  <2> QED
    BY <1>1, <2>1, SettledStep
<1>4. CASE TransportFailure(c)
  <2>1. Moves(c, Ends)
    BY <1>4, TransportMoves DEF RunsInv, IInv
  <2>2. Settled(c)
    BY <1>2, <2>1, FirstSettles DEF Ends, Places, Early, RunsInv, IInv
  <2> QED
    BY <1>1, <2>2, SettledStep
<1> QED
  BY <1>3, <1>4 DEF Probe

LEMMA OuterReconnectRuns ==
  ASSUME RunsInv, IInv', NEW c \in Callers, OuterReconnect(c)
  PROVE  RunsInv'
<1>1. UNCHANGED <<reqs, runs>> /\ pc[c] \in FirstOnly
  BY DEF OuterReconnect, FirstOnly, msgVars, appVars
<1>2. CASE Finish(c, "reconnect failed") /\ UNCHANGED <<phase, attempt>>
  <2>1. Settled(c)
    BY <1>2, FinishSettles DEF Outcomes, RunsInv, IInv
  <2>2. Quiet
    BY <1>1, SameQuiet
  <2> QED
    BY <1>2, <2>1, <2>2, SettledStep
<1>3. CASE Again(c, "retry")
  BY <1>1, <1>3, AgainRuns
<1> QED
  BY <1>2, <1>3 DEF OuterReconnect

LEMMA AnswerRuns ==
  ASSUME RunsInv, IInv', NEW a \in answers, Answer(a)
  PROVE  RunsInv'
<1>0. a.c \in Callers
  BY DEF RunsInv, IInv, TypeOK
<1>1. Quiet /\ UNCHANGED <<phase, attempt>>
  BY SameQuiet DEF Answer, appVars
<1>2. CASE UNCHANGED pc
  BY <1>1, <1>2, StillStep
<1>3. CASE Go(a.c, "reconnect") \/ Go(a.c, "sleep")
  <2>1. Settled(a.c)
    BY <1>0, <1>3, GoSettles DEF Places, Early, FirstOnly, RunsInv, IInv
  <2> QED
    BY <1>0, <1>1, <2>1, SettledStep
<1>4. CASE \E e \in Errors : InnerFails(a.c, e)
  <2>1. Settled(a.c)
    BY <1>0, <1>4, FailsSettle DEF RunsInv, IInv
  <2> QED
    BY <1>0, <1>1, <2>1, SettledStep
<1>5. CASE \E r \in {"value", "roots", "pending", "missing"} : InnerSucceeds(a.c, r)
  <2>1. Settled(a.c)
    BY <1>0, <1>5, SucceedsSettles DEF RunsInv, IInv
  <2> QED
    BY <1>0, <1>1, <2>1, SettledStep
<1>6. UNCHANGED pc \/ Resolved(a.c, a.res)
  BY DEF Answer
<1>7. Resolved(a.c, a.res) =>
        \/ Go(a.c, "reconnect") \/ Go(a.c, "sleep")
        \/ \E e \in Errors : InnerFails(a.c, e)
        \/ \E r \in {"value", "roots", "pending", "missing"} : InnerSucceeds(a.c, r)
  BY DEF Resolved, Errors
<1> QED
  BY <1>2, <1>3, <1>4, <1>5, <1>6, <1>7

-----------------------------------------------------------------------------
(* Steps of the connections and of the app                                 *)

LEMMA CloseEventRuns ==
  ASSUME RunsInv, IInv', NEW s \in Ids, CloseEvent(s)
  PROVE  RunsInv'
<1>1. Quiet /\ UNCHANGED <<phase, attempt>>
  BY SameQuiet DEF CloseEvent, appVars
<1>2. \A d \in Callers : pc'[d] \in {pc[d], "failed"}
  BY DEF CloseEvent
<1>3. FirstPlaces'
  BY <1>1, <1>2 DEF RunsInv, FirstPlaces, FirstOnly
<1>4. ASSUME NEW d \in Callers PROVE Sent(d)' >= Sent(d)
  <2>1. attempt[d] \in Nat
    BY BoundsAssumption DEF RunsInv, IInv, TypeOK
  <2>2. pc'[d] \in Early => pc[d] \in Early
    BY <1>2 DEF Early
  <2> QED
    BY <1>1, <2>1, <2>2, BoundsAssumption DEF Sent
<1> QED
  BY <1>1, <1>3, <1>4, QuietStep

LEMMA LinkRuns ==
  ASSUME RunsInv, IInv',
         \/ \E s \in Ids : Connect(s) \/ Drop(s)
         \/ Reload \/ ReplaceTarget
         \/ \E c \in Callers : Settle(c)
  PROVE  RunsInv'
<1>1. runs' = runs /\ reqs' \subseteq reqs /\ UNCHANGED <<pc, phase, attempt>>
  BY DEF Connect, Drop, Reload, ReplaceTarget, Settle, Wipe, msgVars, appVars
<1>2. Quiet
  BY <1>1, SameQuiet
<1> QED
  BY <1>1, <1>2, StillStep

(* The app runs an expression: one underway less.                          *)
LEMMA RunExprRuns ==
  ASSUME RunsInv, IInv', NEW q \in reqs, q.kind = "expr", RunExpr(q),
         UNCHANGED <<pc, phase, attempt>>
  PROVE  RunsInv'
<1>0. q.c \in Callers
  BY DEF RunsInv, IInv, TypeOK
<1>1. reqs' = reqs \ {q}
  BY DEF RunExpr, Reply
<1>2. IsFiniteSet(reqs')
  BY <1>1, FS_RemoveElement DEF RunsInv
<1>3. FirstPlaces'
  BY DEF RunsInv, FirstPlaces
<1>4. \A d \in Callers : runs'[d] = IF d = q.c THEN runs[d] + 1 ELSE runs[d]
  BY DEF RunExpr, RunsInv, IInv, TypeOK
<1>5. ASSUME NEW d \in Callers PROVE (runs[d] + Cardinality(Underway(d)) <= Sent(d))'
  <2>1. IsFiniteSet(Underway(d)) /\ Cardinality(Underway(d)) \in Nat
    BY UnderwayCounts DEF RunsInv
  <2>2. runs[d] + Cardinality(Underway(d)) <= Sent(d) /\ runs[d] \in Nat /\ Sent(d) \in Nat
    BY SentNat DEF RunsInv, IInv, Counted
  <2>3. Sent(d)' = Sent(d)
    BY DEF Sent
  <2>4. CASE d = q.c
    <3>1. Underway(d)' = Underway(d) \ {q} /\ q \in Underway(d)
      BY <1>1, <2>4 DEF Underway
    <3>2. Cardinality(Underway(d)') = Cardinality(Underway(d)) - 1
      BY <2>1, <3>1, FS_RemoveElement
    <3> QED
      BY <1>4, <2>1, <2>2, <2>3, <2>4, <3>2
  <2>5. CASE d # q.c
    <3>1. Underway(d)' = Underway(d)
      BY <1>1, <2>5 DEF Underway
    <3> QED
      BY <1>4, <2>2, <2>3, <2>5, <3>1
  <2> QED
    BY <2>4, <2>5
<1> QED
  BY <1>2, <1>3, <1>5 DEF RunsInv, Counted

LEMMA AppRunRuns ==
  ASSUME RunsInv, IInv', NEW q \in reqs, AppRun(q)
  PROVE  RunsInv'
<1>1. UNCHANGED <<pc, phase, attempt>>
  BY DEF AppRun
<1>2. CASE q.kind = "expr" /\ RunExpr(q)
  BY <1>1, <1>2, RunExprRuns
<1>3. CASE RunRead(q) \/ RunTake(q)
  <2>1. runs' = runs /\ reqs' \subseteq reqs
    BY <1>3 DEF RunRead, RunTake, Reply
  <2>2. Quiet
    BY <2>1, SameQuiet
  <2> QED
    BY <1>1, <2>2, StillStep
<1> QED
  BY <1>2, <1>3 DEF AppRun

-----------------------------------------------------------------------------
(* Nobody has asked yet and the app has run nothing.                       *)
THEOREM InitRuns == Init => RunsInv
<1> SUFFICES ASSUME Init PROVE RunsInv
  OBVIOUS
<1>1. IInv
  BY InitIInv
<1>2. FirstPlaces
  BY DEF Init, FirstPlaces
<1>3. IsFiniteSet(reqs)
  BY FS_EmptySet DEF Init
<1>4. ASSUME NEW c \in Callers PROVE runs[c] + Cardinality(Underway(c)) <= Sent(c)
  <2>1. Underway(c) = {}
    BY DEF Init, Underway
  <2>2. Cardinality(Underway(c)) = 0
    BY <2>1, FS_EmptySet
  <2> QED
    BY <2>2 DEF Init, Sent, Early
<1> QED
  BY <1>1, <1>2, <1>3, <1>4 DEF RunsInv, Counted

(* Every step of a call, of the connections and of the app keeps the count. *)
THEOREM NextRuns == RunsInv /\ [Next]_vars => RunsInv'
<1> SUFFICES ASSUME RunsInv, [Next]_vars PROVE RunsInv'
  OBVIOUS
<1>0. IInv'
  BY NextIInv DEF RunsInv
<1>1. ASSUME NEW c \in Callers, CallStep(c) PROVE RunsInv'
  BY <1>0, <1>1, StartRuns, ResolveRuns, EvaluateRuns, PollRuns, FailingRuns,
     InnerReconnectRuns, NextAttemptRuns, RootsRetryRuns, ProbeRuns, OuterReconnectRuns
     DEF CallStep
<1>2. CASE \/ \E s \in Ids : Connect(s) \/ Drop(s)
           \/ Reload \/ ReplaceTarget
           \/ \E c \in Callers : Settle(c)
  BY <1>0, <1>2, LinkRuns
<1>3. ASSUME NEW a \in answers, Answer(a) PROVE RunsInv'
  BY <1>0, <1>3, AnswerRuns
<1>4. ASSUME NEW s \in Ids, CloseEvent(s) PROVE RunsInv'
  BY <1>0, <1>4, CloseEventRuns
<1>5. ASSUME NEW q \in reqs, AppRun(q) PROVE RunsInv'
  BY <1>0, <1>5, AppRunRuns
<1>6. CASE UNCHANGED vars
  <2>1. runs' = runs /\ reqs' \subseteq reqs /\ UNCHANGED <<pc, phase, attempt>>
    BY <1>6 DEF vars, msgVars, appVars
  <2>2. Quiet
    BY <2>1, SameQuiet
  <2> QED
    BY <1>0, <2>1, <2>2, StillStep
<1> QED
  BY <1>1, <1>2, <1>3, <1>4, <1>5, <1>6 DEF Next

(* The app evaluates one caller's expression at most twice per attempt of  *)
(* a run, with the requests still on their way counted in: neither the     *)
(* retries inside executeInAppInner nor those of executeInApp around it    *)
(* renew one another.                                                      *)
THEOREM EvaluationsBounded == Spec => []RunsBounded
<1>1. RunsInv => RunsBounded
  <2> SUFFICES ASSUME RunsInv, NEW c \in Callers PROVE runs[c] <= 2 * (MaxRetries + 1)
    BY DEF RunsBounded
  <2>1. Cardinality(Underway(c)) \in Nat /\ runs[c] + Cardinality(Underway(c)) <= Sent(c)
    BY UnderwayCounts DEF RunsInv, Counted
  <2>2. attempt[c] \in 0..MaxRetries /\ MaxRetries \in Nat /\ runs[c] \in Nat
    BY BoundsAssumption DEF RunsInv, IInv, TypeOK
  <2>3. Sent(c) <= 2 * (MaxRetries + 1) /\ Sent(c) \in Nat
    BY <2>2 DEF Sent
  <2> QED
    BY <2>1, <2>2, <2>3
<1>2. RunsInv /\ [Next]_vars => RunsInv'
  BY NextRuns
<1> QED
  BY <1>1, <1>2, InitRuns, PTL DEF Spec

-----------------------------------------------------------------------------
(* NoRerunWhileAnswerable: what a caller about to evaluate may still have   *)
(* under way.                                                               *)

(* Messages are numbered by their caller: none is of a later request, none *)
(* travels on a socket that was never connected, and the one a caller      *)
(* waits for went over the socket it waits on.                             *)
Numbered == \A m \in reqs \cup answers :
  /\ m.n # 0 /\ m.n <= serial[m.c]
  /\ sockets[m.ws] # "unborn"
  /\ m.n = pend[m.c] => m.ws = used[m.c]

(* A request and its answer are one message.                               *)
OneMessage ==
  /\ \A p, q \in reqs : p.c = q.c /\ p.n = q.n => p = q
  /\ \A a, b \in answers : a.c = b.c /\ a.n = b.n => a = b
  /\ \A q \in reqs, a \in answers : ~(q.c = a.c /\ q.n = a.n)

(* What may still be answered over the connection that serves the device   *)
(* is what a caller waits for, or what it gave up and now asks Metro       *)
(* about; a caller about to evaluate has nothing on its own socket either. *)
Answerable(m) == sockets[m.ws] = "open"
GivenUp == \A m \in reqs \cup answers : Answerable(m) =>
  /\ m.ws = current => \/ m.n = pend[m.c]
                       \/ pc[m.c] = "probe" /\ m.ws = used[m.c]
                       \/ pc[m.c] = "done"
  /\ pc[m.c] = "boot" => m.ws # used[m.c]

RerunInv == IInv /\ Numbered /\ OneMessage /\ GivenUp

LEMMA MessageType ==
  ASSUME TypeOK, NEW m \in reqs \cup answers
  PROVE  m.c \in Callers /\ m.n \in Nat /\ m.ws \in Ids
  BY DEF TypeOK

(* Nothing is sent, and no socket is opened.                               *)
Shrinks == reqs' \subseteq reqs /\ answers' \subseteq answers /\ serial' = serial
Fades == \A s \in Ids : /\ sockets'[s] = "open" => sockets[s] = "open"
                        /\ sockets[s] # "unborn" => sockets'[s] # "unborn"

(* Entries of pendingExecutions are kept or deleted.                       *)
Forgets == \A d \in Callers :
  pend'[d] = 0 \/ (pend'[d] = pend[d] /\ used'[d] = used[d])

LEMMA ShrinkStep ==
  ASSUME RerunInv, Shrinks, Forgets,
         \A s \in Ids : sockets[s] # "unborn" => sockets'[s] # "unborn"
  PROVE  Numbered' /\ OneMessage'
<1>1. ASSUME NEW m \in reqs' \cup answers'
      PROVE  /\ m.n # 0 /\ m.n <= serial'[m.c]
             /\ sockets'[m.ws] # "unborn"
             /\ m.n = pend'[m.c] => m.ws = used'[m.c]
  <2>1. m \in reqs \cup answers
    BY DEF Shrinks
  <2>2. m.c \in Callers /\ m.ws \in Ids
    BY <2>1, MessageType DEF RerunInv, IInv
  <2> QED
    BY <2>1, <2>2 DEF RerunInv, Numbered, Shrinks, Forgets
<1>2. OneMessage'
  BY DEF Shrinks, RerunInv, OneMessage
<1> QED
  BY <1>1, <1>2 DEF Numbered

(* A caller's own messages that could still be answered where the device   *)
(* is served: none is left.                                                *)
Clear(c) == \A m \in reqs \cup answers : m.c = c /\ Answerable(m) => m.ws # current

LEMMA IdleClear ==
  ASSUME RerunInv, NEW c \in Callers, pend[c] = 0, pc[c] \notin {"probe", "done"}
  PROVE  Clear(c)
  BY DEF RerunInv, Numbered, GivenUp, Clear

(* What caller c leaves under way when it moves.                           *)
Leaves(c) == \A m \in reqs \cup answers : m.c = c /\ Answerable(m) =>
  /\ m.ws = current => pc[c] = "done" \/ (pc[c] = "probe" /\ m.ws = used[c])
  /\ pc[c] = "boot" => m.ws # used[c]

LEMMA CallerLeaves ==
  ASSUME RerunInv, IInv', NEW c \in Callers, Shrinks, Fades, current' \in {0, current},
         pend' = [pend EXCEPT ![c] = 0],
         \A d \in Callers \ {c} : pc'[d] = pc[d] /\ used'[d] = used[d], Leaves(c)'
  PROVE  RerunInv'
<1>1. \A d \in Callers : pend'[d] = IF d = c THEN 0 ELSE pend[d]
  BY DEF RerunInv, IInv, TypeOK
<1>2. Forgets
  BY <1>1 DEF Forgets
<1>3. Numbered' /\ OneMessage'
  BY <1>2, ShrinkStep DEF Fades
<1>4. ASSUME NEW m \in reqs' \cup answers', sockets'[m.ws] = "open"
      PROVE  /\ m.ws = current' => \/ m.n = pend'[m.c]
                                   \/ pc'[m.c] = "probe" /\ m.ws = used'[m.c]
                                   \/ pc'[m.c] = "done"
             /\ pc'[m.c] = "boot" => m.ws # used'[m.c]
  <2>1. m \in reqs \cup answers
    BY DEF Shrinks
  <2>2. m.c \in Callers /\ m.ws \in Ids
    BY <2>1, MessageType DEF RerunInv, IInv
  <2>3. CASE m.c = c
    BY <1>4, <2>3 DEF Leaves, Answerable
  <2>4. CASE m.c # c
    <3>1. pend'[m.c] = pend[m.c] /\ pc'[m.c] = pc[m.c] /\ used'[m.c] = used[m.c]
      BY <1>1, <2>2, <2>4
    <3>2. sockets[m.ws] = "open"
      BY <1>4, <2>2 DEF Fades
    <3>3. m.ws = current' => m.ws = current
      BY <2>2 DEF Ids
    <3> QED
      BY <2>1, <3>1, <3>2, <3>3 DEF RerunInv, GivenUp, Answerable
  <2> QED
    BY <2>3, <2>4
<1>5. GivenUp'
  BY <1>4 DEF GivenUp, Answerable
<1> QED
  BY <1>3, <1>5 DEF RerunInv

(* A caller with nothing left under way may go anywhere but to evaluate.   *)
LEMMA ClearLeaves ==
  ASSUME RerunInv, NEW c \in Callers, Clear(c), Shrinks, Fades, current' \in {0, current},
         pc'[c] # "boot"
  PROVE  Leaves(c)'
<1>1. ASSUME NEW m \in reqs' \cup answers', m.c = c, sockets'[m.ws] = "open"
      PROVE  m.ws # current'
  <2>1. m \in reqs \cup answers
    BY DEF Shrinks
  <2>2. m.ws \in Ids
    BY <2>1, MessageType DEF RerunInv, IInv
  <2> QED
    BY <1>1, <2>1, <2>2 DEF Fades, Clear, Answerable, Ids
<1> QED
  BY <1>1 DEF Leaves, Answerable

(* Every place but the one from which a caller evaluates.                  *)
Elsewhere == Places \ {"boot"}

LEMMA FailsElsewhere ==
  ASSUME TypeOK, NEW c \in Callers, NEW e \in Errors, InnerFails(c, e)
  PROVE  Moves(c, Elsewhere)
<1>1. Moves(c, Ends)
  BY FailsMoves
<1>2. Ends \subseteq Elsewhere
  BY DEF Ends, Elsewhere, Places
<1> QED
  BY <1>1, <1>2, MovesMore

LEMMA MovesOne ==
  ASSUME TypeOK, NEW c \in Callers, NEW S, Moves(c, S)
  PROVE  pc'[c] \in S /\ \A d \in Callers \ {c} : pc'[d] = pc[d]
  BY DEF Moves, TypeOK

(* Nothing is sent, no socket changes.                                     *)
LEMMA StillFades ==
  ASSUME UNCHANGED <<serial, sockets, msgVars>>
  PROVE  Shrinks /\ Fades
  BY DEF Shrinks, Fades, msgVars

-----------------------------------------------------------------------------
(* A caller that waits for nothing goes to a place where it evaluates      *)
(* nothing.                                                                *)
LEMMA IdleStep ==
  ASSUME RerunInv, IInv', NEW c \in Callers, pc[c] \notin {"eval", "poll", "probe", "done"},
         Moves(c, Elsewhere),
         UNCHANGED <<serial, pend, used, sockets, current, msgVars>>
  PROVE  RerunInv'
<1>1. pend[c] = 0 /\ pend' = [pend EXCEPT ![c] = 0]
  BY NoEntry DEF RerunInv
<1>2. Clear(c)
  BY <1>1, IdleClear
<1>3. Shrinks /\ Fades
  BY StillFades
<1>4. pc'[c] # "boot" /\ \A d \in Callers \ {c} : pc'[d] = pc[d]
  BY MovesOne DEF RerunInv, IInv, Elsewhere
<1>5. Leaves(c)'
  BY <1>2, <1>3, <1>4, ClearLeaves
<1> QED
  BY <1>1, <1>3, <1>4, <1>5, CallerLeaves

LEMMA StartRerun ==
  ASSUME RerunInv, IInv', NEW c \in Callers, Start(c)
  PROVE  RerunInv'
<1>1. Moves(c, {"resolve"}) /\ {"resolve"} \subseteq Elsewhere
  BY GoMoves DEF Start, RerunInv, IInv, Elsewhere, Places
<1> QED
  BY <1>1, MovesMore, IdleStep DEF Start, linkVars

LEMMA FailingRerun ==
  ASSUME RerunInv, IInv', NEW c \in Callers,
         SocketFailed(c) \/ InnerReconnect(c) \/ NextAttempt(c) \/ RootsRetry(c) \/ OuterReconnect(c)
  PROVE  RerunInv'
<1>1. UNCHANGED <<serial, pend, used, sockets, current, msgVars>>
  BY DEF SocketFailed, InnerReconnect, NextAttempt, RootsRetry, OuterReconnect, linkVars
<1>2. pc[c] \notin {"eval", "poll", "probe", "done"}
  BY DEF SocketFailed, InnerReconnect, NextAttempt, RootsRetry, OuterReconnect
<1>3. \/ \E e \in Errors : InnerFails(c, e)
      \/ \E p \in {"backoff", "resolve"} : Go(c, p)
      \/ Finish(c, "reconnect failed")
  BY DEF SocketFailed, InnerReconnect, NextAttempt, RootsRetry, OuterReconnect, Again, Errors
<1>4. Moves(c, Elsewhere)
  <2>1. CASE \E e \in Errors : InnerFails(c, e)
    BY <2>1, FailsElsewhere DEF RerunInv, IInv
  <2>2. CASE \E p \in {"backoff", "resolve"} : Go(c, p)
    <3>1. PICK p \in {"backoff", "resolve"} : Go(c, p)
      BY <2>2
    <3>2. Moves(c, {p}) /\ {p} \subseteq Elsewhere
      BY <3>1, GoMoves DEF RerunInv, IInv, Elsewhere, Places
    <3> QED
      BY <3>2, MovesMore
  <2>3. CASE Finish(c, "reconnect failed")
    <3>1. Moves(c, {"done"})
      BY <2>3, FinishMoves DEF RerunInv, IInv, Outcomes
    <3> QED
      BY <3>1, MovesMore DEF Elsewhere, Places
  <2> QED
    BY <1>3, <2>1, <2>2, <2>3
<1> QED
  BY <1>1, <1>2, <1>4, IdleStep

(* The app it resolved is the one that serves the device: nothing of it is *)
(* under way there.                                                        *)
LEMMA ResolveRerun ==
  ASSUME RerunInv, IInv', NEW c \in Callers, Resolve(c)
  PROVE  RerunInv'
<1>1. pend[c] = 0 /\ pend' = [pend EXCEPT ![c] = 0]
  BY NoEntry DEF RerunInv, Resolve
<1>2. Clear(c)
  BY <1>1, IdleClear DEF Resolve
<1>3. Shrinks /\ Fades
  BY StillFades DEF Resolve
<1>4. current' \in {0, current} /\ used'[c] = current' /\ \A d \in Callers \ {c} : used'[d] = used[d]
  BY DEF Resolve, RerunInv, IInv, TypeOK
<1>5. \E S : Moves(c, S)
  <2>1. \A p \in {"boot", "reconnect"} : Go(c, p) => Moves(c, {p})
    BY GoMoves DEF RerunInv, IInv
  <2>2. Finish(c, "thrown") => Moves(c, {"done"})
    BY FinishMoves DEF RerunInv, IInv, Outcomes
  <2>3. InnerFails(c, "no apps") => Moves(c, Ends)
    BY FailsMoves DEF RerunInv, IInv, Errors
  <2> QED
    BY <2>1, <2>2, <2>3 DEF Resolve
<1>6. \A d \in Callers \ {c} : pc'[d] = pc[d]
  BY <1>5, MovesOne DEF RerunInv, IInv
<1>7. ASSUME NEW m \in reqs' \cup answers', m.c = c, sockets'[m.ws] = "open"
      PROVE  m.ws # current'
  <2>1. m \in reqs \cup answers
    BY <1>3 DEF Shrinks
  <2>2. m.ws \in Ids
    BY <2>1, MessageType DEF RerunInv, IInv
  <2> QED
    BY <1>2, <1>3, <1>4, <1>7, <2>1, <2>2 DEF Fades, Clear, Answerable, Ids
<1>8. Leaves(c)'
  BY <1>4, <1>7 DEF Leaves, Answerable
<1> QED
  BY <1>1, <1>3, <1>4, <1>6, <1>8, CallerLeaves

(* Where the timeout of a request may lead.                                *)
LEMMA TimeoutMoves ==
  ASSUME TypeOK, NEW c \in Callers, NEW e \in {"timeout", "error"}, InnerFails(c, e)
  PROVE  \/ Moves(c, {"done"})
         \/ e = "timeout" /\ Reachable /\ Moves(c, {"probe"})
<1>1. \A o \in {"roots", "retry failed", "error"} : Finish(c, o) => Moves(c, {"done"})
  BY FinishMoves DEF Outcomes
<1>2. Go(c, "probe") => Moves(c, {"probe"})
  BY GoMoves
<1> QED
  BY <1>1, <1>2 DEF InnerFails

(* Only what a caller waited for may still be under way where the device is*)
(* served.                                                                 *)
LEMMA WaitedFor ==
  ASSUME RerunInv, NEW c \in Callers, pc[c] \in {"eval", "poll"},
         NEW m \in reqs \cup answers, m.c = c, Answerable(m), m.ws = current
  PROVE  m.n = pend[c] /\ m.ws = used[c]
  BY DEF RerunInv, GivenUp, Numbered

LEMMA TimeoutRerun ==
  ASSUME RerunInv, IInv', NEW c \in Callers, Timeout(c)
  PROVE  RerunInv'
<1> DEFINE e == IF ReadyOpen(used[c]) THEN "timeout" ELSE "error"
<1>1. pc[c] \in {"eval", "poll"}
  BY DEF Timeout, RerunInv, IInv, PendingMatches
<1>2. Shrinks /\ Fades /\ current' = current /\ UNCHANGED <<sockets, reqs, answers>>
  BY StillFades DEF Timeout, linkVars, msgVars
<1>3. \/ Moves(c, {"done"})
      \/ e = "timeout" /\ Reachable /\ Moves(c, {"probe"})
  BY TimeoutMoves DEF Timeout, RerunInv, IInv
<1>4. pc'[c] \in {"done", "probe"} /\ \A d \in Callers \ {c} : pc'[d] = pc[d]
  BY <1>3, MovesOne DEF RerunInv, IInv
<1>5. pc'[c] = "probe" => Reachable
  BY <1>3, MovesOne DEF RerunInv, IInv
<1>6. /\ used'[c] = (IF Reachable THEN current ELSE used[c])
      /\ \A d \in Callers \ {c} : used'[d] = used[d]
  BY DEF Timeout, RerunInv, IInv, TypeOK
<1>7. Leaves(c)'
  BY <1>2, <1>4, <1>5, <1>6 DEF Leaves, Answerable
<1>8. pend' = [pend EXCEPT ![c] = 0]
  BY DEF Timeout
<1> QED
  BY <1>2, <1>4, <1>6, <1>7, <1>8, CallerLeaves

LEMMA DialogRerun ==
  ASSUME RerunInv, IInv', NEW c \in Callers, DialogOpened(c)
  PROVE  RerunInv'
<1>1. Shrinks /\ Fades /\ current' = current /\ used' = used
  BY StillFades DEF DialogOpened, linkVars
<1>2. \A o \in {"roots", "retry failed", "dialog"} : Finish(c, o) => Moves(c, {"done"})
  BY FinishMoves DEF RerunInv, IInv, Outcomes
<1>3. Moves(c, {"done"})
  BY <1>2 DEF DialogOpened, InnerFails
<1>4. pc'[c] = "done" /\ \A d \in Callers \ {c} : pc'[d] = pc[d]
  BY <1>3, MovesOne DEF RerunInv, IInv
<1>5. Leaves(c)'
  BY <1>4 DEF Leaves
<1>6. pend' = [pend EXCEPT ![c] = 0]
  BY DEF DialogOpened
<1> QED
  BY <1>1, <1>4, <1>5, <1>6, CallerLeaves

(* A probe ends the call, or the socket it asked about is not open.        *)
LEMMA ProbeRerun ==
  ASSUME RerunInv, IInv', NEW c \in Callers, Probe(c)
  PROVE  RerunInv'
<1>1. Shrinks /\ Fades /\ current' = current /\ used' = used
  BY StillFades DEF Probe, linkVars
<1>2. pend[c] = 0 /\ pend' = [pend EXCEPT ![c] = 0]
  BY NoEntry DEF Probe, RerunInv
<1>3. CASE Finish(c, "error")
  <2>1. Moves(c, {"done"})
    BY <1>3, FinishMoves DEF RerunInv, IInv, Outcomes
  <2>2. pc'[c] = "done" /\ \A d \in Callers \ {c} : pc'[d] = pc[d]
    BY <2>1, MovesOne DEF RerunInv, IInv
  <2>3. Leaves(c)'
    BY <2>2 DEF Leaves
  <2> QED
    BY <1>1, <1>2, <2>2, <2>3, CallerLeaves
<1>4. CASE Gone(used[c]) /\ TransportFailure(c)
  <2>1. Moves(c, Ends)
    BY <1>4, TransportMoves DEF RerunInv, IInv
  <2>2. pc'[c] # "boot" /\ \A d \in Callers \ {c} : pc'[d] = pc[d]
    BY <2>1, MovesOne DEF RerunInv, IInv, Ends
  <2>3. Clear(c)
    BY <1>2, <1>4 DEF Probe, Gone, RerunInv, Numbered, GivenUp, Clear, Answerable
  <2>4. Leaves(c)'
    BY <1>1, <2>2, <2>3, ClearLeaves
  <2> QED
    BY <1>1, <1>2, <2>2, <2>4, CallerLeaves
<1> QED
  BY <1>3, <1>4 DEF Probe

-----------------------------------------------------------------------------
(* Messages                                                                *)

(* A caller with nothing under way that could be answered where the device *)
(* is served sends its next request.                                       *)
LEMMA SendRerun ==
  ASSUME RerunInv, IInv', NEW c \in Callers, NEW kind, NEW place \in {"eval", "poll"},
         pc[c] \in {"boot", "sleep"}, Send(c, kind, place), UNCHANGED <<used, linkVars, answers>>
  PROVE  RerunInv'
<1>1. CASE InnerFails(c, "ws closed") /\ UNCHANGED <<serial, pend, reqs>>
  <2>1. Moves(c, Elsewhere)
    BY <1>1, FailsElsewhere DEF RerunInv, IInv, Errors
  <2> QED
    BY <1>1, <2>1, IdleStep DEF linkVars, msgVars
<1>2. CASE ReadyOpen(used[c]) /\ ~(InnerFails(c, "ws closed") /\ UNCHANGED <<serial, pend, reqs>>)
  <2> DEFINE n == serial[c] + 1
             q == [c |-> c, n |-> n, ws |-> used[c], kind |-> kind]
  <2>1. /\ serial' = [serial EXCEPT ![c] = n] /\ pend' = [pend EXCEPT ![c] = n]
        /\ reqs' = reqs \cup {q} /\ Go(c, place)
    BY <1>2 DEF Send
  <2>2. \A d \in Callers : /\ pc'[d] = (IF d = c THEN place ELSE pc[d])
                           /\ pend'[d] = (IF d = c THEN n ELSE pend[d])
                           /\ serial'[d] = (IF d = c THEN n ELSE serial[d])
    BY <2>1 DEF RerunInv, IInv, TypeOK, Go
  <2>3. serial[c] \in Nat /\ pend[c] = 0 /\ n # 0
    BY NoEntry DEF RerunInv, IInv, TypeOK
  <2>4. \A m \in reqs \cup answers : m.c = c => m.n < n
    BY <2>3, MessageType DEF RerunInv, IInv, Numbered
  <2>5. q.c = c /\ q.n = n /\ q.ws = used[c]
    OBVIOUS
  <2>6. sockets[used[c]] # "unborn"
    BY <1>2 DEF ReadyOpen
  <2>7. Clear(c)
    BY <2>3, IdleClear
  <2> HIDE DEF q
  <2>8. ASSUME NEW m \in reqs' \cup answers' PROVE m = q \/ m \in reqs \cup answers
    BY <2>1
  <2>9. Numbered'
    <3>1. ASSUME NEW m \in reqs \cup answers
          PROVE  /\ m.n # 0 /\ m.n <= serial'[m.c] /\ sockets'[m.ws] # "unborn"
                 /\ m.n = pend'[m.c] => m.ws = used'[m.c]
      <4>1. m.c \in Callers /\ m.n \in Nat
        BY MessageType DEF RerunInv, IInv
      <4>2. CASE m.c = c
        BY <2>2, <2>3, <2>4, <4>1, <4>2 DEF RerunInv, Numbered, linkVars
      <4>3. CASE m.c # c
        BY <2>2, <4>1, <4>3 DEF RerunInv, Numbered, linkVars
      <4> QED
        BY <4>2, <4>3
    <3>2. /\ q.n # 0 /\ q.n <= serial'[q.c] /\ sockets'[q.ws] # "unborn"
          /\ q.n = pend'[q.c] => q.ws = used'[q.c]
      BY <2>2, <2>3, <2>5, <2>6 DEF linkVars
    <3> QED
      BY <2>8, <3>1, <3>2 DEF Numbered
  <2>10. OneMessage'
    <3>1. \A m \in reqs \cup answers : ~(m.c = q.c /\ m.n = q.n)
      BY <2>3, <2>4, <2>5
    <3> QED
      BY <2>1, <3>1 DEF RerunInv, OneMessage
  <2>11. GivenUp'
    <3>1. ASSUME NEW m \in reqs \cup answers, sockets[m.ws] = "open"
          PROVE  /\ m.ws = current' => \/ m.n = pend'[m.c]
                                       \/ pc'[m.c] = "probe" /\ m.ws = used'[m.c]
                                       \/ pc'[m.c] = "done"
                 /\ pc'[m.c] = "boot" => m.ws # used'[m.c]
      <4>1. m.c \in Callers
        BY MessageType DEF RerunInv, IInv
      <4>2. CASE m.c = c
        BY <2>2, <2>7, <3>1, <4>1, <4>2 DEF Clear, Answerable, linkVars
      <4>3. CASE m.c # c
        BY <2>2, <3>1, <4>1, <4>3 DEF RerunInv, GivenUp, Answerable, linkVars
      <4> QED
        BY <4>2, <4>3
    <3>2. q.n = pend'[q.c] /\ pc'[q.c] # "boot"
      BY <2>2, <2>5
    <3> QED
      BY <2>8, <3>1, <3>2 DEF GivenUp, Answerable, linkVars
  <2> QED
    BY <2>9, <2>10, <2>11 DEF RerunInv
<1> QED
  BY <1>1, <1>2 DEF Send

LEMMA EvaluateRerun ==
  ASSUME RerunInv, IInv', NEW c \in Callers, Evaluate(c) \/ Poll(c)
  PROVE  RerunInv'
<1>1. UNCHANGED <<used, linkVars, answers>> /\ pc[c] \in {"boot", "sleep"}
  BY DEF Evaluate, Poll
<1>2. \E kind \in Kinds, place \in {"eval", "poll"} : Send(c, kind, place)
  BY DEF Evaluate, Poll, Kinds
<1> QED
  BY <1>1, <1>2, SendRerun

(* The answer a caller waited for was the last it had under way there.     *)
LEMMA AnswerRerun ==
  ASSUME RerunInv, IInv', NEW a \in answers, Answer(a)
  PROVE  RerunInv'
<1>0. a.c \in Callers /\ a.res \in Replies /\ a.n # 0
  BY DEF RerunInv, IInv, TypeOK, Numbered
<1>1. Shrinks /\ UNCHANGED <<used, attempt, polls>> /\ reqs' = reqs /\ answers' = answers \ {a}
  BY DEF Answer, Shrinks
<1>2. CASE pend[a.c] = a.n
  <2> DEFINE c == a.c
  <2>1. pend' = [pend EXCEPT ![c] = 0] /\ Resolved(c, a.res) /\ pc[c] \in {"eval", "poll"}
    BY <1>0, <1>2 DEF Answer, RerunInv, IInv, PendingMatches
  <2> HIDE DEF c
  <2>2. \/ UNCHANGED linkVars
        \/ /\ current' = 0
           /\ sockets' = IF ReadyOpen(used[c]) THEN [sockets EXCEPT ![used[c]] = "closing"] ELSE sockets
    BY <2>1 DEF Resolved
  <2>3. Fades /\ current' \in {0, current}
    BY <2>2 DEF Fades, linkVars, RerunInv, IInv, TypeOK
  <2>4. Moves(c, Elsewhere)
    <3>1. \A e \in Errors : InnerFails(c, e) => Moves(c, Elsewhere)
      BY <1>0, FailsElsewhere DEF c, RerunInv, IInv
    <3>2. \A p \in {"reconnect", "sleep"} : Go(c, p) => Moves(c, {p})
      BY <1>0, GoMoves DEF c, RerunInv, IInv
    <3>3. \A p \in {"reconnect", "sleep"} : {p} \subseteq Elsewhere
      BY DEF Elsewhere, Places
    <3>4. \A p \in {"reconnect", "sleep"} : Go(c, p) => Moves(c, Elsewhere)
      BY <1>0, <3>2, <3>3, MovesMore DEF c
    <3>5. \A r \in {"value", "roots", "pending", "missing"} :
            InnerSucceeds(c, r) => Moves(c, {"done", "roots"})
      BY <1>0, SucceedsMoves DEF c, RerunInv, IInv
    <3>6. Moves(c, {"done", "roots"}) => Moves(c, Elsewhere)
      BY <1>0, MovesMore DEF c, Elsewhere, Places
    <3>7. \/ \E e \in Errors : InnerFails(c, e)
          \/ \E p \in {"reconnect", "sleep"} : Go(c, p)
          \/ \E r \in {"value", "roots", "pending", "missing"} : InnerSucceeds(c, r)
      BY <2>1 DEF Resolved, Errors
    <3> QED
      BY <3>1, <3>4, <3>5, <3>6, <3>7
  <2>5. pc'[c] # "boot" /\ \A d \in Callers \ {c} : pc'[d] = pc[d]
    BY <1>0, <2>4, MovesOne DEF c, RerunInv, IInv, Elsewhere
  <2>6. ASSUME NEW m \in reqs' \cup answers', m.c = c, sockets'[m.ws] = "open"
        PROVE  m.ws # current'
    <3>1. m \in reqs \cup answers /\ m.ws \in Ids
      BY <1>1, MessageType DEF RerunInv, IInv
    <3>2. m.n # pend[c]
      BY <1>1, <1>2, <2>6 DEF c, RerunInv, OneMessage
    <3>3. Answerable(m)
      BY <2>3, <2>6, <3>1 DEF Fades, Answerable
    <3>4. m.ws # current
      BY <1>0, <2>1, <2>6, <3>1, <3>2, <3>3, WaitedFor DEF c
    <3> QED
      BY <2>3, <3>1, <3>4 DEF Ids
  <2>7. Leaves(c)'
    BY <2>5, <2>6 DEF Leaves, Answerable
  <2> QED
    BY <1>0, <1>1, <2>1, <2>3, <2>5, <2>7, CallerLeaves DEF c
<1>3. CASE pend[a.c] # a.n
  <2>1. UNCHANGED <<pend, pc, linkVars>>
    BY <1>3 DEF Answer
  <2>2. Forgets /\ UNCHANGED <<sockets, current>>
    BY <1>1, <2>1 DEF Forgets, linkVars
  <2>3. Numbered' /\ OneMessage'
    BY <1>1, <2>2, ShrinkStep
  <2>4. GivenUp'
    BY <1>1, <2>1, <2>2 DEF RerunInv, GivenUp, Answerable
  <2> QED
    BY <2>3, <2>4 DEF RerunInv
<1> QED
  BY <1>2, <1>3

(* The app answers: the request becomes the answer.                        *)
LEMMA AppRunRerun ==
  ASSUME RerunInv, IInv', NEW q \in reqs, AppRun(q)
  PROVE  RerunInv'
<1>1. UNCHANGED <<pc, used, serial, pend, sockets, current>>
  BY DEF AppRun, linkVars
<1>2. \E res : Reply(q, res)
  BY DEF AppRun, RunExpr, RunRead, RunTake
<1>3. PICK res : Reply(q, res)
  BY <1>2
<1> DEFINE a == [c |-> q.c, n |-> q.n, ws |-> q.ws, res |-> res]
<1>4. reqs' = reqs \ {q} /\ answers' \subseteq answers \cup {a}
  BY <1>3 DEF Reply
<1>5. a.c = q.c /\ a.n = q.n /\ a.ws = q.ws
  OBVIOUS
<1> HIDE DEF a
<1>6. \A m \in reqs' \cup answers' :
        \E p \in reqs \cup answers : m.c = p.c /\ m.n = p.n /\ m.ws = p.ws
  BY <1>4, <1>5
<1>7. Numbered'
  BY <1>1, <1>6 DEF RerunInv, Numbered
<1>8. OneMessage'
  BY <1>4, <1>5 DEF RerunInv, OneMessage
<1>9. GivenUp'
  BY <1>1, <1>6 DEF RerunInv, GivenUp, Answerable
<1> QED
  BY <1>7, <1>8, <1>9 DEF RerunInv

-----------------------------------------------------------------------------
(* The connections                                                         *)

(* A new socket carries nothing yet.                                       *)
LEMMA ConnectRerun ==
  ASSUME RerunInv, IInv', NEW s \in Ids, Connect(s)
  PROVE  RerunInv'
<1>1. /\ UNCHANGED <<pc, used, serial, pend, reqs, answers>>
      /\ current' = s /\ sockets[s] = "unborn"
      /\ \A r \in Ids : sockets'[r] = IF r = s THEN "open" ELSE sockets[r]
  BY DEF Connect, msgVars, RerunInv, IInv, TypeOK
<1>2. Shrinks /\ Forgets /\ \A r \in Ids : sockets[r] # "unborn" => sockets'[r] # "unborn"
  BY <1>1 DEF Shrinks, Forgets
<1>3. Numbered' /\ OneMessage'
  BY <1>2, ShrinkStep
<1>4. \A m \in reqs \cup answers : m.ws \in Ids /\ m.ws # s
  BY <1>1, MessageType DEF RerunInv, IInv, Numbered
<1>5. GivenUp'
  BY <1>1, <1>4 DEF RerunInv, GivenUp, Answerable
<1> QED
  BY <1>3, <1>5 DEF RerunInv

(* A step no caller takes that sends nothing and opens no socket.          *)
LEMMA FadeRerun ==
  ASSUME RerunInv, IInv', Shrinks, Fades, current' \in {0, current},
         UNCHANGED <<pc, used, pend>>
  PROVE  RerunInv'
<1>1. Numbered' /\ OneMessage'
  BY ShrinkStep DEF Forgets, Fades
<1>2. \A m \in reqs' \cup answers' : m \in reqs \cup answers /\ m.ws \in Ids /\ m.ws # 0
  BY MessageType DEF Shrinks, RerunInv, IInv, Ids
<1>3. GivenUp'
  BY <1>2 DEF Fades, RerunInv, GivenUp, Answerable
<1> QED
  BY <1>1, <1>3 DEF RerunInv

LEMMA LinkRerun ==
  ASSUME RerunInv, IInv',
         \/ \E s \in Ids : Drop(s)
         \/ Reload \/ ReplaceTarget
         \/ \E c \in Callers : Settle(c)
         \/ UNCHANGED vars
  PROVE  RerunInv'
<1>1. UNCHANGED <<pc, used, pend, current, serial>>
  BY DEF Drop, Reload, ReplaceTarget, Settle, vars, linkVars
<1>2. Shrinks
  BY <1>1 DEF Drop, Reload, ReplaceTarget, Settle, vars, linkVars, msgVars, Shrinks
<1>3. Fades
  BY DEF Drop, Reload, ReplaceTarget, Settle, vars, linkVars, Fades, RerunInv, IInv, TypeOK
<1> QED
  BY <1>1, <1>2, <1>3, FadeRerun

(* A close event settles the callers of one socket, which is not open.     *)
LEMMA CloseEventRerun ==
  ASSUME RerunInv, IInv', NEW s \in Ids, CloseEvent(s)
  PROVE  RerunInv'
<1>1. Shrinks /\ Fades /\ current' \in {0, current} /\ used' = used /\ sockets[s] # "open"
  BY DEF CloseEvent, Shrinks, Fades, RerunInv, IInv, TypeOK
<1>2. \A d \in Callers :
        \/ pend'[d] = pend[d] /\ pc'[d] = pc[d]
        \/ used[d] = s /\ pend[d] # 0 /\ pend'[d] = 0 /\ pc'[d] = "failed"
  BY DEF CloseEvent, Waiting
<1>3. Forgets
  BY <1>1, <1>2 DEF Forgets
<1>4. Numbered' /\ OneMessage'
  BY <1>1, <1>3, ShrinkStep DEF Fades
<1>5. ASSUME NEW m \in reqs' \cup answers', sockets'[m.ws] = "open"
      PROVE  /\ m.ws = current' => \/ m.n = pend'[m.c]
                                   \/ pc'[m.c] = "probe" /\ m.ws = used'[m.c]
                                   \/ pc'[m.c] = "done"
             /\ pc'[m.c] = "boot" => m.ws # used'[m.c]
  <2>1. m \in reqs \cup answers
    BY <1>1 DEF Shrinks
  <2>2. m.c \in Callers /\ m.ws \in Ids
    BY <2>1, MessageType DEF RerunInv, IInv
  <2>3. sockets[m.ws] = "open" /\ (m.ws = current' => m.ws = current)
    BY <1>1, <1>5, <2>2 DEF Fades, Ids
  <2>4. CASE pend'[m.c] = pend[m.c] /\ pc'[m.c] = pc[m.c]
    BY <1>1, <2>1, <2>3, <2>4 DEF RerunInv, GivenUp, Answerable
  <2>5. CASE used[m.c] = s /\ pend[m.c] # 0 /\ pend'[m.c] = 0 /\ pc'[m.c] = "failed"
    <3>1. pc[m.c] \in {"eval", "poll"}
      BY <2>2, <2>5 DEF RerunInv, IInv, PendingMatches
    <3>2. m.ws # current
      BY <1>1, <2>1, <2>2, <2>3, <2>5, <3>1, WaitedFor DEF Answerable
    <3> QED
      BY <2>3, <2>5, <3>2
  <2> QED
    BY <1>2, <2>2, <2>4, <2>5
<1>6. GivenUp'
  BY <1>5 DEF GivenUp, Answerable
<1> QED
  BY <1>4, <1>6 DEF RerunInv

-----------------------------------------------------------------------------
(* Nothing has been sent yet.                                              *)
THEOREM InitRerun == Init => RerunInv
<1>1. Init => Numbered /\ OneMessage /\ GivenUp
  BY DEF Init, Numbered, OneMessage, GivenUp
<1> QED
  BY <1>1, InitIInv DEF RerunInv

(* Every step keeps what is known of the messages under way.               *)
THEOREM NextRerun == RerunInv /\ [Next]_vars => RerunInv'
<1> SUFFICES ASSUME RerunInv, [Next]_vars PROVE RerunInv'
  OBVIOUS
<1>0. IInv'
  BY NextIInv DEF RerunInv
<1>1. ASSUME NEW c \in Callers, CallStep(c) PROVE RerunInv'
  BY <1>0, <1>1, StartRerun, ResolveRerun, EvaluateRerun, TimeoutRerun, DialogRerun,
     FailingRerun, ProbeRerun DEF CallStep
<1>2. CASE \/ \E s \in Ids : Drop(s)
           \/ Reload \/ ReplaceTarget
           \/ \E c \in Callers : Settle(c)
           \/ UNCHANGED vars
  BY <1>0, <1>2, LinkRerun
<1>3. ASSUME NEW a \in answers, Answer(a) PROVE RerunInv'
  BY <1>0, <1>3, AnswerRerun
<1>4. ASSUME NEW s \in Ids, Connect(s) \/ CloseEvent(s) PROVE RerunInv'
  BY <1>0, <1>4, ConnectRerun, CloseEventRerun
<1>5. ASSUME NEW q \in reqs, AppRun(q) PROVE RerunInv'
  BY <1>0, <1>5, AppRunRerun
<1> QED
  BY <1>1, <1>2, <1>3, <1>4, <1>5 DEF Next

(* No expression is evaluated again while the connection that serves the   *)
(* device may still run or answer the evaluation before it.                *)
THEOREM NeverRerunWhileAnswerable == Spec => NoRerunWhileAnswerable
<1> DEFINE Step == \A c \in Callers :
             pc[c] = "boot" /\ serial'[c] # serial[c] =>
               \A m \in reqs \cup answers :
                 m.c = c /\ m.ws \in {used[c], current} => sockets[m.ws] # "open"
<1>1. RerunInv => \A c \in Callers : pc[c] = "boot" =>
        \A m \in reqs \cup answers :
          m.c = c /\ m.ws \in {used[c], current} => sockets[m.ws] # "open"
  <2> SUFFICES ASSUME RerunInv, NEW c \in Callers, pc[c] = "boot",
                      NEW m \in reqs \cup answers, m.c = c, m.ws \in {used[c], current}
               PROVE  sockets[m.ws] # "open"
    OBVIOUS
  <2>1. pend[c] = 0
    BY NoEntry DEF RerunInv
  <2>2. Clear(c)
    BY <2>1, IdleClear
  <2> QED
    BY <2>2 DEF RerunInv, GivenUp, Clear, Answerable
<1>2. RerunInv /\ [Next]_vars => [Step]_vars
  BY <1>1
<1>3. RerunInv /\ [Next]_vars => RerunInv'
  BY NextRerun
<1> QED
  BY <1>2, <1>3, InitRerun, PTL DEF Spec, NoRerunWhileAnswerable
=============================================================================
