--------------------------- MODULE Session_proof ---------------------------
(***************************************************************************)
(* Proofs about ToolSession, for any number of calls, months and starts:   *)
(* the banners are rationed, and no verdict is lost to a lost connection.  *)
(*                                                                         *)
(* Both need to know what is on its way.  The banners follow from the      *)
(* month and threshold usage-notify.json holds (Rationed); the verdicts    *)
(* from what each resolve read before its await, as long as it is alone    *)
(* (Said, Alone, Ruled).                                                   *)
(***************************************************************************)
EXTENDS ToolSession, TLAPS

-----------------------------------------------------------------------------
(* The type invariant in parts, one for each group of variables.           *)

Notes  == [month : Months, threshold : {0, 80, 100}, deferral : BOOLEAN]
Caches == [license : BOOLEAN, usage : Verdicts, inGrace : BOOLEAN]
Disks  == [license : BOOLEAN, usage : Verdicts, inGrace : BOOLEAN,
           orphan : BOOLEAN, notify : Notes]
Procs  == [http : BOOLEAN, usage : Verdicts,
           source : {"none", "api", "cache", "default"},
           promise : Calls \union {NoCall}, frozen : BOOLEAN,
           block : {"none", "cap", "flagged"}, capShown : BOOLEAN]
Shows  == [eighty : [Months -> Nat], cap : [Months -> Nat], deferral : Nat, late : BOOLEAN]
Places == Over \union {"queued", "license", "gate", "run", "await", "refreeze", "ending"}

BackendOK == /\ account \in Kinds \ {"none"} /\ counted \in 0..Limit
             /\ month \in Months /\ starts \in 0..MaxStarts \union {1}
CallsOK   == /\ pc \in [Calls -> Places] /\ tool \in [Calls -> Tools \union {"use"}]
             /\ wait \in [Calls -> Calls \union {NoCall}]
ChecksOK  == /\ ask \in [Calls -> {"none", "sent", "answered"}]
             /\ said \in [Calls -> Verdicts] /\ snap \in [Calls -> Caches]
QueueOK   == queue \in Seq(Calls) /\ slot \in Calls \union {NoCall}
HistoryOK == lastSaid \in Verdicts /\ alone \in BOOLEAN
Parts == /\ BackendOK /\ disk \in Disks /\ proc \in Procs /\ CallsOK /\ ChecksOK
         /\ QueueOK /\ HistoryOK /\ banners \in Shows

LEMMA TypeParts == TypeOK <=> Parts
  BY DEF TypeOK, Parts, BackendOK, Disks, Notes, Procs, CallsOK, Places, ChecksOK, Caches,
         QueueOK, HistoryOK, Shows

LEMMA Bounds ==
  /\ Limit \in Nat /\ Limit > 0 /\ WarnAt \in Nat /\ WarnAt > 0 /\ WarnAt <= Limit
  /\ MaxMonth \in Nat /\ MaxStarts \in Nat /\ Months \subseteq Nat /\ 0 \in Months
  /\ \A m \in Months : m < MaxMonth => m + 1 \in Months
  BY SessionAssumption DEF Months

\* The banners.  usage-notify.json holds the month of the last banner and its
\* threshold; later months have had none.
Rationed ==
  LET n == disk.notify
  IN /\ ~banners.late =>
          /\ \A m \in Months : m > n.month => banners.eighty[m] = 0 /\ banners.cap[m] = 0
          /\ \A m \in Months : banners.eighty[m] <= 1 /\ banners.cap[m] <= 1
          /\ banners.eighty[n.month] > 0 => n.threshold \in {80, 100}
          /\ banners.cap[n.month] > 0 => n.threshold = 100 /\ proc.capShown
     /\ banners.deferral <= 1
     /\ banners.deferral = 1 => n.deferral

\* What the backend says of a plan.
Coherent(v) == /\ v.month <= month
               /\ v.kind = "flagged" => ~v.canUse
               /\ v.kind = "free" => (v.canUse <=> v.used < Limit)
               /\ v.kind \notin {"flagged", "free"} => v.canUse

\* Every verdict on its way, and the signed one received last, is the
\* backend's; the cache holds the signed one received last.
Said == /\ Coherent(lastSaid) /\ disk.usage = lastSaid
        /\ \A c \in Calls : ask[c] = "answered" => Coherent(said[c])

\* A resolve that is alone read the signed verdict received last.
Alone == alone => /\ \A c, d \in InFlight : c = d
                  /\ \A c \in InFlight : snap[c].usage = lastSaid

\* What u, ruled without the backend, blocks, given v was received last.
Agrees(u, v) == /\ v.kind = "flagged" => u.kind = "flagged" /\ ~u.canUse
                /\ OverCap(v) /\ v.month = month => u.kind = "free" /\ ~u.canUse
                /\ ~OverCap(v) /\ v.kind # "flagged" => u.kind \in {"none", "deferred"} \/ u.canUse

Ruled == alone /\ proc.source = "cache" => Agrees(proc.usage, lastSaid)

SessionInv == TypeOK /\ Rationed /\ Said /\ Alone /\ Ruled

-----------------------------------------------------------------------------
(* Verdicts.                                                               *)

LEMMA NoneIsAVerdict == NoVerdict \in Verdicts /\ NoCache \in Caches
  BY Bounds DEF NoVerdict, Verdicts, Kinds, NoCache, Caches

LEMMA VerdictIs ==
  ASSUME BackendOK
  PROVE  Verdict \in Verdicts /\ Coherent(Verdict)
<1>1. month \in Nat /\ counted \in 0..Limit /\ 0 \in 0..Limit
  BY Bounds DEF BackendOK
<1>2. Verdict \in Verdicts
  BY <1>1 DEF BackendOK, Verdict, Verdicts
<1>3. Coherent(Verdict)
  <2> DEFINE may == account # "flagged" /\ (account = "free" => counted < Limit)
  <2>1. Verdict = [kind |-> account, used |-> IF account = "flagged" THEN 0 ELSE counted,
                   month |-> month, canUse |-> may]
    BY DEF Verdict
  <2>2. /\ Verdict.kind = account /\ Verdict.month = month
        /\ account # "flagged" => Verdict.used = counted
    BY <2>1
  <2>3. Verdict.canUse <=> may
    <3> HIDE DEF may
    <3> QED BY <2>1
  <2> QED BY <1>1, <2>2, <2>3 DEF Coherent
<1> QED BY <1>2, <1>3

LEMMA NoneIsCoherent ==
  ASSUME month \in Months
  PROVE  Coherent(NoVerdict)
  BY Bounds DEF NoVerdict, Coherent

\* computeOfflineUsage changes canUse alone, and so that what it blocks agrees
\* with the verdict it was given.
LEMMA OfflineIs ==
  ASSUME NEW u \in Verdicts, NEW g \in BOOLEAN
  PROVE  /\ Offline(u, g) \in Verdicts
         /\ Coherent(u) => Agrees(Offline(u, g), u)
<1>1. /\ u.kind \in Kinds /\ u.used \in 0..Limit /\ u.month \in Months /\ u.canUse \in BOOLEAN
      /\ u = [kind |-> u.kind, used |-> u.used, month |-> u.month, canUse |-> u.canUse]
  BY DEF Verdicts
<1>2. CASE u.kind = "none" \/ g
  <2>1. Offline(u, g) = u
    BY <1>2 DEF Offline
  <2>2. Coherent(u) => Agrees(u, u)
    BY <1>1, Bounds DEF Coherent, Agrees, OverCap, Kinds
  <2> QED BY <2>1, <2>2
<1>3. CASE ~(u.kind = "none" \/ g)
  <2> DEFINE may == u.kind # "flagged" /\ (u.month # month \/ ~OverCap(u))
  <2>1. Offline(u, g) = [u EXCEPT !.canUse = may]
    BY <1>3 DEF Offline
  <2>2. may \in BOOLEAN
    OBVIOUS
  <2>3. /\ Offline(u, g) \in Verdicts
        /\ Offline(u, g).kind = u.kind /\ Offline(u, g).canUse = may
    <3> HIDE DEF may
    <3> QED BY <1>1, <2>1, <2>2 DEF Verdicts
  <2>4. Agrees(Offline(u, g), u)
    BY <2>3 DEF Agrees, OverCap
  <2> QED BY <2>3, <2>4
<1> QED BY <1>2, <1>3

\* freezeSessionVerdict sets the block message once, and nothing else.
LEMMA FrozenIs ==
  ASSUME proc \in Procs
  PROVE  /\ Frozen \in Procs
         /\ Frozen.frozen
         /\ Frozen.block = IF proc.frozen THEN proc.block ELSE Block(proc.usage)
         /\ Frozen.capShown = proc.capShown /\ Frozen.usage = proc.usage
         /\ Frozen.source = proc.source /\ Frozen.http = proc.http
<1>1. Block(proc.usage) \in {"none", "cap", "flagged"}
  BY DEF Block
<1>2. CASE proc.frozen
  BY <1>2 DEF Frozen, Procs
<1>3. CASE ~proc.frozen
  <2>1. Frozen = [proc EXCEPT !.frozen = TRUE, !.block = Block(proc.usage)]
    BY <1>3 DEF Frozen
  <2> QED BY <1>1, <1>3, <2>1 DEF Procs
<1> QED BY <1>2, <1>3

-----------------------------------------------------------------------------
(* Types.                                                                  *)

LEMMA InitTypes ==
  ASSUME Init
  PROVE  TypeOK
<1>1. BackendOK /\ HistoryOK
  BY Bounds, NoneIsAVerdict DEF Init, BackendOK, HistoryOK, Kinds
<1>2. disk \in Disks
  BY Bounds, NoneIsAVerdict DEF Init, Empty, Disks, Notes
<1>3. proc \in Procs
  <2>1. PICK h \in Https : proc = Fresh(h)
    BY DEF Init
  <2>2. h \in BOOLEAN
    BY SessionAssumption
  <2> QED BY <2>1, <2>2, NoneIsAVerdict DEF Fresh, Procs
<1>4. CallsOK
  BY DEF Init, CallsOK, Places, Over
<1>5. ChecksOK
  BY NoneIsAVerdict DEF Init, ChecksOK
<1>6. QueueOK
  BY DEF Init, QueueOK
<1>7. banners \in Shows
  BY Bounds DEF Init, Shows
<1> QED BY <1>1, <1>2, <1>3, <1>4, <1>5, <1>6, <1>7, TypeParts DEF Parts

LEMMA StartsTyped ==
  ASSUME Parts, NEW c \in Calls, StartsResolve(c), disk'.license \in BOOLEAN
  PROVE  ChecksOK' /\ wait' \in [Calls -> Calls \union {NoCall}] /\ alone' \in BOOLEAN
<1>1. disk.usage \in Verdicts /\ disk.inGrace \in BOOLEAN
  BY DEF Parts, Disks
<1>2. [license |-> disk'.license, usage |-> disk.usage, inGrace |-> disk.inGrace] \in Caches
  BY <1>1 DEF Caches
<1>3. ChecksOK'
  BY <1>2, NoneIsAVerdict DEF StartsResolve, Parts, ChecksOK
<1>4. wait' \in [Calls -> Calls \union {NoCall}] /\ alone' \in BOOLEAN
  BY DEF StartsResolve, Parts, CallsOK, HistoryOK
<1> QED BY <1>3, <1>4

LEMMA WrapsTyped ==
  ASSUME Parts, NEW c \in Calls, Wraps(c), disk' = disk, tool' \in [Calls -> Tools \union {"use"}],
         lastSaid' = lastSaid
  PROVE  proc' \in Procs /\ CallsOK' /\ ChecksOK' /\ HistoryOK'
<1>1. CASE proc.promise = NoCall
  <2>1. /\ StartsResolve(c) /\ proc' = [proc EXCEPT !.promise = c]
        /\ pc' = [pc EXCEPT ![c] = "license"]
    BY <1>1 DEF Wraps
  <2>2. disk'.license \in BOOLEAN
    BY DEF Parts, Disks
  <2>3. ChecksOK' /\ wait' \in [Calls -> Calls \union {NoCall}] /\ alone' \in BOOLEAN
    BY <2>1, <2>2, StartsTyped
  <2>4. proc' \in Procs
    BY <2>1 DEF Parts, Procs
  <2> QED BY <2>1, <2>3, <2>4 DEF Parts, CallsOK, Places, HistoryOK
<1>2. CASE proc.promise # NoCall
  <2>1. UNCHANGED <<proc, resolves, alone>>
    BY <1>2 DEF Wraps
  <2>2. proc.promise \in Calls
    BY <1>2 DEF Parts, Procs
  <2>3. CallsOK'
    BY <1>2, <2>2 DEF Wraps, Parts, CallsOK, Places
  <2> QED BY <2>1, <2>3 DEF Parts, resolves, ChecksOK, HistoryOK
<1> QED BY <1>1, <1>2

LEMMA SettledTyped ==
  ASSUME Parts, NEW c \in Calls, Settled(c), tool' = tool
  PROVE  CallsOK' /\ ChecksOK'
<1>1. pc' \in [Calls -> Places]
  BY DEF Settled, Parts, CallsOK, Places
<1>2. wait' \in [Calls -> Calls \union {NoCall}]
  BY DEF Settled, Parts, CallsOK
<1>3. ChecksOK'
  BY NoneIsAVerdict DEF Settled, Parts, ChecksOK
<1> QED BY <1>1, <1>2, <1>3 DEF Parts, CallsOK

\* What the banners of a verdict leave in the file: the threshold they showed.
LEMMA RecordedIs ==
  ASSUME NEW u \in Verdicts, disk \in Disks
  PROVE  /\ Recorded(u) \in Notes /\ Threshold(u) \in {0, 80, 100}
         /\ Recorded(u).deferral = disk.notify.deferral
         /\ PushesUsage(u) =>
              /\ Threshold(u) # 0
              /\ Recorded(u).month = u.month /\ Recorded(u).threshold \in {100, Threshold(u)}
              /\ disk.notify.month = u.month =>
                   \/ disk.notify.threshold \notin {100, Threshold(u)}
                   \/ disk.notify.threshold = 100 /\ Threshold(u) = 100 /\ ~proc.capShown
<1> DEFINE n == disk.notify
<1>1. /\ n \in Notes /\ n.month \in Months /\ n.threshold \in {0, 80, 100} /\ n.deferral \in BOOLEAN
      /\ u.month \in Months
  BY DEF Disks, Notes, Verdicts
<1>2. Threshold(u) \in {0, 80, 100}
  BY DEF Threshold
<1>3. /\ Notified(u) \in Notes /\ Notified(u).month = u.month
      /\ Notified(u).deferral = n.deferral
      /\ Notified(u).threshold = IF n.month = u.month THEN n.threshold ELSE 0
  <2>1. CASE n.month = u.month
    BY <1>1, <2>1 DEF Notified
  <2>2. CASE n.month # u.month
    BY <1>1, <2>2 DEF Notified, Notes
  <2> QED BY <2>1, <2>2
<1>4. CASE Already(u)
  <2>1. Recorded(u) = n
    BY <1>4 DEF Recorded
  <2>2. PushesUsage(u) => n.month = u.month /\ n.threshold = 100 /\ Threshold(u) = 100 /\ ~proc.capShown
    BY <1>1, <1>2, <1>3, <1>4 DEF PushesUsage, Already
  <2> QED BY <1>1, <1>2, <2>1, <2>2 DEF PushesUsage
<1>5. CASE ~Already(u)
  <2>1. Recorded(u) = [Notified(u) EXCEPT !.threshold = Threshold(u)]
    BY <1>5 DEF Recorded
  <2>2. /\ Recorded(u) \in Notes /\ Recorded(u).month = u.month
        /\ Recorded(u).threshold = Threshold(u) /\ Recorded(u).deferral = n.deferral
    BY <1>2, <1>3, <2>1 DEF Notes
  <2>3. n.month = u.month => n.threshold \notin {100, Threshold(u)}
    BY <1>3, <1>5 DEF Already
  <2> QED BY <1>2, <2>2, <2>3 DEF PushesUsage
<1> QED BY <1>4, <1>5

\* The three variables of a call that notifies, spelled out.
Shown(u) ==
  /\ disk' = [disk EXCEPT !.notify = disk'.notify]
  /\ \/ PushesUsage(u) /\ disk'.notify = Recorded(u)
     \/ ~PushesUsage(u) /\ PushesDeferral(u) /\ disk'.notify = [disk.notify EXCEPT !.deferral = TRUE]
     \/ ~PushesUsage(u) /\ ~PushesDeferral(u) /\ disk'.notify = disk.notify
  /\ proc' = [Frozen EXCEPT !.capShown = proc'.capShown]
  /\ proc'.capShown = (proc.capShown \/ (PushesUsage(u) /\ Threshold(u) = 100))
  /\ banners'.eighty = [banners.eighty EXCEPT ![u.month] =
                          IF PushesUsage(u) /\ Threshold(u) = 80 THEN @ + 1 ELSE @]
  /\ banners'.cap = [banners.cap EXCEPT ![u.month] =
                       IF PushesUsage(u) /\ Threshold(u) = 100 THEN @ + 1 ELSE @]
  /\ banners'.deferral = IF PushesDeferral(u) THEN banners.deferral + 1 ELSE banners.deferral
  /\ banners'.late = (banners.late \/ (PushesUsage(u) /\ u.month < disk.notify.month))

LEMMA NotifiesIs ==
  ASSUME disk \in Disks, proc \in Procs, banners \in Shows, Notifies(proc.usage)
  PROVE  /\ Shown(proc.usage)
         /\ disk' \in Disks /\ proc' \in Procs /\ banners' \in Shows
<1> DEFINE u == proc.usage
<1>1. u \in Verdicts /\ u.month \in Months /\ proc.capShown \in BOOLEAN
  BY DEF Procs, Verdicts
<1>2. disk.notify \in Notes /\ banners.eighty \in [Months -> Nat] /\ banners.cap \in [Months -> Nat]
      /\ banners.deferral \in Nat /\ banners.late \in BOOLEAN
  BY DEF Disks, Shows
<1>3. Recorded(u) \in Notes
  BY <1>1, RecordedIs
<1>4. /\ disk' = [disk EXCEPT !.notify = disk'.notify] /\ disk' \in Disks
      /\ \/ PushesUsage(u) /\ disk'.notify = Recorded(u)
         \/ ~PushesUsage(u) /\ PushesDeferral(u) /\ disk'.notify = [disk.notify EXCEPT !.deferral = TRUE]
         \/ ~PushesUsage(u) /\ ~PushesDeferral(u) /\ disk'.notify = disk.notify
  <2> DEFINE n == IF PushesUsage(u) THEN Recorded(u)
                  ELSE IF PushesDeferral(u) THEN [disk.notify EXCEPT !.deferral = TRUE]
                  ELSE disk.notify
  <2>1. disk' = [disk EXCEPT !.notify = n]
    BY DEF Notifies
  <2>2. [disk.notify EXCEPT !.deferral = TRUE] \in Notes
    BY <1>2 DEF Notes
  <2>3. n \in Notes
    BY <1>2, <1>3, <2>2
  <2>4. disk'.notify = n /\ disk' \in Disks
    <3> HIDE DEF n
    <3> QED BY <2>1, <2>3 DEF Disks
  <2>5. disk' = [disk EXCEPT !.notify = disk'.notify]
    <3> HIDE DEF n
    <3> QED BY <2>1, <2>4
  <2> QED BY <2>4, <2>5
<1>5. /\ proc' = [Frozen EXCEPT !.capShown = proc'.capShown] /\ proc' \in Procs
      /\ proc'.capShown = (proc.capShown \/ (PushesUsage(u) /\ Threshold(u) = 100))
  <2> DEFINE s == proc.capShown \/ (PushesUsage(u) /\ Threshold(u) = 100)
  <2>1. Frozen \in Procs /\ Frozen.capShown = proc.capShown
    BY FrozenIs
  <2>2. proc' = [Frozen EXCEPT !.capShown = s]
    BY <2>1 DEF Notifies
  <2>3. s \in BOOLEAN
    OBVIOUS
  <2>4. proc'.capShown = s /\ proc' \in Procs
    <3> HIDE DEF s
    <3> QED BY <2>1, <2>2, <2>3 DEF Procs
  <2>5. proc' = [Frozen EXCEPT !.capShown = proc'.capShown]
    <3> HIDE DEF s
    <3> QED BY <2>2, <2>4
  <2> QED BY <2>4, <2>5
<1>6. /\ banners'.eighty = [banners.eighty EXCEPT ![u.month] =
                              IF PushesUsage(u) /\ Threshold(u) = 80 THEN @ + 1 ELSE @]
      /\ banners'.cap = [banners.cap EXCEPT ![u.month] =
                           IF PushesUsage(u) /\ Threshold(u) = 100 THEN @ + 1 ELSE @]
      /\ banners'.deferral = IF PushesDeferral(u) THEN banners.deferral + 1 ELSE banners.deferral
      /\ banners'.late = (banners.late \/ (PushesUsage(u) /\ u.month < disk.notify.month))
      /\ banners' = [eighty |-> banners'.eighty, cap |-> banners'.cap,
                     deferral |-> banners'.deferral, late |-> banners'.late]
  BY Zenon DEF Notifies
<1>7. banners' \in Shows
  <2>1. banners'.eighty \in [Months -> Nat]
    <3>1. \A k : k \in Nat => k + 1 \in Nat
      OBVIOUS
    <3> QED BY <1>1, <1>2, <1>6, <3>1
  <2>2. banners'.cap \in [Months -> Nat]
    BY <1>1, <1>2, <1>6
  <2>3. banners'.deferral \in Nat
    BY <1>2, <1>6
  <2>4. banners'.late \in BOOLEAN
    BY <1>6
  <2> QED BY <1>6, <2>1, <2>2, <2>3, <2>4 DEF Shows
<1> QED BY <1>4, <1>5, <1>6, <1>7 DEF Shown

\* A call's own step, whatever the tool.
LEMMA StepTypes ==
  ASSUME Parts, NEW c \in Calls, Steps(c)
  PROVE  Parts'
<1> USE DEF Parts
<1>1. CASE Gate(c)
  <2>1. UNCHANGED <<account, counted, month, starts, tool, wait, ask, said, snap, queue, slot, lastSaid, alone>>
    BY <1>1 DEF Gate, backend, resolves, transport
  <2>2. disk' \in Disks /\ proc' \in Procs /\ banners' \in Shows
    <3>1. CASE Notifies(proc.usage)
      BY <3>1, NotifiesIs
    <3>2. CASE proc' = Frozen /\ UNCHANGED <<disk, banners>>
      BY <3>2, FrozenIs
    <3> QED BY <1>1, <3>1, <3>2 DEF Gate
  <2>3. pc' \in [Calls -> Places]
    BY <1>1 DEF Gate, CallsOK, Places, Over
  <2> QED BY <2>1, <2>2, <2>3 DEF BackendOK, CallsOK, ChecksOK, QueueOK, HistoryOK
<1>2. CASE Ends(c)
  <2>1. /\ tool' = [tool EXCEPT ![c] = "use"]
        /\ UNCHANGED <<account, month, starts, disk, wait, ask, said, snap, queue, slot,
                       lastSaid, alone, banners>>
    BY <1>2 DEF Ends, resolves, transport
  <2>2. counted' \in 0..Limit
    BY <1>2, Bounds DEF Ends, BackendOK
  <2>3. proc' \in Procs
    <3>1. CASE proc' = proc
      BY <3>1
    <3>2. CASE proc' # proc
      <4> DEFINE u == [proc.usage EXCEPT !.used = @ + 1]
      <4>1. proc.usage \in Verdicts /\ proc.usage.used \in 0..Limit
        BY DEF Procs, Verdicts
      <4>2. proc.usage.used # Limit /\ proc' = [proc EXCEPT !.usage = u]
        BY <1>2, <3>2 DEF Ends
      <4>3. proc.usage.used + 1 \in 0..Limit
        BY <4>1, <4>2, Bounds
      <4>4. u \in Verdicts
        <5>1. \A n \in 0..Limit : [proc.usage EXCEPT !.used = n] \in Verdicts
          BY <4>1 DEF Verdicts
        <5> QED BY <4>3, <5>1
      <4> HIDE DEF u
      <4> QED BY <4>2, <4>4 DEF Procs
    <3> QED BY <3>1, <3>2
  <2>4. pc' \in [Calls -> Places]
    BY <1>2 DEF Ends, CallsOK, Places, Over
  <2> QED BY <2>1, <2>2, <2>3, <2>4 DEF BackendOK, CallsOK, ChecksOK, QueueOK, HistoryOK
<1>3. CASE StatusRefreshes(c)
  <2>1. /\ StartsResolve(c) /\ proc' = [proc EXCEPT !.promise = c] /\ pc' = [pc EXCEPT ![c] = "await"]
        /\ UNCHANGED <<account, counted, month, starts, disk, tool, queue, slot, lastSaid, banners>>
    BY <1>3 DEF StatusRefreshes, backend, transport
  <2>2. disk'.license \in BOOLEAN
    BY <2>1 DEF Disks
  <2>3. ChecksOK' /\ wait' \in [Calls -> Calls \union {NoCall}] /\ alone' \in BOOLEAN
    BY <2>1, <2>2, StartsTyped
  <2>4. proc' \in Procs /\ pc' \in [Calls -> Places]
    BY <2>1 DEF Procs, CallsOK, Places
  <2> QED BY <2>1, <2>3, <2>4 DEF BackendOK, CallsOK, QueueOK, HistoryOK
<1>4. CASE Activates(c)
  <2>1. /\ StartsResolve(c) /\ proc' = [proc EXCEPT !.promise = c] /\ pc' = [pc EXCEPT ![c] = "await"]
        /\ disk' = [disk EXCEPT !.license = FALSE] /\ account' \in {account, "pro"}
        /\ UNCHANGED <<counted, month, starts, tool, queue, slot, lastSaid, banners>>
    BY <1>4 DEF Activates, Linked, transport
  <2>2. disk' \in Disks /\ disk'.license \in BOOLEAN
    BY <2>1 DEF Disks
  <2>3. ChecksOK' /\ wait' \in [Calls -> Calls \union {NoCall}] /\ alone' \in BOOLEAN
    BY <2>1, <2>2, StartsTyped
  <2>4. proc' \in Procs /\ pc' \in [Calls -> Places]
    BY <2>1 DEF Procs, CallsOK, Places
  <2>5. BackendOK'
    BY <2>1 DEF BackendOK, Kinds
  <2> QED BY <2>1, <2>2, <2>3, <2>4, <2>5 DEF CallsOK, QueueOK, HistoryOK
<1>5. CASE ActivationFails(c)
  <2>1. account' \in {account, "pro"} /\ pc' = [pc EXCEPT ![c] = "ending"]
        /\ UNCHANGED <<counted, month, starts, disk, proc, tool, wait, ask, said, snap, queue, slot,
                       lastSaid, alone, banners>>
    BY <1>5 DEF ActivationFails, Linked, resolves, transport
  <2>2. pc' \in [Calls -> Places] /\ account' \in Kinds \ {"none"}
    BY <2>1 DEF CallsOK, Places, BackendOK, Kinds
  <2> QED BY <2>1, <2>2 DEF BackendOK, CallsOK, ChecksOK, QueueOK, HistoryOK
<1>6. CASE Refreezes(c)
  <2>1. /\ proc' = [proc EXCEPT !.frozen = TRUE, !.block = Block(proc.usage)]
        /\ pc' = [pc EXCEPT ![c] = "ending"]
        /\ UNCHANGED <<account, counted, month, starts, disk, tool, wait, ask, said, snap, queue, slot,
                       lastSaid, alone, banners>>
    BY <1>6 DEF Refreezes, backend, resolves, transport
  <2>2. Block(proc.usage) \in {"none", "cap", "flagged"}
    BY DEF Block
  <2>3. proc' \in Procs /\ pc' \in [Calls -> Places]
    BY <2>1, <2>2 DEF Procs, CallsOK, Places
  <2> QED BY <2>1, <2>3 DEF BackendOK, CallsOK, ChecksOK, QueueOK, HistoryOK
<1>7. CASE Deletes(c)
  <2>1. /\ disk' = [disk EXCEPT !.license = FALSE, !.orphan = TRUE] /\ pc' = [pc EXCEPT ![c] = "ending"]
        /\ UNCHANGED <<account, counted, month, starts, proc, tool, wait, ask, said, snap, queue, slot,
                       lastSaid, alone, banners>>
    BY <1>7 DEF Deletes, backend, resolves, transport
  <2>2. disk' \in Disks /\ pc' \in [Calls -> Places]
    BY <2>1 DEF Disks, CallsOK, Places
  <2> QED BY <2>1, <2>2 DEF BackendOK, CallsOK, ChecksOK, QueueOK, HistoryOK
<1> QED BY <1>1, <1>2, <1>3, <1>4, <1>5, <1>6, <1>7 DEF Steps

\* A validation, answered, timed out or on its way.
LEMMA CheckTypes ==
  ASSUME Parts, NEW c \in Calls, Checks(c)
  PROVE  Parts'
<1> USE DEF Parts
<1>1. CASE BackendAnswers(c)
  <2>1. /\ ask' = [ask EXCEPT ![c] = "answered"]
        /\ \E v \in {Verdict, NoVerdict} : said' = [said EXCEPT ![c] = v]
        /\ UNCHANGED <<account, counted, month, starts, disk, proc, pc, tool, wait, snap, queue, slot,
                       lastSaid, alone, banners>>
    BY <1>1 DEF BackendAnswers, backend, transport
  <2>2. Verdict \in Verdicts /\ NoVerdict \in Verdicts
    BY VerdictIs, NoneIsAVerdict
  <2>3. ChecksOK'
    BY <2>1, <2>2 DEF ChecksOK
  <2> QED BY <2>1, <2>3 DEF BackendOK, CallsOK, QueueOK, HistoryOK
<1>2. CASE Resolves(c)
  <2>1. /\ Settled(c)
        /\ UNCHANGED <<account, counted, month, starts, tool, queue, slot, alone, banners>>
    BY <1>2 DEF Resolves, backend, transport
  <2>2. CallsOK' /\ ChecksOK'
    BY <2>1, SettledTyped
  <2>3. said[c] \in Verdicts
    BY DEF ChecksOK
  <2>4. disk' \in Disks /\ proc' \in Procs /\ lastSaid' \in Verdicts
    <3>1. proc' \in Procs
      <4>1. \/ proc' = [proc EXCEPT !.source = "api", !.usage = @]
            \/ proc' = [proc EXCEPT !.source = "api", !.usage = said[c]]
        BY <1>2 DEF Resolves
      <4> QED BY <2>3, <4>1 DEF Procs
    <3>2. CASE disk' = [disk EXCEPT !.license = TRUE] /\ lastSaid' = lastSaid
      BY <3>1, <3>2 DEF Disks, HistoryOK
    <3>3. CASE /\ disk' = [disk EXCEPT !.license = TRUE, !.usage = said[c], !.inGrace = TRUE]
               /\ lastSaid' = said[c]
      BY <2>3, <3>1, <3>3 DEF Disks
    <3> QED BY <1>2, <3>1, <3>2, <3>3 DEF Resolves
  <2> QED BY <2>1, <2>2, <2>4 DEF BackendOK, QueueOK, HistoryOK
<1>3. CASE Unreachable(c)
  <2>1. /\ Settled(c) /\ disk' \in {disk, [disk EXCEPT !.license = TRUE]}
        /\ UNCHANGED <<account, counted, month, starts, tool, queue, slot, lastSaid, alone, banners>>
    BY <1>3 DEF Unreachable, backend, transport
  <2>2. CallsOK' /\ ChecksOK'
    BY <2>1, SettledTyped
  <2>3. disk' \in Disks
    BY <2>1 DEF Disks
  <2>4. proc' \in Procs
    <3>1. snap[c].usage \in Verdicts /\ snap[c].inGrace \in BOOLEAN
      BY DEF ChecksOK, Caches
    <3>2. Offline(snap[c].usage, snap[c].inGrace) \in Verdicts
      BY <3>1, OfflineIs
    <3>3. \/ proc' = [proc EXCEPT !.source = "default"]
          \/ proc' = [proc EXCEPT !.source = "cache", !.usage = Offline(snap[c].usage, snap[c].inGrace)]
      BY <1>3 DEF Unreachable
    <3> QED BY <3>2, <3>3 DEF Procs
  <2> QED BY <2>1, <2>2, <2>3, <2>4 DEF BackendOK, QueueOK, HistoryOK
<1> QED BY <1>1, <1>2, <1>3 DEF Checks

\* A request, on either transport.
LEMMA RequestTypes ==
  ASSUME Parts, NEW c \in Calls, Arrives(c) \/ Queued(c)
  PROVE  Parts'
<1> USE DEF Parts
<1>1. CASE \E t \in Tools : Calls_(c, t)
  <2>1. PICK t \in Tools : Calls_(c, t)
    BY <1>1
  <2>2. /\ tool' = [tool EXCEPT ![c] = t] /\ Wraps(c)
        /\ UNCHANGED <<account, counted, month, starts, disk, queue, slot, lastSaid, banners>>
    BY <2>1 DEF Calls_, backend, transport
  <2>3. tool' \in [Calls -> Tools \union {"use"}]
    BY <2>2 DEF CallsOK
  <2>4. proc' \in Procs /\ CallsOK' /\ ChecksOK' /\ HistoryOK'
    BY <2>2, <2>3, WrapsTyped
  <2> QED BY <2>2, <2>4 DEF BackendOK, QueueOK
<1>2. CASE \E t \in Tools : Posts(c, t)
  <2>1. PICK t \in Tools : Posts(c, t)
    BY <1>2
  <2>2. /\ tool' = [tool EXCEPT ![c] = t] /\ pc' = [pc EXCEPT ![c] = "queued"] /\ queue' = Append(queue, c)
        /\ UNCHANGED <<account, counted, month, starts, disk, proc, wait, ask, said, snap, slot,
                       lastSaid, alone, banners>>
    BY <2>1 DEF Posts, backend, resolves
  <2>3. CallsOK'
    BY <2>2 DEF CallsOK, Places
  <2>4. QueueOK'
    BY <2>2 DEF QueueOK
  <2> QED BY <2>2, <2>3, <2>4 DEF BackendOK, ChecksOK, HistoryOK
<1>3. ASSUME queue # <<>>
      PROVE  Tail(queue) \in Seq(Calls)
  BY <1>3 DEF QueueOK
<1>4. CASE Serves(c)
  <2>1. /\ queue # <<>> /\ slot' = c /\ queue' = Tail(queue) /\ Wraps(c)
        /\ UNCHANGED <<account, counted, month, starts, disk, tool, lastSaid, banners>>
    BY <1>4 DEF Serves, backend
  <2>2. tool' \in [Calls -> Tools \union {"use"}]
    BY <2>1 DEF CallsOK
  <2>3. proc' \in Procs /\ CallsOK' /\ ChecksOK' /\ HistoryOK'
    BY <2>1, <2>2, WrapsTyped
  <2> QED BY <1>3, <2>1, <2>3 DEF BackendOK, QueueOK
<1>5. CASE ServeFails(c)
  <2>1. /\ queue # <<>> /\ queue' = Tail(queue) /\ pc' = [pc EXCEPT ![c] = "failed"]
        /\ UNCHANGED <<account, counted, month, starts, disk, proc, tool, wait, ask, said, snap, slot,
                       lastSaid, alone, banners>>
    BY <1>5 DEF ServeFails, backend, resolves
  <2>2. pc' \in [Calls -> Places]
    BY <2>1 DEF CallsOK, Places, Over
  <2> QED BY <1>3, <2>1, <2>2 DEF BackendOK, CallsOK, ChecksOK, QueueOK, HistoryOK
<1> QED BY <1>1, <1>2, <1>4, <1>5 DEF Arrives, Queued

LEMMA WorldTypes ==
  ASSUME Parts, World
  PROVE  Parts'
<1> USE DEF Parts
<1>1. CASE Restarts
  <2>1. /\ starts' = starts + 1 /\ starts < MaxStarts /\ month' = month
        /\ account' \in {account, "free"} /\ counted' \in {counted, 0}
        /\ lastSaid' \in {lastSaid, NoVerdict} /\ alone' = TRUE
    BY <1>1 DEF Restarts
  <2>2. BackendOK' /\ HistoryOK'
    BY <2>1, Bounds, NoneIsAVerdict DEF BackendOK, HistoryOK, Kinds
  <2>3. disk' \in Disks
    <3>1. CASE disk.orphan
      <4>1. disk' = [disk EXCEPT !.license = FALSE, !.usage = NoVerdict, !.orphan = FALSE]
        BY <1>1, <3>1 DEF Restarts
      <4> QED BY <4>1, NoneIsAVerdict DEF Disks
    <3>2. CASE ~disk.orphan
      BY <1>1, <3>2 DEF Restarts
    <3> QED BY <3>1, <3>2
  <2>4. proc' \in Procs
    <3>1. proc' = Fresh(proc.http)
      BY <1>1 DEF Restarts
    <3> QED BY <3>1, NoneIsAVerdict DEF Fresh, Procs
  <2>5. CallsOK'
    BY <1>1 DEF Restarts, CallsOK, Places, Over
  <2>6. ChecksOK'
    BY <1>1, NoneIsAVerdict DEF Restarts, ChecksOK
  <2>7. QueueOK'
    BY <1>1 DEF Restarts, QueueOK
  <2>8. banners' \in Shows
    <3>1. banners' = [banners EXCEPT !.cap = [m \in Months |-> 0]]
      BY <1>1 DEF Restarts
    <3>2. [m \in Months |-> 0] \in [Months -> Nat]
      OBVIOUS
    <3> QED BY <3>1, <3>2 DEF Shows
  <2> QED BY <2>2, <2>3, <2>4, <2>5, <2>6, <2>7, <2>8
<1>2. CASE NewMonth
  <2>1. /\ month < MaxMonth /\ month' = month + 1 /\ counted' = 0
        /\ UNCHANGED <<account, starts, disk, proc, pc, tool, wait, ask, said, snap, queue, slot,
                       lastSaid, alone, banners>>
    BY <1>2 DEF NewMonth, resolves, transport
  <2>2. BackendOK'
    BY <2>1, Bounds DEF BackendOK
  <2> QED BY <2>1, <2>2 DEF CallsOK, ChecksOK, QueueOK, HistoryOK
<1>3. CASE GraceEnds
  <2>1. /\ disk' = [disk EXCEPT !.inGrace = FALSE]
        /\ snap' = [c \in Calls |-> [snap[c] EXCEPT !.inGrace = FALSE]]
        /\ UNCHANGED <<account, counted, month, starts, proc, pc, tool, wait, ask, said, queue, slot,
                       lastSaid, alone, banners>>
    BY <1>3 DEF GraceEnds, backend, transport
  <2>2. disk' \in Disks
    BY <2>1 DEF Disks
  <2>3. ChecksOK'
    <3>1. \A c \in Calls : [snap[c] EXCEPT !.inGrace = FALSE] \in Caches
      BY DEF ChecksOK, Caches
    <3> QED BY <2>1, <3>1 DEF ChecksOK
  <2> QED BY <2>1, <2>2, <2>3 DEF BackendOK, CallsOK, QueueOK, HistoryOK
<1>4. CASE AccountChanges
  <2>1. /\ account' = "flagged"
        /\ UNCHANGED <<counted, month, starts, disk, proc, pc, tool, wait, ask, said, snap, queue, slot,
                       lastSaid, alone, banners>>
    BY <1>4 DEF AccountChanges, resolves, transport
  <2> QED BY <2>1 DEF BackendOK, Kinds, CallsOK, ChecksOK, QueueOK, HistoryOK
<1> QED BY <1>1, <1>2, <1>3, <1>4 DEF World

LEMMA NextTypes ==
  ASSUME Parts, [Next]_vars
  PROVE  Parts'
<1>1. CASE World
  BY <1>1, WorldTypes
<1>2. CASE Releases
  <2>1. /\ slot' = NoCall
        /\ UNCHANGED <<account, counted, month, starts, disk, proc, pc, tool, wait, ask, said, snap, queue,
                       lastSaid, alone, banners>>
    BY <1>2 DEF Releases, backend, resolves
  <2> QED BY <2>1 DEF Parts, BackendOK, CallsOK, ChecksOK, QueueOK, HistoryOK
<1>3. ASSUME NEW c \in Calls, Arrives(c) \/ Steps(c) \/ Checks(c) \/ Queued(c)
      PROVE  Parts'
  BY <1>3, RequestTypes, StepTypes, CheckTypes
<1>4. CASE UNCHANGED vars
  BY <1>4 DEF vars, backend, resolves, transport, Parts, BackendOK, CallsOK, ChecksOK, QueueOK, HistoryOK
<1> QED BY <1>1, <1>2, <1>3, <1>4 DEF Next

-----------------------------------------------------------------------------
(* What a step leaves alone.  Only a call that passes the gate, one that    *)
(* refreezes the verdict, and a restart touch the banners or the block.     *)

Quiet == /\ disk'.notify = disk.notify /\ banners' = banners
         /\ proc'.capShown = proc.capShown /\ proc'.frozen = proc.frozen /\ proc'.block = proc.block

LEMMA QuietSteps ==
  ASSUME Parts, [Next]_vars
  PROVE  Quiet \/ Restarts \/ \E c \in Calls : Gate(c) \/ Refreezes(c)
<1> USE DEF Parts
<1>1. ASSUME NEW c \in Calls, Wraps(c), UNCHANGED <<disk, banners>>
      PROVE  Quiet
  <2>1. proc' \in {proc, [proc EXCEPT !.promise = c]}
    BY <1>1 DEF Wraps
  <2> QED BY <1>1, <2>1 DEF Quiet, Procs
<1>2. ASSUME NEW c \in Calls, Arrives(c) \/ Queued(c)
      PROVE  Quiet
  <2>1. CASE \E t \in Tools : Calls_(c, t)
    BY <1>1, <2>1 DEF Calls_
  <2>2. CASE \E t \in Tools : Posts(c, t)
    BY <2>2 DEF Posts, Quiet
  <2>3. CASE Serves(c)
    BY <1>1, <2>3 DEF Serves
  <2>4. CASE ServeFails(c)
    BY <2>4 DEF ServeFails, Quiet
  <2> QED BY <1>2, <2>1, <2>2, <2>3, <2>4 DEF Arrives, Queued
<1>3. ASSUME NEW c \in Calls, Steps(c), ~Gate(c), ~Refreezes(c)
      PROVE  Quiet
  <2>1. CASE Ends(c)
    <3>1. /\ disk' = disk /\ banners' = banners
          /\ \/ proc' = proc
             \/ proc' = [proc EXCEPT !.usage = [proc.usage EXCEPT !.used = @ + 1]]
      BY <2>1 DEF Ends
    <3> QED BY <3>1 DEF Quiet, Procs
  <2>2. CASE StatusRefreshes(c)
    BY <2>2 DEF StatusRefreshes, Quiet, Procs
  <2>3. CASE Activates(c)
    BY <2>3 DEF Activates, Quiet, Procs, Disks
  <2>4. CASE ActivationFails(c)
    BY <2>4 DEF ActivationFails, Quiet
  <2>5. CASE Deletes(c)
    BY <2>5 DEF Deletes, Quiet, Disks
  <2> QED BY <1>3, <2>1, <2>2, <2>3, <2>4, <2>5 DEF Steps
<1>4. ASSUME NEW c \in Calls, Checks(c)
      PROVE  Quiet
  <2>1. CASE BackendAnswers(c)
    BY <2>1 DEF BackendAnswers, Quiet
  <2>2. CASE Resolves(c)
    <3>1. /\ banners' = banners
          /\ \/ disk' = [disk EXCEPT !.license = TRUE]
             \/ disk' = [disk EXCEPT !.license = TRUE, !.usage = said[c], !.inGrace = TRUE]
          /\ \/ proc' = [proc EXCEPT !.source = "api", !.usage = @]
             \/ proc' = [proc EXCEPT !.source = "api", !.usage = said[c]]
      BY <2>2 DEF Resolves
    <3> QED BY <3>1 DEF Quiet, Procs, Disks
  <2>3. CASE Unreachable(c)
    <3>1. /\ banners' = banners /\ disk' \in {disk, [disk EXCEPT !.license = TRUE]}
          /\ \/ proc' = [proc EXCEPT !.source = "default"]
             \/ proc' = [proc EXCEPT !.source = "cache",
                                     !.usage = Offline(snap[c].usage, snap[c].inGrace)]
      BY <2>3 DEF Unreachable
    <3> QED BY <3>1 DEF Quiet, Procs, Disks
  <2> QED BY <1>4, <2>1, <2>2, <2>3 DEF Checks
<1>5. CASE World /\ ~Restarts
  <2>1. CASE NewMonth \/ AccountChanges
    BY <2>1 DEF NewMonth, AccountChanges, Quiet
  <2>2. CASE GraceEnds
    BY <2>2 DEF GraceEnds, Quiet, Disks
  <2> QED BY <1>5, <2>1, <2>2 DEF World
<1>6. CASE Releases
  BY <1>6 DEF Releases, Quiet
<1>7. CASE UNCHANGED vars
  BY <1>7 DEF vars, Quiet
<1> QED BY <1>2, <1>3, <1>4, <1>5, <1>6, <1>7 DEF Next

-----------------------------------------------------------------------------
(* The banners.                                                            *)

LEMMA InitRationed ==
  ASSUME Init
  PROVE  Rationed
<1>1. /\ disk.notify = [month |-> 0, threshold |-> 0, deferral |-> FALSE]
      /\ banners.eighty = [m \in Months |-> 0] /\ banners.cap = [m \in Months |-> 0]
      /\ banners.deferral = 0
  BY DEF Init, Empty
<1> QED BY <1>1, Bounds DEF Rationed

LEMMA GateRationed ==
  ASSUME Parts, Rationed, Notifies(proc.usage)
  PROVE  Rationed'
<1> DEFINE u == proc.usage
           n == disk.notify
<1>1. /\ Shown(u) /\ disk' \in Disks /\ proc' \in Procs /\ banners' \in Shows
  BY NotifiesIs DEF Parts
<1>2. /\ u \in Verdicts /\ u.month \in Months /\ n \in Notes /\ n.month \in Months
      /\ banners.eighty \in [Months -> Nat] /\ banners.cap \in [Months -> Nat]
      /\ banners.deferral \in Nat /\ banners.late \in BOOLEAN /\ disk \in Disks
      /\ proc.capShown \in BOOLEAN
  BY DEF Parts, Procs, Disks, Shows, Verdicts, Notes
<1>3. u.month \in Nat /\ n.month \in Nat
  BY <1>2, Bounds
<1>4. /\ Recorded(u).deferral = n.deferral /\ Threshold(u) \in {0, 80, 100}
      /\ PushesUsage(u) =>
           /\ Threshold(u) # 0
           /\ Recorded(u).month = u.month /\ Recorded(u).threshold \in {100, Threshold(u)}
           /\ n.month = u.month =>
                   \/ n.threshold \notin {100, Threshold(u)}
                   \/ n.threshold = 100 /\ Threshold(u) = 100 /\ ~proc.capShown
  BY <1>2, RecordedIs
<1>5. PushesUsage(u) /\ PushesDeferral(u) => FALSE
  BY <1>2 DEF PushesUsage, PushesDeferral, Threshold, Capped
<1>6. banners'.deferral <= 1 /\ (banners'.deferral = 1 => disk'.notify.deferral)
  <2>1. CASE PushesDeferral(u)
    <3>1. ~n.deferral /\ banners.deferral = 0
      BY <1>2, <2>1 DEF PushesDeferral, Rationed
    <3>2. disk'.notify.deferral = TRUE
      BY <1>1, <1>2, <1>5, <2>1 DEF Shown, Notes
    <3> QED BY <1>1, <2>1, <3>1, <3>2 DEF Shown
  <2>2. CASE ~PushesDeferral(u)
    <3>1. disk'.notify.deferral = n.deferral
      BY <1>1, <1>4, <2>2 DEF Shown
    <3> QED BY <1>1, <2>2, <3>1 DEF Shown, Rationed
  <2> QED BY <2>1, <2>2
<1>7. ASSUME ~banners'.late
      PROVE  /\ \A m \in Months : m > disk'.notify.month => banners'.eighty[m] = 0 /\ banners'.cap[m] = 0
             /\ \A m \in Months : banners'.eighty[m] <= 1 /\ banners'.cap[m] <= 1
             /\ banners'.eighty[disk'.notify.month] > 0 => disk'.notify.threshold \in {80, 100}
             /\ banners'.cap[disk'.notify.month] > 0 => disk'.notify.threshold = 100 /\ proc'.capShown
  <2>1. ~banners.late /\ ~(PushesUsage(u) /\ u.month < n.month)
    BY <1>1, <1>7 DEF Shown
  <2>2. /\ \A m \in Months : m > n.month => banners.eighty[m] = 0 /\ banners.cap[m] = 0
        /\ \A m \in Months : banners.eighty[m] <= 1 /\ banners.cap[m] <= 1
        /\ banners.eighty[n.month] > 0 => n.threshold \in {80, 100}
        /\ banners.cap[n.month] > 0 => n.threshold = 100 /\ proc.capShown
    BY <2>1 DEF Rationed
  <2>3. CASE ~PushesUsage(u)
    <3>1. /\ \A m \in Months : banners'.eighty[m] = banners.eighty[m] /\ banners'.cap[m] = banners.cap[m]
          /\ disk'.notify.month = n.month /\ disk'.notify.threshold = n.threshold
      BY <1>1, <1>2, <2>3 DEF Shown, Notes
    <3>2. proc'.capShown = proc.capShown
      BY <1>1, <1>2, <2>3 DEF Shown
    <3> QED BY <1>2, <2>2, <3>1, <3>2
  <2>4. CASE PushesUsage(u)
    <3>1. /\ disk'.notify.month = u.month /\ disk'.notify.threshold \in {100, Threshold(u)}
          /\ u.month >= n.month /\ Threshold(u) \in {80, 100}
      BY <1>1, <1>3, <1>4, <2>1, <2>4 DEF Shown
    <3>2. /\ \A m \in Months : m # u.month =>
                 banners'.eighty[m] = banners.eighty[m] /\ banners'.cap[m] = banners.cap[m]
          /\ banners'.eighty[u.month] = IF Threshold(u) = 80 THEN banners.eighty[u.month] + 1
                                        ELSE banners.eighty[u.month]
          /\ banners'.cap[u.month] = IF Threshold(u) = 100 THEN banners.cap[u.month] + 1
                                     ELSE banners.cap[u.month]
      BY <1>1, <1>2, <2>4 DEF Shown
    <3>3. \A m \in Months : m \in Nat /\ (m > u.month => m > n.month)
      BY <1>3, <3>1, Bounds
    <3>4. Threshold(u) = 80 => banners.eighty[u.month] = 0
      BY <1>2, <1>3, <1>4, <2>2, <2>4, <3>1
    <3>5. Threshold(u) = 100 => banners.cap[u.month] = 0 /\ proc'.capShown
      <4>1. Threshold(u) = 100 => proc'.capShown
        BY <1>1, <2>4 DEF Shown
      <4>2. Threshold(u) = 100 => banners.cap[u.month] = 0
        BY <1>2, <1>3, <1>4, <2>2, <2>4, <3>1
      <4> QED BY <4>1, <4>2
    <3>6. Threshold(u) = 80 => banners.cap[u.month] = 0
      BY <1>2, <1>3, <1>4, <2>2, <2>4, <3>1
    <3>7. \A m \in Months : banners'.eighty[m] <= 1 /\ banners'.cap[m] <= 1
      BY <1>2, <2>2, <3>2, <3>4, <3>5
    <3>8. \A m \in Months : m > u.month => banners'.eighty[m] = 0 /\ banners'.cap[m] = 0
      BY <1>3, <2>2, <3>2, <3>3
    <3>9. banners'.cap[u.month] > 0 => disk'.notify.threshold = 100 /\ proc'.capShown
      BY <3>1, <3>2, <3>5, <3>6
    <3> QED BY <3>1, <3>7, <3>8, <3>9
  <2> QED BY <2>3, <2>4
<1> QED BY <1>6, <1>7 DEF Rationed

LEMMA RestartRationed ==
  ASSUME Parts, Rationed, Restarts
  PROVE  Rationed'
<1>1. banners' = [banners EXCEPT !.cap = [m \in Months |-> 0]]
  BY DEF Restarts
<1>2. /\ banners'.cap = [m \in Months |-> 0] /\ banners'.eighty = banners.eighty
      /\ banners'.deferral = banners.deferral /\ banners'.late = banners.late
  BY <1>1 DEF Parts, Shows
<1>3. disk'.notify = disk.notify
  BY DEF Restarts, Parts, Disks
<1>4. disk.notify.month \in Months
  BY DEF Parts, Disks, Notes
<1> QED BY <1>2, <1>3, <1>4 DEF Rationed

LEMMA NextRationed ==
  ASSUME Parts, Rationed, [Next]_vars
  PROVE  Rationed'
<1>1. CASE Quiet
  BY <1>1 DEF Quiet, Rationed
<1>2. CASE Restarts
  BY <1>2, RestartRationed
<1>3. ASSUME NEW c \in Calls, Gate(c)
      PROVE  Rationed'
  <2>1. CASE Notifies(proc.usage)
    BY <2>1, GateRationed
  <2>2. CASE proc' = Frozen /\ UNCHANGED <<disk, banners>>
    <3>1. proc'.capShown = proc.capShown
      BY <2>2, FrozenIs DEF Parts
    <3> QED BY <2>2, <3>1 DEF Rationed
  <2> QED BY <1>3, <2>1, <2>2 DEF Gate
<1>4. ASSUME NEW c \in Calls, Refreezes(c)
      PROVE  Rationed'
  <2>1. proc'.capShown = proc.capShown /\ UNCHANGED <<disk, banners>>
    BY <1>4 DEF Refreezes, Parts, Procs
  <2> QED BY <2>1 DEF Rationed
<1> QED BY <1>1, <1>2, <1>3, <1>4, QuietSteps

-----------------------------------------------------------------------------
(* The verdicts.                                                           *)

Told == Said /\ Alone /\ Ruled

LEMMA InitTold ==
  ASSUME Init, TypeOK
  PROVE  Told
<1>1. /\ lastSaid = NoVerdict /\ disk.usage = NoVerdict /\ InFlight = {} /\ month = 0
      /\ \A c \in Calls : ask[c] = "none"
      /\ proc.source = "none"
  BY DEF Init, Empty, InFlight, Fresh
<1>2. Coherent(NoVerdict)
  BY <1>1, NoneIsCoherent, Bounds
<1> QED BY <1>1, <1>2 DEF Told, Said, Alone, Ruled

\* Most steps do not touch what the verdicts depend on.
Untouched == /\ UNCHANGED <<lastSaid, ask, said, snap, month, alone>>
             /\ disk'.usage = disk.usage /\ proc'.source = proc.source
             /\ proc'.usage.kind = proc.usage.kind /\ proc'.usage.canUse = proc.usage.canUse

LEMMA UntouchedTold ==
  ASSUME Told, Untouched
  PROVE  Told'
<1>1. Said'
  BY DEF Told, Untouched, Said, Coherent
<1>2. Alone'
  BY DEF Told, Untouched, Alone, InFlight
<1>3. Ruled'
  BY DEF Told, Untouched, Ruled, Agrees, OverCap
<1> QED BY <1>1, <1>2, <1>3 DEF Told

\* A resolve that starts reads the signed verdict received last.
LEMMA StartsTold ==
  ASSUME Parts, Told, NEW c \in Calls, StartsResolve(c), UNCHANGED <<lastSaid, month>>,
         disk'.usage = disk.usage, proc'.source = proc.source, proc'.usage = proc.usage
  PROVE  Told'
<1>1. /\ ask' = [ask EXCEPT ![c] = "sent"] /\ said' = [said EXCEPT ![c] = NoVerdict]
      /\ snap' = [snap EXCEPT ![c] = [license |-> disk'.license, usage |-> disk.usage,
                                      inGrace |-> disk.inGrace]]
      /\ alone' = (alone /\ InFlight = {})
  BY DEF StartsResolve
<1>2. /\ \A d \in Calls \ {c} : ask'[d] = ask[d] /\ said'[d] = said[d]
      /\ ask'[c] = "sent" /\ snap'[c].usage = disk.usage
  BY <1>1 DEF Parts, ChecksOK
<1>3. Said'
  BY <1>2 DEF Told, Said, Coherent
<1>4. alone' => alone /\ InFlight' = {c}
  BY <1>1, <1>2 DEF InFlight
<1>5. Alone'
  BY <1>2, <1>4 DEF Told, Said, Alone
<1>6. Ruled'
  BY <1>4 DEF Told, Ruled, Agrees
<1> QED BY <1>3, <1>5, <1>6 DEF Told

LEMMA WrapsTold ==
  ASSUME Parts, Told, NEW c \in Calls, Wraps(c), UNCHANGED <<disk, lastSaid, month>>
  PROVE  Told'
<1>1. CASE proc.promise = NoCall
  <2>1. StartsResolve(c) /\ proc' = [proc EXCEPT !.promise = c]
    BY <1>1 DEF Wraps
  <2>2. proc'.source = proc.source /\ proc'.usage = proc.usage
    BY <2>1 DEF Parts, Procs
  <2> QED BY <2>1, <2>2, StartsTold
<1>2. CASE proc.promise # NoCall
  <2>1. Untouched
    BY <1>2 DEF Wraps, resolves, Untouched
  <2> QED BY <2>1, UntouchedTold
<1> QED BY <1>1, <1>2

LEMMA StepTold ==
  ASSUME Parts, Told, NEW c \in Calls, Steps(c)
  PROVE  Told'
<1> USE DEF Parts
<1>1. CASE Gate(c)
  <2>1. UNCHANGED <<lastSaid, ask, said, snap, month, alone>>
    BY <1>1 DEF Gate, backend, resolves
  <2>2. disk'.usage = disk.usage /\ proc'.source = proc.source /\ proc'.usage = proc.usage
    <3>1. CASE Notifies(proc.usage)
      <4>1. /\ disk' = [disk EXCEPT !.notify = disk'.notify]
            /\ proc' = [Frozen EXCEPT !.capShown = proc'.capShown]
        BY <3>1, NotifiesIs DEF Shown
      <4>2. disk'.usage = disk.usage
        BY <4>1 DEF Disks
      <4>3. proc'.source = Frozen.source /\ proc'.usage = Frozen.usage
        BY <4>1, FrozenIs DEF Procs
      <4> QED BY <4>2, <4>3, FrozenIs
    <3>2. CASE proc' = Frozen /\ UNCHANGED <<disk, banners>>
      BY <3>2, FrozenIs
    <3> QED BY <1>1, <3>1, <3>2 DEF Gate
  <2> QED BY <2>1, <2>2, UntouchedTold DEF Untouched
<1>2. CASE Ends(c)
  <2>1. UNCHANGED <<lastSaid, ask, said, snap, month, alone, disk>>
    BY <1>2 DEF Ends, resolves
  <2>2. \/ proc' = proc
        \/ proc' = [proc EXCEPT !.usage = [proc.usage EXCEPT !.used = @ + 1]]
    BY <1>2 DEF Ends
  <2>3. /\ proc'.source = proc.source
        /\ proc'.usage.kind = proc.usage.kind /\ proc'.usage.canUse = proc.usage.canUse
    BY <2>2 DEF Procs, Verdicts
  <2> QED BY <2>1, <2>3, UntouchedTold DEF Untouched
<1>3. CASE StatusRefreshes(c)
  <2>1. /\ StartsResolve(c) /\ proc' = [proc EXCEPT !.promise = c] /\ UNCHANGED <<disk, lastSaid, month>>
    BY <1>3 DEF StatusRefreshes, backend
  <2>2. proc'.source = proc.source /\ proc'.usage = proc.usage
    BY <2>1 DEF Procs
  <2> QED BY <2>1, <2>2, StartsTold
<1>4. CASE Activates(c)
  <2>1. /\ StartsResolve(c) /\ proc' = [proc EXCEPT !.promise = c]
        /\ disk' = [disk EXCEPT !.license = FALSE] /\ UNCHANGED <<lastSaid, month>>
    BY <1>4 DEF Activates
  <2>2. disk'.usage = disk.usage /\ proc'.source = proc.source /\ proc'.usage = proc.usage
    BY <2>1 DEF Procs, Disks
  <2> QED BY <2>1, <2>2, StartsTold
<1>5. CASE ActivationFails(c)
  <2>1. Untouched
    BY <1>5 DEF ActivationFails, resolves, Untouched
  <2> QED BY <2>1, UntouchedTold
<1>6. CASE Refreezes(c)
  <2>1. Untouched
    BY <1>6 DEF Refreezes, backend, resolves, Untouched, Procs
  <2> QED BY <2>1, UntouchedTold
<1>7. CASE Deletes(c)
  <2>1. Untouched
    BY <1>7 DEF Deletes, backend, resolves, Untouched, Disks
  <2> QED BY <2>1, UntouchedTold
<1> QED BY <1>1, <1>2, <1>3, <1>4, <1>5, <1>6, <1>7 DEF Steps

\* A resolve that ends: nobody else is under way if it was alone.
LEMMA SettledAlone ==
  ASSUME Parts, Alone, NEW c \in Calls, Settled(c), ask[c] # "none", alone' = alone
  PROVE  /\ Alone'
         /\ \A d \in Calls : ask'[d] = "answered" => ask[d] = "answered" /\ said'[d] = said[d]
         /\ alone => snap[c].usage = lastSaid
<1>1. ask' = [ask EXCEPT ![c] = "none"] /\ said' = [said EXCEPT ![c] = NoVerdict]
  BY DEF Settled
<1>2. /\ \A d \in Calls \ {c} : ask'[d] = ask[d] /\ said'[d] = said[d]
      /\ ask'[c] = "none"
  BY <1>1 DEF Parts, ChecksOK
<1>3. c \in InFlight
  BY DEF InFlight
<1>4. alone => InFlight' = {}
  BY <1>2, <1>3 DEF Alone, InFlight
<1> QED BY <1>2, <1>3, <1>4 DEF Alone

LEMMA CheckTold ==
  ASSUME Parts, Told, NEW c \in Calls, Checks(c)
  PROVE  Told'
<1> USE DEF Parts
<1>0. snap[c].usage \in Verdicts /\ snap[c].inGrace \in BOOLEAN
  BY DEF ChecksOK, Caches
<1>1. CASE BackendAnswers(c)
  <2>1. /\ ask[c] = "sent" /\ ask' = [ask EXCEPT ![c] = "answered"]
        /\ \E v \in {Verdict, NoVerdict} : said' = [said EXCEPT ![c] = v]
        /\ UNCHANGED <<month, disk, proc, snap, lastSaid, alone>>
    BY <1>1 DEF BackendAnswers, backend
  <2>2. Coherent(Verdict) /\ Coherent(NoVerdict)
    BY VerdictIs, NoneIsCoherent DEF BackendOK
  <2>3. Coherent(said'[c])
    BY <2>1, <2>2 DEF ChecksOK
  <2>4. \A d \in Calls : /\ d # c => ask'[d] = ask[d] /\ said'[d] = said[d]
                         /\ ask'[d] # "none" <=> ask[d] # "none"
    BY <2>1 DEF ChecksOK
  <2>5. Said'
    BY <2>1, <2>3, <2>4 DEF Told, Said, Coherent
  <2>6. Alone'
    BY <2>1, <2>4 DEF Told, Alone, InFlight
  <2>7. Ruled'
    BY <2>1 DEF Told, Ruled, Agrees
  <2> QED BY <2>5, <2>6, <2>7 DEF Told
<1>2. CASE Resolves(c)
  <2>1. Settled(c) /\ ask[c] = "answered" /\ alone' = alone /\ month' = month
    BY <1>2 DEF Resolves, backend
  <2>2. /\ Alone' /\ \A d \in Calls : ask'[d] = "answered" => ask[d] = "answered" /\ said'[d] = said[d]
    BY <2>1, SettledAlone DEF Told
  <2>3. disk'.usage = lastSaid' /\ Coherent(lastSaid') /\ proc'.source = "api"
    <3>1. proc'.source = "api"
      BY <1>2 DEF Resolves, Procs
    <3>2. CASE disk' = [disk EXCEPT !.license = TRUE] /\ lastSaid' = lastSaid
      BY <2>1, <3>1, <3>2 DEF Disks, Told, Said, Coherent
    <3>3. CASE /\ disk' = [disk EXCEPT !.license = TRUE, !.usage = said[c], !.inGrace = TRUE]
               /\ lastSaid' = said[c]
      BY <2>1, <3>1, <3>3 DEF Disks, Told, Said, Coherent
    <3> QED BY <1>2, <3>1, <3>2, <3>3 DEF Resolves
  <2>4. Said'
    BY <2>1, <2>2, <2>3 DEF Told, Said, Coherent
  <2>5. Ruled'
    BY <2>3 DEF Ruled
  <2> QED BY <2>2, <2>4, <2>5 DEF Told
<1>3. CASE Unreachable(c)
  <2>1. /\ Settled(c) /\ ask[c] # "none" /\ disk' \in {disk, [disk EXCEPT !.license = TRUE]}
        /\ UNCHANGED <<lastSaid, alone, month>>
    BY <1>3 DEF Unreachable, backend
  <2>2. /\ Alone' /\ \A d \in Calls : ask'[d] = "answered" => ask[d] = "answered" /\ said'[d] = said[d]
        /\ alone => snap[c].usage = lastSaid
    BY <2>1, SettledAlone DEF Told
  <2>3. disk'.usage = disk.usage
    BY <2>1 DEF Disks
  <2>4. Said'
    BY <2>1, <2>2, <2>3 DEF Told, Said, Coherent
  <2>5. Ruled'
    <3>1. CASE proc' = [proc EXCEPT !.source = "default"]
      <4>1. proc'.source = "default"
        BY <3>1 DEF Procs
      <4> QED BY <4>1 DEF Ruled
    <3>2. CASE proc' = [proc EXCEPT !.source = "cache",
                                    !.usage = Offline(snap[c].usage, snap[c].inGrace)]
      <4>1. proc'.usage = Offline(snap[c].usage, snap[c].inGrace)
        BY <3>2 DEF Procs
      <4>2. Coherent(lastSaid)
        BY DEF Told, Said
      <4>3. alone => Agrees(proc'.usage, lastSaid)
        BY <1>0, <2>2, <4>1, <4>2, OfflineIs
      <4> QED BY <2>1, <4>3 DEF Ruled, Agrees
    <3> QED BY <1>3, <3>1, <3>2 DEF Unreachable
  <2> QED BY <2>2, <2>4, <2>5 DEF Told
<1> QED BY <1>1, <1>2, <1>3 DEF Checks

LEMMA WorldTold ==
  ASSUME Parts, Told, World
  PROVE  Told'
<1> USE DEF Parts
<1>1. CASE Restarts
  <2>1. /\ \A c \in Calls : ask'[c] = "none"
        /\ month' = month /\ proc'.source = "none"
    BY <1>1 DEF Restarts, Fresh
  <2>2. InFlight' = {}
    BY <2>1 DEF InFlight
  <2>3. disk'.usage = lastSaid' /\ lastSaid' \in {lastSaid, NoVerdict}
    <3>1. CASE disk.orphan
      <4>1. /\ disk' = [disk EXCEPT !.license = FALSE, !.usage = NoVerdict, !.orphan = FALSE]
            /\ lastSaid' = NoVerdict
        BY <1>1, <3>1 DEF Restarts
      <4> QED BY <4>1 DEF Disks
    <3>2. CASE ~disk.orphan
      BY <1>1, <3>2 DEF Restarts, Told, Said
    <3> QED BY <3>1, <3>2
  <2>4. Coherent(lastSaid')
    BY <2>3, NoneIsCoherent DEF BackendOK, Told, Said
  <2>5. Said'
    BY <2>1, <2>3, <2>4 DEF Said, Coherent
  <2> QED BY <2>1, <2>2, <2>5 DEF Told, Alone, Ruled
<1>2. CASE NewMonth
  <2>1. /\ month' = month + 1 /\ UNCHANGED <<disk, proc, ask, said, snap, lastSaid, alone>>
    BY <1>2 DEF NewMonth, resolves
  <2>2. month \in Nat /\ lastSaid.month \in Nat /\ \A c \in Calls : said[c].month \in Nat
    BY Bounds DEF BackendOK, HistoryOK, ChecksOK, Verdicts
  <2>3. Said'
    BY <2>1, <2>2 DEF Told, Said, Coherent
  <2>4. lastSaid.month # month'
    BY <2>1, <2>2 DEF Told, Said, Coherent
  <2>5. Alone' /\ Ruled'
    BY <2>1, <2>4 DEF Told, Alone, InFlight, Ruled, Agrees
  <2> QED BY <2>3, <2>5 DEF Told
<1>3. CASE GraceEnds
  <2>1. /\ disk' = [disk EXCEPT !.inGrace = FALSE]
        /\ snap' = [c \in Calls |-> [snap[c] EXCEPT !.inGrace = FALSE]]
        /\ UNCHANGED <<month, proc, ask, said, lastSaid, alone>>
    BY <1>3 DEF GraceEnds, backend
  <2>2. disk'.usage = disk.usage /\ \A c \in Calls : snap'[c].usage = snap[c].usage
    BY <2>1 DEF Disks, ChecksOK, Caches
  <2>3. Said'
    BY <2>1, <2>2 DEF Told, Said, Coherent
  <2>4. Alone'
    BY <2>1, <2>2 DEF Told, Alone, InFlight
  <2>5. Ruled'
    BY <2>1 DEF Told, Ruled, Agrees
  <2> QED BY <2>3, <2>4, <2>5 DEF Told
<1>4. CASE AccountChanges
  <2>1. Untouched
    BY <1>4 DEF AccountChanges, resolves, Untouched
  <2> QED BY <2>1, UntouchedTold
<1> QED BY <1>1, <1>2, <1>3, <1>4 DEF World

LEMMA NextTold ==
  ASSUME Parts, Told, [Next]_vars
  PROVE  Told'
<1>1. CASE World
  BY <1>1, WorldTold
<1>2. CASE Releases
  <2>1. Untouched
    BY <1>2 DEF Releases, backend, resolves, Untouched
  <2> QED BY <2>1, UntouchedTold
<1>3. ASSUME NEW c \in Calls, Arrives(c) \/ Queued(c)
      PROVE  Told'
  <2>1. CASE \E t \in Tools : Calls_(c, t)
    BY <2>1, WrapsTold DEF Calls_, backend
  <2>2. CASE Serves(c)
    BY <2>2, WrapsTold DEF Serves, backend
  <2>3. CASE ServeFails(c) \/ \E t \in Tools : Posts(c, t)
    <3>1. Untouched
      BY <2>3 DEF ServeFails, Posts, backend, resolves, Untouched
    <3> QED BY <3>1, UntouchedTold
  <2> QED BY <1>3, <2>1, <2>2, <2>3 DEF Arrives, Queued
<1>4. ASSUME NEW c \in Calls, Steps(c) \/ Checks(c)
      PROVE  Told'
  BY <1>4, StepTold, CheckTold
<1>5. CASE UNCHANGED vars
  <2>1. Untouched
    BY <1>5 DEF vars, backend, resolves, Untouched
  <2> QED BY <2>1, UntouchedTold
<1> QED BY <1>1, <1>2, <1>3, <1>4, <1>5 DEF Next

-----------------------------------------------------------------------------
(* Who blocks a session.                                                   *)

\* A call that leaves the gate, or ends after refreezing, does so itself.
LEMMA RulesIs ==
  ASSUME Parts, Next, NEW c \in Calls, Rules(c)
  PROVE  (Gate(c) /\ ~proc.frozen) \/ Refreezes(c)
<1> USE DEF Parts
<1>1. \/ pc[c] = "gate" /\ pc'[c] \in {"run", "blocked"} /\ ~proc.frozen
      \/ pc[c] = "refreeze" /\ pc'[c] = "ending"
  BY DEF Rules
<1>2. pc'[c] # pc[c] /\ pc'[c] \notin {"gate", "license", "refreeze", "await", "queued", "failed", "lost", "done"}
  BY <1>1
<1>3. CASE World
  <2>1. CASE Restarts
    BY <1>2, <2>1 DEF Restarts
  <2>2. CASE ~Restarts
    BY <1>2, <1>3, <2>2 DEF World, NewMonth, GraceEnds, AccountChanges
  <2> QED BY <2>1, <2>2
<1>4. CASE Releases
  BY <1>2, <1>4 DEF Releases
<1>5. ASSUME NEW d \in Calls, Wraps(d)
      PROVE  FALSE
  <2>1. pc' \in {[pc EXCEPT ![d] = "license"], [pc EXCEPT ![d] = "gate"]}
    BY <1>5 DEF Wraps
  <2> QED BY <1>2, <2>1 DEF CallsOK
<1>6. ASSUME NEW d \in Calls, Arrives(d) \/ Queued(d)
      PROVE  FALSE
  <2>1. CASE \E t \in Tools : Posts(d, t)
    BY <1>2, <2>1 DEF Posts, CallsOK
  <2>2. CASE ServeFails(d)
    BY <1>2, <2>2 DEF ServeFails, CallsOK
  <2>3. CASE Serves(d) \/ \E t \in Tools : Calls_(d, t)
    BY <1>5, <2>3 DEF Serves, Calls_
  <2> QED BY <1>6, <2>1, <2>2, <2>3 DEF Arrives, Queued
<1>7. ASSUME NEW d \in Calls, Checks(d)
      PROVE  FALSE
  <2>1. CASE BackendAnswers(d)
    BY <1>2, <2>1 DEF BackendAnswers
  <2>2. CASE Settled(d)
    BY <1>2, <2>2 DEF Settled, CallsOK
  <2> QED BY <1>7, <2>1, <2>2 DEF Checks, Resolves, Unreachable
<1>8. ASSUME NEW d \in Calls, Steps(d)
      PROVE  (Gate(c) /\ ~proc.frozen) \/ Refreezes(c)
  <2>1. CASE d # c
    <3>1. \E p \in Places : pc' = [pc EXCEPT ![d] = p]
      <4>1. CASE Gate(d)
        BY <4>1 DEF Gate, Places, Over
      <4>2. CASE ~Gate(d)
        BY <1>8, <4>2 DEF Steps, Ends, StatusRefreshes, Activates, ActivationFails, Refreezes, Deletes,
                          Places, Over
      <4> QED BY <4>1, <4>2
    <3> QED BY <1>2, <2>1, <3>1 DEF CallsOK
  <2>2. CASE d = c
    <3>1. CASE Ends(c) \/ StatusRefreshes(c) \/ Activates(c) \/ ActivationFails(c) \/ Deletes(c)
      BY <1>1, <3>1 DEF Ends, StatusRefreshes, Activates, ActivationFails, Deletes
    <3>2. CASE Gate(c)
      BY <1>1, <3>2 DEF Gate
    <3> QED BY <1>8, <2>2, <3>1, <3>2 DEF Steps
  <2> QED BY <2>1, <2>2
<1> QED BY <1>3, <1>4, <1>6, <1>7, <1>8 DEF Next

LEMMA BlockIs ==
  ASSUME Parts, NEW c \in Calls, (Gate(c) /\ ~proc.frozen) \/ Refreezes(c)
  PROVE  proc'.block = Block(proc.usage)
<1>1. CASE Refreezes(c)
  BY <1>1 DEF Refreezes, Parts, Procs
<1>2. CASE Gate(c) /\ ~proc.frozen
  <2>1. Frozen.block = Block(proc.usage) /\ Frozen \in Procs
    BY <1>2, FrozenIs DEF Parts
  <2>2. CASE Notifies(proc.usage)
    <3>1. proc' = [Frozen EXCEPT !.capShown = proc'.capShown]
      BY <2>2, NotifiesIs DEF Shown, Parts
    <3>2. proc'.block = Frozen.block
      BY <2>1, <3>1 DEF Procs
    <3> QED BY <2>1, <3>2
  <2>3. CASE proc' = Frozen
    BY <2>1, <2>3
  <2> QED BY <1>2, <2>2, <2>3 DEF Gate
<1> QED BY <1>1, <1>2

\* What VerdictKept says of one step.
Kept == /\ \A c \in Calls : Rules(c) /\ proc.source = "cache" /\ alone =>
             /\ lastSaid.kind = "flagged" => proc'.block = "flagged"
             /\ OverCap(lastSaid) /\ lastSaid.month = month => proc'.block = "cap"
             /\ ~OverCap(lastSaid) /\ lastSaid.kind # "flagged" => proc'.block = "none"
        /\ proc.frozen /\ proc'.frozen /\ proc'.block # proc.block
             => \E c \in Calls : pc[c] = "refreeze" /\ pc'[c] = "ending"

LEMMA NextKept ==
  ASSUME Parts, Told, Next
  PROVE  Kept
<1>1. ASSUME NEW c \in Calls, Rules(c), proc.source = "cache", alone
      PROVE  /\ lastSaid.kind = "flagged" => proc'.block = "flagged"
             /\ OverCap(lastSaid) /\ lastSaid.month = month => proc'.block = "cap"
             /\ ~OverCap(lastSaid) /\ lastSaid.kind # "flagged" => proc'.block = "none"
  <2>1. proc'.block = Block(proc.usage)
    BY <1>1, RulesIs, BlockIs
  <2>2. Agrees(proc.usage, lastSaid)
    BY <1>1 DEF Told, Ruled
  <2> QED BY <2>1, <2>2 DEF Agrees, Block
<1>2. ASSUME proc.frozen, proc'.frozen, proc'.block # proc.block
      PROVE  \E c \in Calls : pc[c] = "refreeze" /\ pc'[c] = "ending"
  <2>1. ~Quiet
    BY <1>2 DEF Quiet
  <2>2. ~Restarts
    BY <1>2 DEF Restarts, Fresh
  <2>3. ASSUME NEW c \in Calls, Gate(c)
        PROVE  FALSE
    <3>1. Frozen.block = proc.block /\ Frozen \in Procs
      BY <1>2, FrozenIs DEF Parts
    <3>2. CASE Notifies(proc.usage)
      <4>1. proc' = [Frozen EXCEPT !.capShown = proc'.capShown]
        BY <3>2, NotifiesIs DEF Shown, Parts
      <4>2. proc'.block = Frozen.block
        BY <3>1, <4>1 DEF Procs
      <4> QED BY <1>2, <3>1, <4>2
    <3>3. CASE proc' = Frozen
      BY <1>2, <3>1, <3>3
    <3> QED BY <2>3, <3>2, <3>3 DEF Gate
  <2>4. PICK c \in Calls : Refreezes(c)
    BY <2>1, <2>2, <2>3, QuietSteps
  <2>5. pc[c] = "refreeze" /\ pc'[c] = "ending"
    BY <2>4 DEF Refreezes, Parts, CallsOK
  <2> QED BY <2>5
<1> QED BY <1>1, <1>2 DEF Kept

-----------------------------------------------------------------------------
(* The theorems.                                                           *)

\* The inductive invariant: types, what usage-notify.json holds of the banners,
\* and what is known of the verdicts on their way, cached and ruled by.
THEOREM SessionInvariant == Spec => []SessionInv
<1>1. Init => SessionInv
  BY InitTypes, InitRationed, InitTold DEF SessionInv, Told
<1>2. SessionInv /\ [Next]_vars => SessionInv'
  <2> SUFFICES ASSUME SessionInv, [Next]_vars
               PROVE  SessionInv'
    OBVIOUS
  <2>1. Parts /\ Rationed /\ Told
    BY TypeParts DEF SessionInv, Told
  <2>2. Parts' /\ Rationed' /\ Told'
    BY <2>1, NextTypes, NextRationed, NextTold
  <2>3. TypeOK'
    <3>1. (TypeOK <=> Parts)'
      BY TypeParts, PTL
    <3> QED BY <2>2, <3>1
  <2> QED BY <2>2, <2>3 DEF SessionInv, Told
<1> QED BY <1>1, <1>2, PTL DEF Spec

\* Every variable keeps its type: the files and the verdicts, for any number of
\* calls, months and starts.  (license.ts, usageNotifications.ts)
THEOREM SessionTypes == Spec => []TypeOK
<1>1. SessionInv => TypeOK
  BY DEF SessionInv
<1> QED BY <1>1, SessionInvariant, PTL

\* At most one 80% banner a month, one cap banner a month and process, and one
\* deferral notice, unless a verdict of an earlier month is adopted late.
\* (maybeNotifyUsage, maybeNotifyDeferral)
THEOREM BannersAreRationed == Spec => []BannersRationed
<1>1. SessionInv => BannersRationed
  BY DEF SessionInv, Rationed, BannersRationed
<1> QED BY <1>1, SessionInvariant, PTL

\* A session ruled from the cache is blocked as the last verdict says, and its
\* block changes only where the user asks.  (computeOfflineUsage,
\* freezeSessionVerdict, refreezeSessionVerdict)
THEOREM VerdictIsKept == Spec => VerdictKept
<1>1. SessionInv /\ [Next]_vars => [Kept]_vars
  <2> SUFFICES ASSUME SessionInv, Next
               PROVE  Kept
    OBVIOUS
  <2>1. Parts /\ Told
    BY TypeParts DEF SessionInv, Told
  <2> QED BY <2>1, NextKept
<1>2. VerdictKept <=> [][Kept]_vars
  BY DEF VerdictKept, Kept
<1> QED BY <1>1, <1>2, SessionInvariant, PTL DEF Spec
=============================================================================
