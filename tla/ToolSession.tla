---------------------------- MODULE ToolSession ----------------------------
(***************************************************************************)
(* What every tool call passes through, whatever the tool: the queue of    *)
(* the HTTP transport (index.ts, core/serialQueue.ts), the lazy license    *)
(* check (core/license.ts), the session's frozen verdict (pro/usageGate),  *)
(* the usage banners (pro/usageNotifications.ts), the handler, and the     *)
(* counting of the call (core/register.ts, core/telemetry.ts).  The tools  *)
(* that change the license (tools/accountTools.ts, get_license_status) are *)
(* modelled; all others are the tool "use".                                *)
(*                                                                         *)
(* The backend answers a validation with its verdict at the moment it      *)
(* handles it, and the answer may arrive after that of a later request, or *)
(* never.  The process may end at any step; license.json, usage.json and   *)
(* usage-notify.json survive it.                                           *)
(***************************************************************************)
EXTENDS Naturals, Sequences, FiniteSets

CONSTANTS
    Calls,      \* tool calls, each made once
    NoCall,
    Tools,      \* the tools they may be
    Limit,      \* usage.limit of the free plan
    WarnAt,     \* warnThreshold * limit
    MaxMonth,   \* bound: how often the month turns
    MaxStarts,  \* bound: how often the process is started
    Https       \* the transports the process may be started with

ASSUME SessionAssumption ==
    /\ NoCall \notin Calls
    /\ Tools \subseteq {"use", "status", "activate", "delete"}
    /\ Limit \in Nat \ {0} /\ WarnAt \in 1..Limit
    /\ MaxMonth \in Nat /\ MaxStarts \in Nat /\ Https \subseteq BOOLEAN

VARIABLES
    account,    \* the backend: plan and state of this installation
    counted,    \* the backend: calls counted this month
    month,      \* the calendar month, as a number
    starts,     \* how often the process was started
    disk,       \* the files under ~/.execbro
    proc,       \* module-level state of the process
    pc,         \* where each call is
    tool,       \* what it asks for
    wait,       \* the resolve whose promise it awaits
    ask,        \* the validation request of the resolve a call started
    said,       \* the verdict the backend put into its answer
    snap,       \* both caches, read when the resolve began
    queue,      \* the serial queue, by call
    slot,       \* the call whose task runs
    lastSaid,   \* history: the signed verdict last received
    alone,      \* history: no resolve began while another was under way
    banners     \* history: banners pushed, and whether one was for an
                \* earlier month than one before it

vars == <<account, counted, month, starts, disk, proc, pc, tool, wait, ask,
          said, snap, queue, slot, lastSaid, alone, banners>>
backend   == <<account, counted, month>>
resolves  == <<ask, said, snap>>
transport == <<queue, slot>>

-----------------------------------------------------------------------------
(* UsageInfo: what a verdict says.  canUse is the server's, or the one     *)
(* computed offline.                                                       *)

Kinds    == {"none", "free", "deferred", "flagged", "pro"}
Months   == 0..MaxMonth
Verdicts == [kind : Kinds, used : 0..Limit, month : Months, canUse : BOOLEAN]
NoVerdict == [kind |-> "none", used |-> 0, month |-> 0, canUse |-> TRUE]
NoCache == [license |-> FALSE, usage |-> NoVerdict, inGrace |-> FALSE]

Capped(kind) == kind \in {"free", "flagged"}     \* capActive, limit not null

\* What the validate endpoint answers.  A revoked verdict carries used: 0.
Verdict == [kind   |-> account,
            used   |-> IF account = "flagged" THEN 0 ELSE counted,
            month  |-> month,
            canUse |-> account # "flagged" /\ (account = "free" => counted < Limit)]

OverCap(u) == u.kind = "free" /\ u.used >= Limit

\* computeOfflineUsage
OfflineForgiving(u, inGrace) ==                              \* mutant
    IF u.kind = "none" \/ inGrace THEN u
    ELSE [u EXCEPT !.canUse = u.month # month \/ ~OverCap(u)]
Offline(u, inGrace) ==
    IF u.kind = "none" \/ inGrace THEN u
    ELSE [u EXCEPT !.canUse = u.kind # "flagged" /\ (u.month # month \/ ~OverCap(u))]

\* The block message freezeSessionVerdict chooses.
Block(u) == IF u.kind \in {"none", "deferred"} \/ u.canUse THEN "none"
            ELSE IF u.kind = "flagged" THEN "flagged" ELSE "cap"

Exempt(t) == t \in {"status", "activate", "delete"}

\* nextThreshold; 0 is null.
Threshold(u) == IF ~Capped(u.kind) \/ u.used < WarnAt THEN 0
                ELSE IF u.used < Limit THEN 80 ELSE 100

-----------------------------------------------------------------------------
Fresh(h) == [http   |-> h,
             usage  |-> NoVerdict,    \* currentUsage
             source |-> "none",       \* how the last resolve ended
             promise |-> NoCall,      \* licensePromise, by the call that made it
             frozen |-> FALSE,
             block  |-> "none",       \* blockMessage
             capShown |-> FALSE]      \* sessionCapNotified

Empty == [license |-> FALSE, usage |-> NoVerdict, inGrace |-> FALSE,
          orphan |-> FALSE,           \* telemetry.json is gone: a new id at the next start
          notify |-> [month |-> 0, threshold |-> 0, deferral |-> FALSE]]

Init == /\ account \in {"free", "deferred"}
        /\ counted = WarnAt           \* other clients have used it this month
        /\ month = 0 /\ starts = 1
        /\ disk = Empty
        /\ \E h \in Https : proc = Fresh(h)
        /\ pc = [c \in Calls |-> "new"]
        /\ tool = [c \in Calls |-> "use"]
        /\ wait = [c \in Calls |-> NoCall]
        /\ ask = [c \in Calls |-> "none"]
        /\ said = [c \in Calls |-> NoVerdict]
        /\ snap = [c \in Calls |-> NoCache]
        /\ queue = <<>> /\ slot = NoCall
        /\ lastSaid = NoVerdict /\ alone = TRUE
        /\ banners = [eighty |-> [m \in Months |-> 0],
                      cap    |-> [m \in Months |-> 0], deferral |-> 0, late |-> FALSE]

-----------------------------------------------------------------------------
(* The license check.                                                      *)

InFlight == {c \in Calls : ask[c] # "none"}

\* resolveLicense up to its first await: both caches are read, then the
\* request leaves.  The call's promise becomes licensePromise.
StartsResolve(c) ==
    /\ ask' = [ask EXCEPT ![c] = "sent"]
    /\ said' = [said EXCEPT ![c] = NoVerdict]
    /\ snap' = [snap EXCEPT ![c] = [license |-> disk'.license, usage |-> disk.usage,
                                    inGrace |-> disk.inGrace]]
    /\ alone' = (alone /\ InFlight = {})
    /\ wait' = [wait EXCEPT ![c] = c]

\* The wrapper's first await, ensureLicense: one promise for the process.
Wraps(c) ==
    IF proc.promise = NoCall
    THEN /\ StartsResolve(c)
         /\ proc' = [proc EXCEPT !.promise = c]
         /\ pc' = [pc EXCEPT ![c] = "license"]
    ELSE /\ IF ask[proc.promise] = "none"
            THEN pc' = [pc EXCEPT ![c] = "gate"] /\ UNCHANGED wait
            ELSE /\ pc' = [pc EXCEPT ![c] = "license"]
                 /\ wait' = [wait EXCEPT ![c] = proc.promise]
         /\ UNCHANGED <<proc, resolves, alone>>

\* The backend handles a validation; its answer is on its way.
BackendAnswers(c) ==
    /\ ask[c] = "sent"
    /\ ask' = [ask EXCEPT ![c] = "answered"]
    /\ said' \in {[said EXCEPT ![c] = v] : v \in {Verdict, NoVerdict}}
    /\ UNCHANGED <<backend, starts, disk, proc, pc, tool, wait, snap, transport,
                   lastSaid, alone, banners>>

\* The request is over, and everyone who awaits the promise of c goes on.
Settled(c) ==
    /\ ask'  = [ask EXCEPT ![c] = "none"]
    /\ said' = [said EXCEPT ![c] = NoVerdict]
    /\ snap' = [snap EXCEPT ![c] = NoCache]
    /\ wait' = [d \in Calls |-> IF wait[d] = c THEN NoCall ELSE wait[d]]
    /\ pc' = [d \in Calls |-> IF wait[d] # c THEN pc[d]
                              ELSE IF pc[d] = "license" THEN "gate" ELSE "refreeze"]

\* resolveLicense, answered: the license is kept and, when the answer has one,
\* the verdict; one that is signed goes to usage.json, with a grace window of
\* its own.
Resolves(c) ==
    /\ ask[c] = "answered"
    /\ Settled(c)
    /\ proc' = [proc EXCEPT !.source = "api",
                            !.usage = IF said[c].kind = "none" THEN @ ELSE said[c]]
    /\ \/ disk' = [disk EXCEPT !.license = TRUE] /\ UNCHANGED lastSaid
       \/ /\ said[c].kind # "none"
          /\ disk' = [disk EXCEPT !.license = TRUE, !.usage = said[c], !.inGrace = TRUE]
          /\ lastSaid' = said[c]
    /\ UNCHANGED <<backend, starts, tool, transport, alone, banners>>

\* resolveLicense, unanswered within API_TIMEOUT_MS or refused: the license
\* cache decides whether the cached verdict counts; without one, a default is
\* written.
Unreachable(c) ==
    /\ ask[c] # "none"
    /\ Settled(c)
    /\ IF snap[c].license
       THEN /\ proc' = [proc EXCEPT !.source = "cache",
                                    !.usage = Offline(snap[c].usage, snap[c].inGrace)]
            /\ UNCHANGED disk
       ELSE /\ proc' = [proc EXCEPT !.source = "default"]
            /\ disk' = [disk EXCEPT !.license = TRUE]
    /\ UNCHANGED <<backend, starts, tool, transport, lastSaid, alone, banners>>

-----------------------------------------------------------------------------
(* The wrapper around every handler.                                       *)

\* freezeSessionVerdict
RefreezesAlways == [proc EXCEPT !.frozen = TRUE, !.block = Block(proc.usage)] \* mutant
Frozen == IF proc.frozen THEN proc
          ELSE [proc EXCEPT !.frozen = TRUE, !.block = Block(proc.usage)]

\* read() of usage-notify.json, with the reset at a new month.
Notified(u) == IF disk.notify.month = u.month THEN disk.notify
               ELSE [disk.notify EXCEPT !.month = u.month, !.threshold = 0]

Already(u) == Notified(u).threshold \in {100, Threshold(u)}

\* What is written before the push is awaited.
RecordedLate(u) == disk.notify                               \* mutant
Recorded(u) == IF Already(u) THEN disk.notify
               ELSE [Notified(u) EXCEPT !.threshold = Threshold(u)]

\* maybeNotifyUsage and maybeNotifyDeferral, with an app connected.
PushesUsage(u) == /\ Threshold(u) # 0
                  /\ Already(u) => Threshold(u) = 100 /\ ~proc.capShown
PushesDeferral(u) == u.kind = "deferred" /\ ~disk.notify.deferral

Notifies(u) ==
    /\ disk' = [disk EXCEPT !.notify =
                   IF PushesUsage(u) THEN Recorded(u)
                   ELSE IF PushesDeferral(u) THEN [@ EXCEPT !.deferral = TRUE] ELSE @]
    /\ proc' = [Frozen EXCEPT !.capShown =
                   @ \/ (PushesUsage(u) /\ Threshold(u) = 100)]
    /\ banners' =
          [eighty |-> [banners.eighty EXCEPT ![u.month] =
                          IF PushesUsage(u) /\ Threshold(u) = 80 THEN @ + 1 ELSE @],
           cap |-> [banners.cap EXCEPT ![u.month] =
                       IF PushesUsage(u) /\ Threshold(u) = 100 THEN @ + 1 ELSE @],
           deferral |-> IF PushesDeferral(u) THEN banners.deferral + 1 ELSE banners.deferral,
           late |-> banners.late \/ (PushesUsage(u) /\ u.month < disk.notify.month)]

\* registerToolWithTelemetry from the settled license to the handler's start.
Gate(c) ==
    /\ pc[c] = "gate"
    /\ \/ Notifies(proc.usage)                                 \* an app is connected
       \/ proc' = Frozen /\ UNCHANGED <<disk, banners>>        \* none is
    /\ pc' = [pc EXCEPT ![c] = IF proc'.block # "none" /\ ~Exempt(tool[c])
                               THEN "blocked" ELSE "run"]
    /\ UNCHANGED <<backend, starts, tool, wait, resolves, transport, lastSaid, alone>>

\* The finally block: the call is metered, here and at the backend.  A handler
\* that throws ends the same way.  (What a call that is over asked for is
\* forgotten.)
Ends(c) ==
    /\ pc[c] = "ending" \/ (pc[c] = "run" /\ tool[c] = "use")
    /\ pc' = [pc EXCEPT ![c] = "done"]
    /\ counted' = IF counted < Limit THEN counted + 1 ELSE Limit
    /\ proc' = IF proc.usage.kind = "none" \/ proc.usage.used = Limit THEN proc
               ELSE [proc EXCEPT !.usage = [proc.usage EXCEPT !.used = @ + 1]]
    /\ tool' = [tool EXCEPT ![c] = "use"]
    /\ UNCHANGED <<account, month, starts, disk, wait, resolves, transport,
                   lastSaid, alone, banners>>

-----------------------------------------------------------------------------
(* The tools of the account.                                               *)

\* get_license_status: refreshLicense, without touching the cache.
StatusRefreshes(c) ==
    /\ pc[c] = "run" /\ tool[c] = "status"
    /\ UNCHANGED <<backend, starts, disk, tool, transport, lastSaid, banners>>
    /\ StartsResolve(c)
    /\ proc' = [proc EXCEPT !.promise = c]
    /\ pc' = [pc EXCEPT ![c] = "await"]

\* What the installation's account may be once it is linked.
Linked == {account, IF account = "flagged" THEN account ELSE "pro"}

\* activate_license: the backend links the account, which may carry no Pro
\* subscription, and says so; license.json goes, and ensureLicense finds no promise.
Activates(c) ==
    /\ pc[c] = "run" /\ tool[c] = "activate"
    /\ account' \in Linked
    /\ disk' = [disk EXCEPT !.license = FALSE]
    /\ StartsResolve(c)
    /\ proc' = [proc EXCEPT !.promise = c]
    /\ pc' = [pc EXCEPT ![c] = "await"]
    /\ UNCHANGED <<counted, month, starts, tool, transport, lastSaid, banners>>

\* The token is refused, or the answer is lost on the way.
ActivationFails(c) ==
    /\ pc[c] = "run" /\ tool[c] = "activate"
    /\ account' \in Linked
    /\ pc' = [pc EXCEPT ![c] = "ending"]
    /\ UNCHANGED <<counted, month, starts, disk, proc, tool, wait, resolves,
                   transport, lastSaid, alone, banners>>

\* Both go on to refreezeSessionVerdict.
Refreezes(c) ==
    /\ pc[c] = "refreeze"
    /\ proc' = [proc EXCEPT !.frozen = TRUE, !.block = Block(proc.usage)]
    /\ pc' = [pc EXCEPT ![c] = "ending"]
    /\ UNCHANGED <<backend, starts, disk, tool, wait, resolves, transport,
                   lastSaid, alone, banners>>

\* delete_account with its confirmation: the files go whatever the backend says.
Deletes(c) ==
    /\ pc[c] = "run" /\ tool[c] = "delete"
    /\ disk' = [disk EXCEPT !.license = FALSE, !.orphan = TRUE]
    /\ pc' = [pc EXCEPT ![c] = "ending"]
    /\ UNCHANGED <<backend, starts, proc, tool, wait, resolves, transport,
                   lastSaid, alone, banners>>

-----------------------------------------------------------------------------
(* The transports.                                                         *)

\* Over stdio a request reaches the wrapper at once.
Calls_(c, t) ==
    /\ pc[c] = "new" /\ ~proc.http
    /\ tool' = [tool EXCEPT ![c] = t]
    /\ UNCHANGED <<backend, starts, disk, transport, lastSaid, banners>>
    /\ Wraps(c)

\* Over HTTP its task joins the serial queue.
Posts(c, t) ==
    /\ pc[c] = "new" /\ proc.http
    /\ tool' = [tool EXCEPT ![c] = t]
    /\ pc' = [pc EXCEPT ![c] = "queued"]
    /\ queue' = Append(queue, c)
    /\ UNCHANGED <<backend, starts, disk, proc, wait, resolves, slot, lastSaid,
                   alone, banners>>

\* The next task connects its transport and hands the request over.
Serves(c) ==
    /\ queue # <<>> /\ slot = NoCall /\ c = Head(queue)
    /\ slot' = c /\ queue' = Tail(queue)
    /\ UNCHANGED <<backend, starts, disk, tool, lastSaid, banners>>
    /\ Wraps(c)

\* connect or handleRequest throws: a 500, and the queue goes on.
ServeFails(c) ==
    /\ queue # <<>> /\ slot = NoCall /\ c = Head(queue)
    /\ queue' = Tail(queue)
    /\ pc' = [pc EXCEPT ![c] = "failed"]
    /\ UNCHANGED <<backend, starts, disk, proc, tool, wait, resolves, slot,
                   lastSaid, alone, banners>>

\* The response has closed, or RESPONSE_DRAIN_TIMEOUT_MS is over and the tool
\* goes on with nobody to answer.
WaitsForTool == slot # NoCall /\ pc[slot] \in {"done", "blocked"}   \* mutant
MayRelease == slot # NoCall
Releases ==
    /\ MayRelease
    /\ slot' = NoCall
    /\ UNCHANGED <<backend, starts, disk, proc, pc, tool, wait, resolves, queue,
                   lastSaid, alone, banners>>

-----------------------------------------------------------------------------
(* The world.                                                              *)

Over == {"new", "done", "blocked", "failed", "lost"}

\* The process ends and is started again.  Without telemetry.json it has a new
\* installation id, to which neither cache belongs, and a new account.
Restarts ==
    /\ starts < MaxStarts
    /\ starts' = starts + 1
    /\ proc' = Fresh(proc.http)
    /\ pc' = [c \in Calls |-> IF pc[c] \in Over THEN pc[c] ELSE "lost"]
    /\ ask' = [c \in Calls |-> "none"]
    /\ said' = [c \in Calls |-> NoVerdict]
    /\ snap' = [c \in Calls |-> NoCache]
    /\ wait' = [c \in Calls |-> NoCall]
    /\ tool' = [c \in Calls |-> "use"]
    /\ queue' = <<>> /\ slot' = NoCall
    /\ alone' = TRUE
    /\ banners' = [banners EXCEPT !.cap = [m \in Months |-> 0]]
    /\ IF disk.orphan
       THEN /\ disk' = [disk EXCEPT !.license = FALSE, !.usage = NoVerdict,
                                    !.orphan = FALSE]
            /\ account' = "free" /\ counted' = 0 /\ lastSaid' = NoVerdict
       ELSE UNCHANGED <<disk, account, counted, lastSaid>>
    /\ UNCHANGED month

NewMonth == /\ month < MaxMonth
            /\ month' = month + 1 /\ counted' = 0
            /\ UNCHANGED <<account, starts, disk, proc, pc, tool, wait, resolves,
                           transport, lastSaid, alone, banners>>

\* verdictFreshUntil passes.
GraceEnds == /\ disk.inGrace
             /\ disk' = [disk EXCEPT !.inGrace = FALSE]
             /\ snap' = [c \in Calls |-> [snap[c] EXCEPT !.inGrace = FALSE]]
             /\ UNCHANGED <<backend, starts, proc, pc, tool, wait, ask, said,
                            transport, lastSaid, alone, banners>>

\* The installation is flagged.
AccountChanges == /\ account = "free" /\ account' = "flagged"
                  /\ UNCHANGED <<counted, month, starts, disk, proc, pc, tool, wait,
                                 resolves, transport, lastSaid, alone, banners>>

Arrives(c) == \E t \in Tools : Calls_(c, t) \/ Posts(c, t)
Steps(c) == Gate(c) \/ Ends(c) \/ StatusRefreshes(c) \/ Activates(c)
            \/ ActivationFails(c) \/ Refreezes(c) \/ Deletes(c)
Checks(c) == BackendAnswers(c) \/ Resolves(c) \/ Unreachable(c)
Queued(c) == Serves(c) \/ ServeFails(c)
World == Restarts \/ NewMonth \/ GraceEnds \/ AccountChanges

Next == World \/ Releases
        \/ \E c \in Calls : Arrives(c) \/ Steps(c) \/ Checks(c) \/ Queued(c)

Spec == Init /\ [][Next]_vars

\* The queue's task begins when the one before it is over, which a timer sees to.
Fairness == WF_vars(Releases) /\ WF_vars(\E c \in Calls : Queued(c))
FairSpec == Spec /\ Fairness

-----------------------------------------------------------------------------
(* Properties.                                                             *)

TypeOK ==
    /\ account \in Kinds \ {"none"} /\ counted \in 0..Limit
    /\ month \in Months /\ starts \in 0..MaxStarts \union {1}
    /\ disk \in [license : BOOLEAN, usage : Verdicts, inGrace : BOOLEAN,
                 orphan : BOOLEAN,
                 notify : [month : Months, threshold : {0, 80, 100},
                           deferral : BOOLEAN]]
    /\ proc \in [http : BOOLEAN, usage : Verdicts,
                 source : {"none", "api", "cache", "default"},
                 promise : Calls \union {NoCall}, frozen : BOOLEAN,
                 block : {"none", "cap", "flagged"}, capShown : BOOLEAN]
    /\ pc \in [Calls -> Over \union {"queued", "license", "gate", "run",
                                     "await", "refreeze", "ending"}]
    /\ tool \in [Calls -> Tools \union {"use"}]
    /\ wait \in [Calls -> Calls \union {NoCall}]
    /\ ask \in [Calls -> {"none", "sent", "answered"}]
    /\ said \in [Calls -> Verdicts]
    /\ snap \in [Calls -> [license : BOOLEAN, usage : Verdicts, inGrace : BOOLEAN]]
    /\ queue \in Seq(Calls) /\ slot \in Calls \union {NoCall}
    /\ lastSaid \in Verdicts /\ alone \in BOOLEAN
    /\ banners \in [eighty : [Months -> Nat], cap : [Months -> Nat],
                    deferral : Nat, late : BOOLEAN]

Rules(c) == \/ pc[c] = "gate" /\ pc'[c] \in {"run", "blocked"} /\ ~proc.frozen
            \/ pc[c] = "refreeze" /\ pc'[c] = "ending"

\* What blocks a session, and when.  A verdict ruled without the backend agrees
\* with the last one the backend signed: a revocation holds whatever the clock
\* says, a reached cap holds for its month, and nobody below the cap is blocked
\* (resolves that overlap are excluded).  And a process changes its mind only
\* where the user asked it to: crossing the cap, a new month or a restart of the
\* backend never interrupt a session.
\* (computeOfflineUsage, the two cache files, the frozen verdict.)
VerdictKept ==
    [][/\ \A c \in Calls : Rules(c) /\ proc.source = "cache" /\ alone =>
            /\ lastSaid.kind = "flagged" => proc'.block = "flagged"
            /\ OverCap(lastSaid) /\ lastSaid.month = month => proc'.block = "cap"
            /\ ~OverCap(lastSaid) /\ lastSaid.kind # "flagged" => proc'.block = "none"
       /\ proc.frozen /\ proc'.frozen /\ proc'.block # proc.block
            => \E c \in Calls : pc[c] = "refreeze" /\ pc'[c] = "ending"]_vars

\* However many calls run at once, the 80% banner shows once a month, the cap
\* banner once a month in one process, the deferral notice once: as long as
\* verdicts are adopted in the order of their months.  (maybeNotifyUsage,
\* maybeNotifyDeferral)
BannersRationed ==
    /\ banners.late \/ \A m \in Months : banners.eighty[m] <= 1 /\ banners.cap[m] <= 1
    /\ banners.deferral <= 1

\* "at most once per threshold per month" (usageNotifications.ts:91).  It needs
\* four calls to fail: a validation that overlaps another falls back to the
\* verdict it read before its await, of the month before, and the banners of
\* that month show again.  (resolveLicense)
OncePerMonth == \A m \in Months : banners.eighty[m] <= 1

\* No tool, however long it takes, keeps the requests behind it waiting.
QueueMoves == \A c \in Calls : pc[c] = "queued" ~> pc[c] # "queued"
=============================================================================
