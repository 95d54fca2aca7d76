----------------------------- MODULE NativeLogs -----------------------------
(* The native feed of get_logs (nativeLogs.ts, logEvents.ts): each read asks
   the device for what it wrote since the newest event already taken, groups
   the lines, drops those below the caller's floor, and takes in what it has
   not seen.  Only what is new is answered.  get_logs also asks by itself when
   the console is empty and the app gone, unless it just did (logTools.ts). *)
EXTENDS Naturals, Sequences, FiniteSets, SequencesExt, FiniteSetsExt

CONSTANTS
    Caller,
    MaxSize, SeenSize,      \* events and fingerprints kept; the code keeps 200 and 800
    MaxEvents, MaxReads,    \* bounds
    PerStamp                \* events the device writes within one tick of its clock; positive

VARIABLES
    device,         \* what the device wrote: [kind, level], in order
    owned,          \* is the app's identity known, now or from memory?
    events, seen,   \* NativeLogBuffer: numbers of device events, in the order taken
    lastTs,         \* the watermark
    given,          \* history: how often each event was given an id
    call,           \* the reads
    reads,
    widened,        \* history: did a read bring back more than the last tick taken?
    leftOut,        \* history: events the watermark passed in a read that was told to begin later
    suggested,      \* the level the last read said to retry with; 0 is none
    coolingDown     \* a miss is remembered

vars == <<device, owned, events, seen, lastTs, given, call, reads, widened, leftOut, suggested, coolingDown>>
buffer == <<events, seen, lastTs, given, widened, leftOut>>
told == <<suggested, coolingDown>>

Levels == 1..3          \* debug, warn and fatal stand for the ladder
Stamp(i) == ((i - 1) \div PerStamp) + 1
Quiet == [step |-> "idle", since |-> 0, floor |-> 1]

Init ==
    /\ device = <<>> /\ owned \in BOOLEAN
    /\ events = <<>> /\ seen = <<>> /\ lastTs = 0 /\ given = [i \in 1..MaxEvents |-> 0]
    /\ call = [c \in Caller |-> Quiet] /\ reads = 0
    /\ widened = FALSE /\ leftOut = {} /\ suggested = 0 /\ coolingDown = FALSE

DeviceWrites == \E kind \in {"message", "crash"}, level \in Levels :
    /\ Len(device) < MaxEvents
    /\ device' = Append(device, [kind |-> kind, level |-> level])
    /\ UNCHANGED <<owned, buffer, call, reads, told>>

(* an app connects for the first time on this device, and is remembered *)
IdentityRecorded == ~owned /\ owned' = TRUE /\ UNCHANGED <<device, buffer, call, reads, told>>

-----------------------------------------------------------------------------
Begins(c, q) ==
    /\ call[c].step = "idle" /\ reads < MaxReads /\ reads' = reads + 1
    /\ call' = [call EXCEPT ![c] = q]
    /\ UNCHANGED <<device, owned, buffer, told>>

(* get_logs of the native source: what is new, or since when the caller says,
   which may be before the watermark or after it *)
GetNativeLogs(c, floor) == \E since \in {lastTs} \union 0..Stamp(Len(device)) :
    Begins(c, [step |-> "fetching", since |-> since, floor |-> floor])

(* the console is empty and the app not connected: it asks for crashes by itself *)
Escalate(c) ==
    ~coolingDown /\ Begins(c, [step |-> "escalating", since |-> lastTs, floor |-> 2])

(* without an identity only crashes can be told from others' output *)
Drafts(since) == {i \in DOMAIN device : Stamp(i) >= since /\ (owned \/ device[i].kind = "crash")}

IsLoudEnough(i, floor) == device[i].level >= floor            \* mutant

(* a crash is worth a row whatever the floor *)
IsRelevant(i, floor) == device[i].kind = "crash" \/ device[i].level >= floor

Relevant(since, floor) == {i \in Drafts(since) : IsRelevant(i, floor)}

Latest(s, n) == IF Len(s) > n THEN SubSeq(s, Len(s) - n + 1, Len(s)) ELSE s

Unseen(since, floor) == Relevant(since, floor) \ ToSet(seen)

(* the watermark follows what was taken in, not what was fetched *)
Watermark(since, floor) == Max({Stamp(i) : i \in Unseen(since, floor)} \union {lastTs})

(* the events of a set as the device wrote them *)
InOrder(S) == CHOOSE s \in [1..Cardinality(S) -> S] : \A i, j \in DOMAIN s : i < j => s[i] < s[j]

Ingest(since, floor) ==
    LET new == InOrder(Unseen(since, floor))
    IN  /\ events' = Latest(events \o new, MaxSize)
        /\ seen' = Latest(seen \o new, SeenSize)
        /\ given' = [i \in DOMAIN given |-> given[i] + (IF i \in Unseen(since, floor) THEN 1 ELSE 0)]
        /\ lastTs' = Watermark(since, floor)
        /\ widened' = (widened \/ since < lastTs)
        /\ leftOut' = leftOut \union {i \in DOMAIN device :
                          lastTs <= Stamp(i) /\ Stamp(i) < since /\ Stamp(i) < lastTs'}

(* the floor that still admits something, when this one admitted nothing *)
BelowFloor(since, floor) ==
    IF owned /\ Relevant(since, floor) = {} /\ Drafts(since) # {}
    THEN Max({device[i].level : i \in Drafts(since)}) ELSE 0

Ended(c) == call' = [call EXCEPT ![c] = Quiet]

(* the fetch answers with what the device wrote by then *)
CollectNativeEvents(c) ==
    LET q == call[c]
    IN  /\ q.step = "fetching" /\ Ended(c) /\ Ingest(q.since, q.floor)
        /\ suggested' = BelowFloor(q.since, q.floor)
        /\ UNCHANGED <<device, owned, reads, coolingDown>>

(* crashes only; a miss is not asked for again for a while *)
AnswerCrash(c) ==
    LET q == call[c]
    IN  /\ q.step = "escalating" /\ Ended(c) /\ Ingest(q.since, q.floor)
        /\ coolingDown' = (\A i \in Unseen(q.since, q.floor) : device[i].kind # "crash")
        /\ suggested' = 0
        /\ UNCHANGED <<device, owned, reads>>

FetchFails(c) ==
    /\ call[c].step # "idle" /\ Ended(c) /\ suggested' = 0
    /\ UNCHANGED <<device, owned, buffer, reads, coolingDown>>

CooldownEnds == coolingDown /\ coolingDown' = FALSE
    /\ UNCHANGED <<device, owned, buffer, call, reads, suggested>>

ClearAll ==                                                                \* mutant
    /\ events # <<>> /\ events' = <<>> /\ seen' = <<>>
    /\ UNCHANGED <<device, owned, lastTs, given, widened, leftOut, call, reads, told>>

(* events go; what was seen and the watermark stay *)
Clear ==
    /\ events # <<>> /\ events' = <<>>
    /\ UNCHANGED <<device, owned, seen, lastTs, given, widened, leftOut, call, reads, told>>

Next ==
    \/ DeviceWrites \/ IdentityRecorded \/ CooldownEnds \/ Clear
    \/ \E c \in Caller :
        \/ Escalate(c) \/ CollectNativeEvents(c) \/ AnswerCrash(c) \/ FetchFails(c)
        \/ \E floor \in Levels : GetNativeLogs(c, floor)

NativeSpec == Init /\ [][Next]_vars

-----------------------------------------------------------------------------
(* No event is taken twice: not when two reads overlap, when a fetch brings the
   last tick back, or when it was cleared (logEvents.ts:199); and where a wider
   window or a slow read brings older ones back, while no more were written
   than are remembered. *)
TakenOnce == (widened => Len(device) <= SeenSize) => \A i \in DOMAIN given : given[i] <= 1

(* No crash the watermark has passed was missed, whatever floors the reads had and
   however they overlap: the next read would not ask for it again (logRelevance.ts:8,
   logEvents.ts:158).  Only a read the caller told to begin after the crash passes it
   by, and then it is that read that moved the watermark past it. *)
NoCrashPassed == \A i \in DOMAIN device :
    device[i].kind = "crash" /\ Stamp(i) < lastTs => given[i] > 0 \/ i \in leftOut

(* The code breaks this one (README, section 6).
   A window of the caller's "widens the device query" (logTools.ts:265), and so costs
   him no crash: one that begins after the watermark narrows it, for good. *)
WindowOnlyWidens == \A i \in leftOut : device[i].kind # "crash" \/ given[i] > 0

(* The code breaks this one (README, section 6).
   A read that says all it fetched was below the floor, and which floor to retry
   with, sends the caller after events he does not have (nativeLogs.ts:99). *)
RetryShows ==
    suggested > 0 /\ (\A c \in Caller : call[c].step = "idle") => Unseen(lastTs, suggested) # {}
=============================================================================
