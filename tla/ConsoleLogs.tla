---------------------------- MODULE ConsoleLogs ----------------------------
(* The console buffers (logs.ts, state.ts) and get_logs over them: one bounded
   buffer for each device, entries numbered across all of them, stamped with
   the run of the app they came from; a read of one device, or of all merged,
   and what it says of an empty buffer (logTools.ts, logDiagnosis.ts). *)
EXTENDS Naturals, Sequences, FiniteSets, SequencesExt, FiniteSetsExt

CONSTANTS
    Device,
    MaxSize, MergedSize,            \* what a buffer and a merged copy hold; positive
    MaxEntries, MaxEpoch, MaxReads  \* bounds

VARIABLES
    buf, dropped,       \* per device: the entries held, how many were evicted since a clear
    nextSeq, epoch,     \* the next number; the run each device's app is in
    logged,             \* history: every entry there was, by number
    cleared,            \* history: the numbers clear_logs removed
    read, reads         \* the get_logs call under way or last answered; how many there were

vars == <<buf, dropped, nextSeq, epoch, logged, cleared, read, reads>>
buffers == <<buf, dropped, nextSeq, epoch, logged, cleared>>

NoRead == [step |-> "none", of |-> {}, count |-> 0, run |-> 0, rows |-> {}, evicted |-> 0, reason |-> "none"]

Init ==
    /\ buf = [d \in Device |-> <<>>] /\ dropped = [d \in Device |-> 0]
    /\ nextSeq = 1 /\ epoch = [d \in Device |-> 1]
    /\ logged = <<>> /\ cleared = {}
    /\ read = NoRead /\ reads = 0

(* what a bounded buffer holds after its newest entry *)
Bounded(entries, size) ==
    IF Len(entries) > size THEN SubSeq(entries, Len(entries) - size + 1, Len(entries)) ELSE entries

OwnSeq(d) == Len(SelectSeq(logged, LAMBDA e : e.device = d)) + 1        \* mutant

NextSeq(d) == nextSeq

Add(d) ==
    LET entry == [seq |-> NextSeq(d), device |-> d, epoch |-> epoch[d]]
    IN  /\ Len(logged) < MaxEntries
        /\ logged' = Append(logged, entry) /\ nextSeq' = nextSeq + 1
        /\ buf' = [buf EXCEPT ![d] = Bounded(Append(@, entry), MaxSize)]
        /\ dropped' = [dropped EXCEPT ![d] = @ + (IF Len(buf[d]) = MaxSize THEN 1 ELSE 0)]
        /\ UNCHANGED <<epoch, cleared, read, reads>>

BumpEpoch(d) ==
    /\ epoch[d] < MaxEpoch
    /\ epoch' = [epoch EXCEPT ![d] = @ + 1]
    /\ UNCHANGED <<buf, dropped, nextSeq, logged, cleared, read, reads>>

Numbers(entries) == {e.seq : e \in ToSet(entries)}

ClearKeepingCount(of) ==                \* mutant
    /\ buf' = [d \in Device |-> IF d \in of THEN <<>> ELSE buf[d]]
    /\ UNCHANGED dropped
    /\ cleared' = cleared \union UNION {Numbers(buf[d]) : d \in of}
    /\ UNCHANGED <<nextSeq, epoch, logged, read, reads>>

ClearLogs(of) ==
    /\ buf' = [d \in Device |-> IF d \in of THEN <<>> ELSE buf[d]]
    /\ dropped' = [d \in Device |-> IF d \in of THEN 0 ELSE dropped[d]]
    /\ cleared' = cleared \union UNION {Numbers(buf[d]) : d \in of}
    /\ UNCHANGED <<nextSeq, epoch, logged, read, reads>>

-----------------------------------------------------------------------------
(* entries as a read goes through them: one device's after another's, in the
   order in which the buffers were made *)
Order == SetToSeq(Device)
Follows(e, f) ==
    IF e.device = f.device THEN e.seq > f.seq
    ELSE \E i, j \in DOMAIN Order : i > j /\ Order[i] = e.device /\ Order[j] = f.device
LastOf(entries, n) == {e \in entries : Cardinality({f \in entries : Follows(f, e)}) < n}

(* the buffer a read is of: the device's, or a bounded copy of all *)
Held(of) == UNION {ToSet(buf[d]) : d \in of}
ResolveLogBuffer(of) == IF \E d \in Device : of = {d} THEN Held(of) ELSE LastOf(Held(of), MergedSize)

DroppedCount(of) == IF \E d \in Device : of = {d} THEN dropped[CHOOSE d \in Device : of = {d}] ELSE 0

(* the run "current" means: the device's, or the highest of any *)
ResolveDeviceEpoch(of) == Max({epoch[d] : d \in of})

Get(of, count, run) == LastOf({e \in ResolveLogBuffer(of) : run = 0 \/ e.epoch = run}, count)

(* the mirror is refreshed before the buffer is read: the app logs meanwhile *)
GetLogs(of, count) ==
    /\ read.step \in {"none", "answered"} /\ reads < MaxReads /\ reads' = reads + 1
    /\ \E current \in BOOLEAN :
          read' = [NoRead EXCEPT !.step = "refreshing", !.of = of, !.count = count,
                                 !.run = IF current THEN 1 ELSE 0]
    /\ UNCHANGED buffers

Answer(run, reason) ==
    [read EXCEPT !.step = "answered", !.rows = Get(read.of, read.count, run), !.run = run,
                 !.evicted = DroppedCount(read.of), !.reason = reason]

ReadBuffer ==
    /\ read.step = "refreshing"
    /\ read' = IF ResolveLogBuffer(read.of) = {} THEN [read EXCEPT !.step = "diagnosing"]
               ELSE LET answer == Answer(IF read.run = 0 THEN 0 ELSE ResolveDeviceEpoch(read.of), "none")
                    IN  IF answer.rows = {} THEN [answer EXCEPT !.reason = "filtered_out"] ELSE answer
    /\ UNCHANGED <<buffers, reads>>

(* an empty buffer: the connection and then the pipeline are asked; a pipeline
   that was broken and recovered is worth a second read, of every run *)
DiagnoseEmptyLogs ==
    /\ read.step = "diagnosing"
    /\ \E reason \in {"disconnected", "post_reconnect", "pipeline_failed", "pipeline_recovered",
                      "no_logs_verified", "no_logs_unverified"} :
          read' = IF reason = "pipeline_recovered" THEN Answer(0, reason)
                  ELSE [read EXCEPT !.step = "answered", !.reason = reason]
    /\ UNCHANGED <<buffers, reads>>

FindLogEvent(seq) == {d \in Device : seq \in Numbers(buf[d])}

Next ==
    \/ \E d \in Device : Add(d) \/ BumpEpoch(d)
    \/ \E of \in {{d} : d \in Device} \union {Device} :
          ClearLogs(of) \/ \E count \in 1..MaxSize : GetLogs(of, count)
    \/ ReadBuffer
    \/ DiagnoseEmptyLogs

LogSpec == Init /\ [][Next]_vars

-----------------------------------------------------------------------------
(* An id get_logs gave names that entry and no other, on any device, for as
   long as it names one (state.ts: ids are process-global; jsLogEvents.ts:60):
   no row's details are another row's. *)
IdsNameOne ==
    /\ \A i, j \in DOMAIN logged : i # j => logged[i].seq # logged[j].seq
    /\ \A row \in read.rows : \A d \in FindLogEvent(row.seq) : d = row.device /\ row \in ToSet(buf[d])

(* A read of one device that says nothing was evicted has in its buffer all
   the device logged since the last clear: silence means complete
   (epochRender.ts:29). *)
SilenceIsComplete == \A d \in Device :
    dropped[d] = Cardinality({i \in DOMAIN logged : logged[i].device = d /\
                    logged[i].seq \notin cleared \union Numbers(buf[d]) /\
                    \A j \in DOMAIN logged : logged[j].device = d /\ logged[j].seq \in cleared => j < i})

(* The code breaks this one (README, section 6).
   A read shows the newest of what is held (logs.ts:63): every held entry it
   could have shown and did not is older than every entry it shows. *)
NewestShown ==
    read.step = "answered" /\ read.run = 0 =>
        \A e \in Held(read.of) \ read.rows :
            (\A row \in read.rows : e.seq < row.seq) \/ (\A row \in read.rows : e.seq > row.seq)
=============================================================================
