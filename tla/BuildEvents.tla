----------------------------- MODULE BuildEvents -----------------------------
(* Metro's build events (bundle.ts): the socket to /hot that scan_metro and
   connect_metro open, its reconnection, the buffer of bundle errors it fills,
   and get_bundle_errors, which reads the buffer, may clear it, and otherwise
   reads the error off the device's screen (bundleTools.ts). *)
EXTENDS Naturals, Sequences, FiniteSets

CONSTANTS
    Calls,          \* bound on tool calls, 1..n in the order they begin
    Socks,          \* bound on sockets, 1..n in the order they are dialled
    BufferSize,     \* BundleErrorBuffer.maxSize
    MaxErrors,      \* how many errors an answer has at most
    MaxAttempts,    \* MAX_BUILD_EVENT_RECONNECT_ATTEMPTS
    MaxBuilds,      \* bound on builds that fail
    MaxOutages      \* bound on Metro's stops

VARIABLES
    up, outages,    \* Metro answers on the port
    sock, dialler,  \* the sockets, and the call or timer that dialled each
    metroEventWs,   \* the one the module keeps
    known,          \* metroBuildEventPort is set
    reconnecting, attempts,     \* metroBuildEventReconnecting, metroBuildEventAttempts
    timers,         \* reconnection timers armed
    lostDial,       \* a reconnection's dial has failed
    errors, hasError, isBuilding,   \* bundleErrorBuffer, its status
    builds,         \* builds that failed
    call

vars == <<up, outages, sock, dialler, metroEventWs, known, reconnecting, attempts, timers, lostDial,
          errors, hasError, isBuilding, builds, call>>
metro == <<up, outages, builds>>
retry == <<reconnecting, attempts, timers, lostDial>>
link == <<sock, dialler, metroEventWs, known, retry>>
buffer == <<errors, hasError, isBuilding>>

NoSock == 0
Timer == 0          \* the dialler that is no call
Idle == [pc |-> "idle", told |-> <<>>, cleared |-> 0]

Init ==
    /\ up \in BOOLEAN /\ outages = 0 /\ builds = 0
    /\ sock = [s \in Socks |-> "none"] /\ dialler = [s \in Socks |-> Timer]
    /\ metroEventWs = NoSock /\ known = FALSE
    /\ reconnecting = FALSE /\ attempts = 0 /\ timers = 0 /\ lostDial = FALSE
    /\ errors = <<>> /\ hasError = FALSE /\ isBuilding = FALSE
    /\ call = [c \in Calls |-> Idle]

Linked == {s \in Socks : sock[s] = "open"}

-----------------------------------------------------------------------------
(* Metro *)

MetroStops ==
    /\ up /\ outages < MaxOutages
    /\ up' = FALSE /\ outages' = outages + 1
    /\ sock' = [s \in Socks |-> IF sock[s] = "open" THEN "closing" ELSE sock[s]]
    /\ UNCHANGED <<dialler, metroEventWs, known, retry, buffer, builds, call>>

MetroStarts ==
    /\ ~ up /\ up' = TRUE
    /\ UNCHANGED <<outages, builds, link, buffer, call>>

(* the last n of a sequence, or all of it *)
Newest(errs, n) == SubSeq(errs, IF Len(errs) > n THEN Len(errs) - n + 1 ELSE 1, Len(errs))

Add(errs, e) == Newest(Append(errs, e), BufferSize)

(* bundle_build_started; update_start keeps hasError *)
BuildStarts(first) ==
    /\ Linked # {}
    /\ isBuilding' = TRUE /\ hasError' = (hasError /\ ~ first)
    /\ UNCHANGED <<metro, link, errors, call>>

BuildDone ==
    /\ Linked # {}
    /\ isBuilding' = FALSE
    /\ UNCHANGED <<metro, link, errors, hasError, call>>

(* every open socket has a handler of its own, which adds the error once more; what
   is no JSON leaves isBuilding *)
BuildFails(json) ==
    /\ up /\ builds < MaxBuilds
    /\ builds' = builds + 1
    /\ errors' = Newest(errors \o [i \in 1..Cardinality(Linked) |-> builds'], BufferSize)
    /\ hasError' = (hasError \/ Linked # {})
    /\ isBuilding' = (isBuilding /\ (Linked = {} \/ ~ json))
    /\ UNCHANGED <<up, outages, link, call>>

-----------------------------------------------------------------------------
(* connectMetroBuildEvents and its reconnection *)

Fresh == {s \in Socks : sock[s] = "none"}
IsOpen(s) == s # NoSock /\ sock[s] = "open"

DialFor(c) ==
    /\ Fresh # {}
    /\ LET s == CHOOSE s \in Fresh : \A t \in Fresh : s <= t
       IN  sock' = [sock EXCEPT ![s] = "dialling"] /\ dialler' = [dialler EXCEPT ![s] = c]

(* the delay a failed attempt asks for, unless one is pending or it was the last *)
ScheduleBuildEventReconnection(flag, n) ==
    IF flag \/ n >= MaxAttempts THEN [flag |-> flag, armed |-> 0] ELSE [flag |-> TRUE, armed |-> 1]

TimerFires ==
    /\ timers > 0
    /\ IF IsOpen(metroEventWs)                  \* already connected
       THEN /\ timers' = timers - 1 /\ reconnecting' = FALSE /\ attempts' = 0
            /\ UNCHANGED <<sock, dialler>>
       ELSE /\ timers' = timers - 1 /\ attempts' = attempts + 1
            /\ DialFor(Timer) /\ UNCHANGED reconnecting
    /\ UNCHANGED <<metro, metroEventWs, known, lostDial, buffer, call>>

HandshakeSucceeds(s) ==
    /\ sock[s] = "dialling" /\ up
    /\ sock' = [sock EXCEPT ![s] = "open"]
    /\ metroEventWs' = s /\ known' = TRUE
    /\ reconnecting' = FALSE /\ attempts' = 0
    /\ call' = IF dialler[s] = Timer THEN call ELSE [call EXCEPT ![dialler[s]].pc = "answered"]
    /\ UNCHANGED <<metro, dialler, timers, lostDial, buffer>>

(* with a reconnection flagged the promise stays as it is *)
HandshakeFails(s) ==
    LET after == ScheduleBuildEventReconnection(FALSE, attempts)
    IN  /\ sock[s] = "dialling"
        /\ sock' = [sock EXCEPT ![s] = "closed"]
        /\ IF reconnecting THEN /\ lostDial' = (lostDial \/ dialler[s] = Timer)
                                /\ UNCHANGED <<reconnecting, timers, call>>
           ELSE IF dialler[s] = Timer
           THEN /\ reconnecting' = after.flag /\ timers' = timers + after.armed
                /\ UNCHANGED <<call, lostDial>>
           ELSE /\ call' = [call EXCEPT ![dialler[s]].pc = "answered"]
                /\ UNCHANGED <<reconnecting, timers, lostDial>>
        /\ UNCHANGED <<metro, dialler, metroEventWs, known, attempts, buffer>>

OfTheKept(s) == metroEventWs = s                \* mutant
(* any socket's close is taken for the close of the one that is kept *)
Reconnects(s) == known

CloseEvent(s) ==
    LET after == ScheduleBuildEventReconnection(reconnecting, attempts)
    IN  /\ sock[s] = "closing"
        /\ sock' = [sock EXCEPT ![s] = "closed"] /\ metroEventWs' = NoSock
        /\ IF Reconnects(s) THEN reconnecting' = after.flag /\ timers' = timers + after.armed
           ELSE UNCHANGED <<reconnecting, timers>>
        /\ UNCHANGED <<metro, dialler, known, attempts, lostDial, buffer, call>>

-----------------------------------------------------------------------------
(* the tools *)

May(c) == call[c] = Idle /\ \A b \in Calls : b < c => call[b] # Idle

(* scan_metro and connect_metro, which wait for the link *)
ConnectMetroBuildEvents(c) ==
    /\ May(c)
    /\ IF IsOpen(metroEventWs)
       THEN call' = [call EXCEPT ![c].pc = "answered"] /\ UNCHANGED <<sock, dialler>>
       ELSE call' = [call EXCEPT ![c].pc = "linking"] /\ DialFor(c)
    /\ UNCHANGED <<metro, metroEventWs, known, retry, buffer>>

(* disconnect_metro *)
DisconnectMetroBuildEvents(c) ==
    /\ May(c) /\ metroEventWs # NoSock
    /\ sock' = [sock EXCEPT ![metroEventWs] = "closing"] /\ metroEventWs' = NoSock
    /\ call' = [call EXCEPT ![c].pc = "answered"]
    /\ UNCHANGED <<metro, dialler, known, retry, buffer>>

Latest(errs) == Newest(errs, MaxErrors)

ClearThenRead(errs) == [told |-> <<>>, left |-> <<>>]       \* mutant
ReadThenClear(errs) == [told |-> Latest(errs), left |-> <<>>]

FlagAfterNone(flag) == flag                     \* mutant
FlagAfterClear(flag) == FALSE

(* get_bundle_errors, with clear and with a platform to look at *)
GetBundleErrors(c, clear, platform) ==
    LET r == IF clear THEN ReadThenClear(errors) ELSE [told |-> Latest(errors), left |-> errors]
        n == IF clear THEN Len(errors) ELSE 0
    IN  /\ May(c)
        /\ errors' = r.left
        /\ hasError' = IF clear THEN FlagAfterClear(hasError) ELSE hasError
        /\ call' = [call EXCEPT ![c] = [pc |-> IF r.told # <<>> \/ ~ platform THEN "answered" ELSE "state",
                                        told |-> r.told, cleared |-> n]]
        /\ UNCHANGED <<metro, link, isBuilding>>

(* Metro runs and no app is attached, or not so *)
CheckMetroState(c, needsFallback) ==
    /\ call[c].pc = "state" /\ (needsFallback => up)
    /\ call' = [call EXCEPT ![c].pc = IF needsFallback THEN "shot" ELSE "answered"]
    /\ UNCHANGED <<metro, link, buffer>>

(* the error of the last build, read off the screen; or the screenshot, the
   recognition or the parser comes to nothing *)
ReadsScreen(c, found) ==
    /\ call[c].pc = "shot" /\ (found => builds > 0)
    /\ IF found THEN errors' = Add(errors, builds) /\ hasError' = TRUE ELSE UNCHANGED <<errors, hasError>>
    /\ call' = [call EXCEPT ![c].pc = "answered", ![c].told = IF found THEN <<builds>> ELSE <<>>]
    /\ UNCHANGED <<metro, link, isBuilding>>

Next ==
    \/ MetroStops \/ MetroStarts \/ BuildDone \/ TimerFires
    \/ \E s \in Socks : HandshakeSucceeds(s) \/ HandshakeFails(s) \/ CloseEvent(s)
    \/ \E c \in Calls : ConnectMetroBuildEvents(c) \/ DisconnectMetroBuildEvents(c)
    \/ \E c \in Calls, b, p \in BOOLEAN : GetBundleErrors(c, b, p)
    \/ \E c \in Calls, b \in BOOLEAN : CheckMetroState(c, b) \/ ReadsScreen(c, b)
    \/ \E b \in BOOLEAN : BuildStarts(b) \/ BuildFails(b)

Spec == Init /\ [][Next]_vars

-----------------------------------------------------------------------------
(* "Has Error: Yes" is never shown of an empty buffer, whoever cleared it. *)
ErrorsBacked == hasError => errors # <<>>

(* "The errors are still returned in this response" (bundleTools.ts): a call
   that clears has told what it cleared, but for what exceeds maxErrors. *)
ClearTellsAll ==
    \A c \in Calls : call[c].cleared > Len(call[c].told) => call[c].told # <<>> /\ call[c].cleared > MaxErrors

(* A link once made comes back: while none is open, one is being closed or
   dialled or a timer is armed, until the attempts are used up or a
   reconnection's own handshake has failed. *)
LinkComesBack ==
    known /\ ~ lostDial /\ attempts < MaxAttempts =>
        timers > 0 \/ \E s \in Socks : sock[s] \in {"open", "closing", "dialling"}

(* "Build events connection is optional" (connectionTools.ts:217): a call that
   waits for the link waits for a handshake under way. *)
LinkIsOptional ==
    \A c \in Calls : call[c].pc = "linking" => \E s \in Socks : dialler[s] = c /\ sock[s] = "dialling"
=============================================================================
