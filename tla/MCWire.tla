------------------------------- MODULE MCWire -------------------------------
(***************************************************************************)
(* What passes between the agent and the app, with its instances for TLC:   *)
(* text typed into a field, mock rules and the script that applies them,    *)
(* the console and the native logs, and credentials.  They share no state   *)
(* that the models keep, so a behaviour is one of one of them.              *)
(***************************************************************************)
EXTENDS TextEntry, Vault, MockRules, TLC

CONSTANTS Req, MaxRetries, MaxFlips,
          Device, LogSize, MergedSize, MaxLogged, MaxEpoch, MaxLogReads,
          Caller, NativeSize, SeenSize, MaxWritten, MaxNativeReads, PerStamp

VARIABLE part    \* the module a behaviour is of
VARIABLES native, xhr, fetch, trapped, retries, muted, flips, requests
VARIABLES buf, dropped, nextSeq, epoch, logged, cleared, logRead, logReads
VARIABLES written, owned, taken, seenEvents, lastTs, given, nativeCall, nativeReads,
          widened, leftOut, suggested, coolingDown

Hook   == INSTANCE Interceptor WITH call <- requests
Logs   == INSTANCE ConsoleLogs WITH MaxSize <- LogSize, MaxEntries <- MaxLogged,
              MaxReads <- MaxLogReads, read <- logRead, reads <- logReads
Native == INSTANCE NativeLogs WITH MaxSize <- NativeSize, MaxEvents <- MaxWritten,
              MaxReads <- MaxNativeReads, device <- written, events <- taken,
              seen <- seenEvents, call <- nativeCall, reads <- nativeReads

\* The sizes are the code's: 1000 console entries, 200 native events and 800 fingerprints, and
\* a device does not write 800 events within one tick of its clock.
ASSUME LogsAssumption == LogSize \in Nat \ {0}
ASSUME NativeAssumption ==
    /\ NativeSize \in Nat \ {0} /\ SeenSize \in Nat \ {0} /\ PerStamp \in Nat \ {0}
    /\ PerStamp <= SeenSize /\ MaxWritten \in Nat

hookVars   == <<native, xhr, fetch, trapped, retries, muted, flips, requests>>
logVars    == <<buf, dropped, nextSeq, epoch, logged, cleared, logRead, logReads>>
nativeVars == <<written, owned, taken, seenEvents, lastTs, given, nativeCall, nativeReads,
                widened, leftOut, suggested, coolingDown>>

-----------------------------------------------------------------------------
(* The state of the modules a behaviour is not of.                         *)
TextOff ==
    /\ field = 0 /\ platform = "none" /\ call = 0 /\ text = 0 /\ focus = NoField /\ mounted = {}
    /\ tag = 0 /\ w = [pc |-> "off"] /\ answer = 0 /\ faults = 0 /\ events = 0 /\ before = 0
MockOff ==
    /\ made = <<NoRules>> /\ hits = 0 /\ nextId = 0 /\ up = FALSE /\ hears = FALSE /\ wire = 0 /\ back = 0
    /\ seat = "none" /\ app = NoRules /\ at = 0 /\ fires = 0 /\ runs = 0 /\ drops = 0
HookOff ==
    /\ native = FALSE /\ xhr = "none" /\ fetch = "none" /\ trapped = FALSE /\ retries = 0
    /\ muted = FALSE /\ flips = 0 /\ requests = 0
LogsOff ==
    /\ buf = 0 /\ dropped = 0 /\ nextSeq = 0 /\ epoch = 0 /\ logged = 0 /\ cleared = {}
    /\ logRead = 0 /\ logReads = 0
NativeOff ==
    /\ written = 0 /\ owned = FALSE /\ taken = 0 /\ seenEvents = 0 /\ lastTs = 0 /\ given = 0
    /\ nativeCall = 0 /\ nativeReads = 0 /\ widened = FALSE /\ leftOut = {} /\ suggested = 0 /\ coolingDown = FALSE
VaultOff ==
    /\ token = 0 /\ minted = 0 /\ network = 0 /\ entries = 0 /\ issued = {} /\ slots = 0
    /\ capture = 0 /\ sent = NotSent /\ seen = {} /\ named = {} /\ steps = 0

WireInit ==
    \/ part = "text" /\ Init /\ MockOff /\ HookOff /\ LogsOff /\ NativeOff /\ VaultOff
    \/ part = "mock" /\ TextOff /\ MockInit /\ HookOff /\ LogsOff /\ NativeOff /\ VaultOff
    \/ part = "hook" /\ TextOff /\ MockOff /\ Hook!Init /\ LogsOff /\ NativeOff /\ VaultOff
    \/ part = "logs" /\ TextOff /\ MockOff /\ HookOff /\ Logs!Init /\ NativeOff /\ VaultOff
    \/ part = "native" /\ TextOff /\ MockOff /\ HookOff /\ LogsOff /\ Native!Init /\ VaultOff
    \/ part = "vault" /\ TextOff /\ MockOff /\ HookOff /\ LogsOff /\ NativeOff /\ VaultInit

WireNext ==
    \/ part = "text" /\ Next /\ UNCHANGED <<part, mockVars, hookVars, logVars, nativeVars, vaultVars>>
    \/ part = "mock" /\ MockNext /\ UNCHANGED <<part, vars, hookVars, logVars, nativeVars, vaultVars>>
    \/ part = "hook" /\ Hook!Next /\ UNCHANGED <<part, vars, mockVars, logVars, nativeVars, vaultVars>>
    \/ part = "logs" /\ Logs!Next /\ UNCHANGED <<part, vars, mockVars, hookVars, nativeVars, vaultVars>>
    \/ part = "native" /\ Native!Next /\ UNCHANGED <<part, vars, mockVars, hookVars, logVars, vaultVars>>
    \/ part = "vault" /\ VaultNext /\ UNCHANGED <<part, vars, mockVars, hookVars, logVars, nativeVars>>

allVars == <<part, vars, mockVars, hookVars, logVars, nativeVars, vaultVars>>
WireSpec == WireInit /\ [][WireNext]_allVars

-----------------------------------------------------------------------------
(* Properties, stated in the modules.                                      *)

\* The app's script tells each request once, and a mocked one whole.  (networkInterceptor.ts)
InterceptorTells == part = "hook" => Hook!MockedIsTold /\ Hook!ToldOnce
\* What the agent is told of the logs: an id names one console entry, silence about evictions
\* means completeness, no native event is answered twice, and no crash is passed by but in a
\* read told to begin after it.
\* (logs.ts, logEvents.ts)
LogsTell ==
    /\ part = "logs" => Logs!IdsNameOne /\ Logs!SilenceIsComplete
    /\ part = "native" => Native!TakenOnce /\ Native!NoCrashPassed
=============================================================================
