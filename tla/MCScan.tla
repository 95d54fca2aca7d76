------------------------------- MODULE MCScan -------------------------------
(***************************************************************************)
(* What the server keeps of Metro, with instances for TLC: the tools that   *)
(* scan it, the names given to an Electron app's windows, and Metro's build *)
(* events.  They share no state that the models keep, so a behaviour is one *)
(* of one of them.                                                          *)
(***************************************************************************)
EXTENDS MetroScan

CONSTANTS Ids, Urls, Titles, Lookups, MaxMoves,
          BuildCalls, Socks, BufferSize, MaxErrors, MaxAttempts, MaxBuilds, MaxOutages

VARIABLE part    \* the module a behaviour is of
VARIABLES window, fresh, byId, shown, reserved, graceSpent, named, lookup, asked, moves
VARIABLES up, outages, sock, dialler, metroEventWs, known, reconnecting, attempts, timers, lostDial,
          errors, hasError, isBuilding, builds, buildCall

Windows == INSTANCE ChromiumNames WITH Calls <- Lookups, registry <- named, call <- lookup
Builds == INSTANCE BuildEvents WITH Calls <- BuildCalls, call <- buildCall

nameVars == <<window, fresh, byId, shown, reserved, graceSpent, named, lookup, asked, moves>>
buildVars == <<up, outages, sock, dialler, metroEventWs, known, reconnecting, attempts, timers, lostDial,
               errors, hasError, isBuilding, builds, buildCall>>

\* A buffer and an answer hold something; sockets and calls are numbered, and 0 is none.
ASSUME BuildAssumption ==
    /\ BufferSize \in Nat \ {0} /\ MaxErrors \in Nat \ {0} /\ MaxAttempts \in Nat
    /\ IsFiniteSet(Socks) /\ Socks \subseteq Nat \ {0}

\* Windows have ids, pages addresses in the order they sort, and no page is titled
\* with the address of another.
ASSUME NameAssumption ==
    /\ IsFiniteSet(Ids) /\ Ids \subseteq Nat \ {0} /\ Urls \subseteq Nat \ {0}
    /\ Titles \subseteq Nat \ {0} /\ Titles \intersect Urls = {}

(* Two devices, one of which runs two apps, one in two runtimes, and two Metros that
   both list the other; and a browser with a page. *)
Runs == <<"Pro", "Pro", "Pro", "ProMax", "Tab">>
Apps == <<"a", "a", "b", "a", "page">>
Words == [d \in {"Pro", "ProMax", "Tab"} |->
             IF d = "Pro" THEN {"pro"} ELSE IF d = "ProMax" THEN {"pro", "max"} ELSE {"tab"}]
ListedBy == << {1, 2, 3, 4}, {4}, {5} >>
Together == {{1, 2, 3}, {3, 4}, {4, 5}}

-----------------------------------------------------------------------------
ScanOff ==
    /\ pid = 0 /\ page = 0 /\ attached = {} /\ left = {} /\ front = 0 /\ paused = {} /\ registry = {}
    /\ metroPidByPort = 0 /\ stale = {} /\ call = 0 /\ lone = NoCall /\ events = 0
    /\ seenFirst = 0 /\ said = {} /\ fell = {}
NamesOff ==
    /\ window = 0 /\ fresh = {} /\ byId = 0 /\ shown = 0 /\ reserved = 0 /\ graceSpent = {}
    /\ named = 0 /\ lookup = 0 /\ asked = {} /\ moves = 0

BuildsOff ==
    /\ up = FALSE /\ outages = 0 /\ sock = 0 /\ dialler = 0 /\ metroEventWs = 0 /\ known = FALSE
    /\ reconnecting = FALSE /\ attempts = 0 /\ timers = 0 /\ lostDial = FALSE
    /\ errors = <<>> /\ hasError = FALSE /\ isBuilding = FALSE /\ builds = 0 /\ buildCall = 0

\* a server that has just started before the apps, or that has scanned before
ScanInit  == /\ part = "scan" /\ Init /\ NamesOff /\ BuildsOff
             /\ attached = {} <=> metroPidByPort # pid
BuildInit == part = "build" /\ ScanOff /\ NamesOff /\ Builds!Init
FindInit  == ScanInit \/ BuildInit \/ (part = "names" /\ ScanOff /\ Windows!Init /\ BuildsOff)
FindNext ==
    \/ part = "scan" /\ Next /\ UNCHANGED <<part, nameVars, buildVars>>
    \/ part = "names" /\ Windows!Next /\ UNCHANGED <<part, vars, buildVars>>
    \/ part = "build" /\ Builds!Next /\ UNCHANGED <<part, vars, nameVars>>

allVars == <<part, vars, nameVars, buildVars>>
FindSpec  == FindInit /\ [][FindNext]_allVars
BuildSpec == BuildInit /\ [][FindNext]_allVars

-----------------------------------------------------------------------------
(* Properties, stated in the modules.                                      *)

\* Metro's restart, once noticed, is told, and no bundle is suspected without
\* one.  (metroIdentity.ts)
RestartsTold == part = "scan" => RestartIsTold /\ SuspectedForCause
\* A scan nothing came between connects the apps that answer; an app shown as
\* PASSED by ensure_connection answers or has stopped since it was asked, and no
\* connected app is left out of the answer.  (connectionTools.ts, connection.ts)
AnswersHold == part = "scan" => FrontIsConnected /\ PassedAnswers /\ NoneLeftOut
\* The registry and the listings agree on a window's name, a name stays with its
\* page, and no window is attached that no call named.  (metro.ts)
NamesHold == part = "names" =>
    Windows!RegistryAgrees /\ Windows!NamesKeepTheirPage /\ Windows!OnlyTheAsked
\* No error is cleared unseen, "Has Error" has one to show, and a link to Metro's
\* build events comes back.  (bundle.ts, bundleTools.ts)
BuildsKept == part = "build" =>
    Builds!ErrorsBacked /\ Builds!ClearTellsAll /\ Builds!LinkComesBack
\* A tool call never hangs on the build events.  (connectionTools.ts:217)
LinkIsOptional == part = "build" => Builds!LinkIsOptional
=============================================================================
