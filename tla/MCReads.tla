------------------------------ MODULE MCReads ------------------------------
(***************************************************************************)
(* The tools that look at the screen through the fiber tree, with their    *)
(* instances for TLC.  They are calls of their own and share no state, so  *)
(* a behaviour is one of one of them: the others are switched off in its   *)
(* initial state.                                                          *)
(***************************************************************************)
EXTENDS Integers, Sequences, TLC

CONSTANTS Readers, Scenes, Watched, Height, Far, Trees, MaxFibers, Devices, Screens, Calls, MaxMoves, MaxClock,
          Cases, Callers, Ups, Down, Inset, Views, Lookahead,
          Settings, Places, MaxVisits, NavPolls, MaxRoutes, MaxRuns

VARIABLES scene, globals, pending, reader, taken
VARIABLES laid, hook, call, frames, elements
VARIABLES screen, keyboard, snapshots, lastMutatingAt, clock, calls, verdict, moves
VARIABLES case, mounted, tapGlobals, tapPending, tapPc, answers
VARIABLES view, got, left, timedOut, told
VARIABLES router, readable, place, routes, run, heading, store, epoch, sampled, nav

State   == INSTANCE ScreenState WITH pc <- reader, seen <- taken
Layout  == INSTANCE ScreenLayout WITH tree <- laid
Stale   == INSTANCE Staleness
Lookup  == INSTANCE FiberLookup WITH tree <- mounted, globals <- tapGlobals,
                                     pending <- tapPending, pc <- tapPc
Inspect == INSTANCE FiberInspect WITH answer <- told
Nav     == INSTANCE Navigation WITH moves <- routes, MaxMoves <- MaxRoutes

ASSUME ScreenAssumption ==
    /\ Watched \subseteq Scenes
    /\ Height \in Nat \ {0, 1} /\ Far \in Nat /\ Far > 10 * Height
    /\ \A s \in Scenes :
          /\ s.nodes \in Seq([role : {"marked", "press", "switch", "input", "text"}, skip : STRING,
                             pinned : BOOLEAN, box : [top : Int, size : Int]])
          /\ s.overlay.kind \in {"none", "named", "cover", "absolute"}
          /\ s.overlay.first \in 1 .. Len(s.nodes) + 1 /\ s.overlay.last \in 0 .. Len(s.nodes)
          /\ s.overlay.panel \in [top : Int, size : Int]
          /\ s.inset \in 0 .. Height - 2 /\ s.keyboard \in Int
          \* A sheet holds nothing that is above it.
          /\ s.overlay.kind = "cover" =>
                \A i \in DOMAIN s.nodes : i \in s.overlay.first .. s.overlay.last =>
                    s.nodes[i].box.top + s.nodes[i].box.size >= s.inset
ASSUME LayoutAssumption ==
    \A t \in Trees : /\ t.inset \in Nat /\ DOMAIN t.fibers \subseteq 1..MaxFibers
                     /\ \A i \in DOMAIN t.fibers : t.fibers[i].box \in [top : Int, size : Int]
\* A parent comes before its children, and the first host is the app's window.
ASSUME InspectAssumption ==
    /\ Lookahead \in Nat /\ Inset \in Nat
    /\ \A v \in Views :
          /\ v.fibers \in Seq([up : Nat, host : BOOLEAN, name : STRING, acts : BOOLEAN,
                               box : [top : Int, size : Int], sheet : BOOLEAN, throws : BOOLEAN])
          /\ \A i \in DOMAIN v.fibers : v.fibers[i].up < i
          /\ \A i \in DOMAIN v.fibers :
                v.fibers[i].host /\ (\A k \in 1..i-1 : ~v.fibers[k].host) =>
                    v.fibers[i].box = [top |-> 0, size |-> Height] /\ \A k \in 1..i : ~v.fibers[k].sheet
ASSUME StaleAssumption == Devices # {} /\ MaxClock \in Nat
\* A place is a name and a number, 0 for one the router does not know.
ASSUME TrailAssumption == Places \subseteq STRING \X Nat /\ MaxVisits \in Nat /\ MaxRuns \in Nat

stateVars   == <<scene, globals, pending, reader, taken>>
layoutVars  == <<laid, hook, call, frames, elements>>
staleVars   == <<screen, keyboard, snapshots, lastMutatingAt, clock, calls, verdict, moves>>
lookupVars  == <<case, mounted, tapGlobals, tapPending, tapPc, answers>>
inspectVars == <<view, got, left, timedOut, told>>
routeVars   == <<router, readable, place, routes, run, heading, store, epoch, sampled, nav>>

-----------------------------------------------------------------------------
StateOff ==
    /\ scene = [nodes |-> <<>>]
    /\ globals = State!Nothing /\ pending = {}
    /\ reader = [r \in Readers |-> "absent"] /\ taken = [r \in Readers |-> State!Nothing]
LayoutOff ==
    /\ laid = [fibers |-> <<>>, inset |-> 0] /\ hook = TRUE
    /\ call = "off" /\ frames = <<>> /\ elements = <<>>
StaleOff ==
    /\ screen = [d \in Devices |-> CHOOSE s \in Screens : TRUE]
    /\ keyboard = [d \in Devices |-> FALSE]
    /\ snapshots = [d \in Devices |-> Stale!NoSnapshot]
    /\ lastMutatingAt = 0 /\ clock = MaxClock
    /\ calls = [c \in Calls |-> Stale!Idle]
    /\ verdict = [c \in Calls |-> Stale!NoVerdict] /\ moves = MaxMoves
LookupOff ==
    /\ case = [tree |-> <<>>, later |-> <<>>, queries |-> <<>>]
    /\ mounted = <<>> /\ tapGlobals = Lookup!Nothing /\ tapPending = {}
    /\ tapPc = [c \in Callers |-> "absent"] /\ answers = [c \in Callers |-> <<>>]
InspectOff ==
    /\ view = [fibers |-> <<>>, point |-> 0] /\ got = <<>> /\ left = 0
    /\ timedOut = FALSE /\ told = Inspect!NoAnswer
NavOff ==
    /\ router = "off" /\ readable = FALSE /\ place = Nav!Nowhere /\ routes = MaxRoutes
    /\ run = MaxRuns /\ heading = Nav!Nowhere /\ store = [mode |-> "sampled", entries |-> <<>>]
    /\ epoch = MaxRuns /\ sampled = [a \in Nav!Args |-> <<>>]
    /\ nav = [c \in Callers |-> Nav!Unasked]

ReadsInit ==
    \/ State!Init /\ LayoutOff /\ StaleOff /\ LookupOff /\ InspectOff /\ NavOff
    \/ StateOff /\ Layout!Init /\ StaleOff /\ LookupOff /\ InspectOff /\ NavOff
    \/ StateOff /\ LayoutOff /\ Stale!Init /\ LookupOff /\ InspectOff /\ NavOff
    \/ StateOff /\ LayoutOff /\ StaleOff /\ Lookup!Init /\ InspectOff /\ NavOff
    \/ StateOff /\ LayoutOff /\ StaleOff /\ LookupOff /\ Inspect!Init /\ NavOff
    \/ StateOff /\ LayoutOff /\ StaleOff /\ LookupOff /\ InspectOff /\ Nav!Init

ReadsNext ==
    \/ State!Next /\ UNCHANGED <<layoutVars, staleVars, lookupVars, inspectVars, routeVars>>
    \/ Layout!Next /\ UNCHANGED <<stateVars, staleVars, lookupVars, inspectVars, routeVars>>
    \/ Stale!Next /\ UNCHANGED <<stateVars, layoutVars, lookupVars, inspectVars, routeVars>>
    \/ Lookup!Next /\ UNCHANGED <<stateVars, layoutVars, staleVars, inspectVars, routeVars>>
    \/ Inspect!Next /\ UNCHANGED <<stateVars, layoutVars, staleVars, lookupVars, routeVars>>
    \/ Nav!Next /\ UNCHANGED <<stateVars, layoutVars, staleVars, lookupVars, inspectVars>>

ReadsSpec == ReadsInit /\ [][ReadsNext]_<<stateVars, layoutVars, staleVars, lookupVars, inspectVars, routeVars>>

-----------------------------------------------------------------------------
(* Properties, stated in the modules.                                      *)

\* What the reads of the screen answer is where they say it is: get_screen_state lists an
\* element where it is drawn, the layout leaves out nothing that is in the window, and
\* inspect_at_point names what is at the point.  What is offered to a tap it can reach,
\* and what is not listed is said not to be measured.
\* (screenState.ts, screenLayout.ts, inspector.ts)
ReachedOrSaid ==
    /\ State!ReachableReached /\ State!SilenceIsComplete /\ State!FrameTruth
    /\ Layout!LayoutComplete /\ Inspect!NamedTruly
\* The layout's tree is the one on screen; tap presses what its query means and denies
\* only what is not there.  (screenLayout.ts, pressables.ts, tap.ts)
LookupTrue == Layout!TreeFaithful /\ Lookup!PointIsElements /\ Lookup!FoundIfThere
\* What one call of it left in the app is answered once.  (screenState.ts)
TakenOnce == State!TakenOnce
\* The trail of screens joins up, and a move is reported as it was seen.
\* (routeHistory.ts, navigate.ts)
TrailTrue == Nav!OneCurrent /\ Nav!FromIsPrevious /\ Nav!ChangedTrue
\* The agent's own move is not blamed on anybody.  (screenStaleness.ts)
OwnMoveExcused == Stale!OwnMoveExcused

-----------------------------------------------------------------------------
\* The agent's calls are alike.
Alike == Permutations(Calls)

(* get_screen_state: scenes of two elements, with and without an overlay.  *)

Box(t, s) == [top |-> t, size |-> s]
N(role, skip, top, size) == [role |-> role, skip |-> skip, box |-> Box(top, size), pinned |-> FALSE]

MCNodes ==
    {N("marked", "none", 3, 1), N("marked", "none", 1, 2), N("press", "none", 2, 1),
     N("switch", "none", 0, 1), N("input", "host", 3, 1), N("marked", "hidden", 0, 1),
     N("text", "none", 2, 1), N("text", "unmeasurable", 2, 1),
     [N("marked", "none", 0, 1) EXCEPT !.pinned = TRUE]}

O(kind, first, last, panel, backdrop, opaque) ==
    [kind |-> kind, first |-> first, last |-> last, panel |-> panel,
     backdrop |-> backdrop, opaque |-> opaque]
Bare == O("none", 1, 0, Box(0, 0), FALSE, FALSE)

\* The overlay holds the second element, the first, or none of them.
MCSpans == {<<2, 2>>, <<1, 1>>, <<2, 1>>, <<3, 2>>}
MCOverlays ==
    UNION {{O("named", x[1], x[2], Box(2, 2), TRUE, TRUE),
            O("cover", x[1], x[2], Box(0, 4), FALSE, TRUE),
            O("absolute", x[1], x[2], Box(2, 2), FALSE, TRUE)} : x \in MCSpans}
    \cup {O("named", 2, 2, Box(1, 3), FALSE, TRUE), O("named", 2, 1, Box(1, 3), FALSE, TRUE),
          O("absolute", 2, 2, Box(2, 2), FALSE, FALSE), O("absolute", 2, 2, Box(0, 4), FALSE, TRUE)}

Scene(nodes, o, inset, native, kb) ==
    [nodes |-> nodes, overlay |-> o, inset |-> inset, native |-> native, keyboard |-> kb]

MCWatched ==
    {Scene(<<N("press", "none", 2, 1)>>, Bare, 0, FALSE, 9),
     Scene(<<N("switch", "none", 0, 1), N("press", "none", 3, 1)>>, Bare, 0, FALSE, 9)}

MCScenes ==
    {Scene(<<a, b>>, o, IF o.kind = "cover" THEN i ELSE 0, FALSE, 9)
        : a \in MCNodes, b \in MCNodes, o \in MCOverlays, i \in {0, 1}}
    \cup {Scene(<<a, b>>, Bare, 0, n, k)
        : a \in MCNodes \cup {N("press", "none", 5, 1)}, b \in MCNodes, n \in BOOLEAN, k \in {2, 9}}
    \cup {Scene(<<>>, Bare, 0, FALSE, 9)} \cup MCWatched

(* get_screen_layout: four fibers in every shape, and sheets.              *)

Fib(up, kind, b) == [up |-> up, kind |-> kind, box |-> b, sheet |-> FALSE,
                     aside |-> FALSE, screen |-> FALSE]
Top == Fib(0, "named", Box(0, 4))
MCShapes == {<<1, 1>>, <<1, 2>>, <<2, 1>>, <<2, 2>>, <<2, 3>>}
MCTrees ==
    {[fibers |-> <<Top, Fib(u, "named", b), Fib(x[1], k, c),
                   [Fib(x[2], "named", d) EXCEPT !.screen = z]>>, inset |-> 0]
        : u \in {0, 1}, x \in MCShapes, b \in {Box(0, 4), Box(1, 2), Box(5, 1)},
          k \in {"named", "plain"}, c \in {Box(0, 4), Box(1, 2)},
          d \in {Box(1, 2), Box(3, 2)}, z \in BOOLEAN}
    \cup {[fibers |-> <<r, [Fib(1, k, Box(1, 3)) EXCEPT !.sheet = TRUE],
                       [Fib(2, "named", b) EXCEPT !.sheet = TRUE, !.aside = a]>>, inset |-> 1]
        : r \in {Top, Fib(0, "hidden", Box(0, 4)), Fib(0, "named", Box(1, 3))},
          k \in {"named", "hidden"}, b \in {Box(1, 1), Box(2, 2), Box(5, 1), Box(1, 0)},
          a \in BOOLEAN}
    \cup {[fibers |-> <<>>, inset |-> 0]}

(* tap: a card and a second component with their hosts, every nesting; two *)
(* lookups at once, and one across a navigation.                           *)

Part(up, kind, name, id, text, b) ==
    [up |-> up, kind |-> kind, name |-> name, id |-> id, text |-> text, box |-> b, host |-> FALSE]
View(up, b) == [Part(up, "plain", "View", "none", "go", b) EXCEPT !.host = TRUE]
Wrapped(i0, k1, i1, x, k2, i2, b) ==
    <<Part(0, "plain", "App", i0, "none", Box(0, 4)), Part(1, k1, "Card", i1, "none", Box(0, 0)),
      View(2, Box(1, 1)), Part(x, k2, "View", i2, "none", Box(0, 0)), View(4, b)>>
Q(text, id, name, index, long) ==
    [text |-> text, id |-> id, name |-> name, index |-> index, long |-> long]
MCKinds == {"press", "long", "plain", "hidden", "scene", "sheet"}
ById ==
    {Wrapped(i0, k1, i1, x, k2, i2, Box(2, 2))
        : i0 \in {"none", "x"}, k1 \in MCKinds, i1 \in {"none", "x"}, x \in {1, 2, 3},
          k2 \in {"press", "input", "plain"}, i2 \in {"none", "x"}}
Plainer ==
    {Wrapped("none", k1, i1, x, k2, "none", b)
        : k1 \in MCKinds, i1 \in {"none", "x"}, x \in {1, 2}, k2 \in {"press", "long", "input"},
          b \in {Box(1, 1), Box(2, 2), Box(5, 1), Box(0, 0)}}
One   == Wrapped("none", "press", "none", 1, "press", "x", Box(2, 2))
Other == Wrapped("none", "long", "none", 1, "input", "x", Box(1, 1))
QId   == Q("none", "x", "none", -1, FALSE)
QLong == Q("none", "none", "Card", 1, TRUE)
MCCases ==
    {[tree |-> t, later |-> t, queries |-> 1 :> QId] : t \in ById}
    \cup {[tree |-> t, later |-> t, queries |-> 1 :> q]
        : t \in Plainer, q \in {Q("go", "none", "none", -1, FALSE), Q("none", "none", "Card", -1, FALSE),
                                Q("go", "x", "none", 0, FALSE), QLong}}
    \cup {[tree |-> One, later |-> l, queries |-> (1 :> QId) @@ (2 :> QLong)] : l \in {One, Other}}
MCUps == <<1, 2>>

(* inspect_at_point: nested components around two hosts.                   *)

Comp(up, name, acts) == [up |-> up, host |-> FALSE, name |-> name, acts |-> acts,
                         box |-> Box(0, 0), sheet |-> FALSE, throws |-> FALSE]
Host(up, b, sheet, throws) == [up |-> up, host |-> TRUE, name |-> "none", acts |-> FALSE,
                               box |-> b, sheet |-> sheet, throws |-> throws]
MCViews ==
    {[fibers |-> <<Host(0, Box(0, 4), FALSE, FALSE), Comp(1, n1, a1), Host(2, Box(1, 3), s, FALSE),
                   Comp(3, n2, a2), Comp(4, n3, a3), Host(x, b, FALSE, t)>>, point |-> 2, topInset |-> 1]
        : n1 \in {"none", "Card"}, a1 \in BOOLEAN, s \in BOOLEAN, n2 \in {"View", "Context", "Row"},
          a2 \in BOOLEAN, n3 \in {"Label", "View"}, a3 \in BOOLEAN, x \in {1, 3, 5},
          b \in {Box(2, 1), Box(1, 3), Box(2, 0), Box(0, 1)}, t \in BOOLEAN}
    \cup {[fibers |-> <<Host(0, Box(0, 4), FALSE, TRUE)>>, point |-> p, topInset |-> 0] : p \in {2, 9}}
    \cup {[fibers |-> <<>>, point |-> 2, topInset |-> 1]}

(* navigate and the trail of screens: two reads of the trail, or one       *)
(* navigation, on every kind of router; two visits of A differ in params,  *)
(* and X is nowhere in the app.                                            *)

MCPlaces == {<<"A", 1>>, <<"A", 2>>, <<"B", 1>>, <<"X", 0>>}
App(r, readable_, ops) == [router |-> r, readable |-> readable_, ops |-> ops]
MCSettings ==
    {App("ref", TRUE, <<"trail", "trail">>), App("screen", FALSE, <<"trail", "trail">>),
     App("expo", TRUE, <<"navigate", "none">>)}
    \cup {App(r, r = "ref", <<"navigate", "none">>) : r \in {"ref", "expo", "screen", "none"}}
=============================================================================
