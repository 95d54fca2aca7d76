---------------------------- MODULE ScreenState ----------------------------
(***************************************************************************)
(* get_screen_state (core/screenState.ts): one expression walks the fiber  *)
(* tree, leaves what it found in globals of the app and asks the native    *)
(* side to measure every element; a second expression, sent after a fixed  *)
(* wait, takes the globals, filters and groups what was measured in time.  *)
(* The measurements are callbacks that write into whatever array the       *)
(* globals name when they run, and every reader uses the same globals.     *)
(*                                                                         *)
(* Geometry is vertical: a box is a top and a size, the window is 0..Height*)
(* and everything spans its width.  A scene is a list of elements in paint *)
(* order with at most one overlay, which holds a run of them.              *)
(***************************************************************************)
EXTENDS Integers, Sequences, FiniteSets, SequencesExt

CONSTANTS
    Readers,    \* calls of get_screen_state
    Scenes,     \* what the app can show
    Watched,    \* bound: the scenes in which more than one call is made
    Height,     \* of the window
    Far         \* the viewport assumed while the root is not measured

VARIABLES
    scene,      \* what the app shows now
    globals,    \* globalThis.__screenState*
    pending,    \* measureInWindow callbacks that have not run
    pc,         \* of each reader
    seen        \* what its second expression took

vars == <<scene, globals, pending, pc, seen>>

-----------------------------------------------------------------------------
(* Boxes and scenes.                                                       *)

Box(t, s)    == [top |-> t, size |-> s]
Bottom(b)    == b.top + b.size
Centre2(b)   == 2 * b.top + b.size      \* twice the centre: no rounding
Inside(b, c) == b.top >= c.top /\ Bottom(b) <= Bottom(c)
Hull(B)      == LET t == Min({b.top : b \in B})
                IN  Box(t, Max({Bottom(b) : b \in B}) - t)
Window       == Box(0, Height)
OnScreen(b)  == b.size > 0 /\ Bottom(b) > 0 /\ b.top < Height

InOverlay(s, i) == i \in s.overlay.first .. s.overlay.last
\* Laid out by UIKit below an inset that React Native does not know of.
InSheet(s, i) == s.overlay.kind = "cover" /\ InOverlay(s, i)

\* ScrollViewStickyHeader: laid out above the window, drawn at its top.
Drawn(s, i) == IF s.nodes[i].pinned THEN Box(0, 1) ELSE s.nodes[i].box

Reported(s, i) ==
    LET n == s.nodes[i]
    IN  IF n.pinned THEN Box(-Height, 1)
        ELSE IF n.role = "text" /\ n.skip = "unmeasurable" THEN Window \* its container
        ELSE IF InSheet(s, i) THEN Box(n.box.top - s.inset, n.box.size)
        ELSE n.box

Pressable(n) == n.role \in {"marked", "press"}

\* walkForOverlays: a known widget, a covering presentation, or an opaque
\* absolute view with something to press in it.
OverlayFound(s) ==
    \/ s.overlay.kind \in {"named", "cover"}
    \/ /\ s.overlay.kind = "absolute" /\ s.overlay.opaque
       /\ \E i \in s.overlay.first .. s.overlay.last : Pressable(s.nodes[i])

\* findHostsInSubtree of the overlay.
OverlayHosts(s) ==
    IF ~OverlayFound(s) THEN <<>>
    ELSE (IF s.overlay.backdrop THEN <<Window>> ELSE <<>>)
         \o <<IF s.overlay.kind = "cover" THEN Box(0, Height - s.inset)
              ELSE s.overlay.panel>>

-----------------------------------------------------------------------------
(* What the first expression collects.                                     *)

\* walkPressabilityDebugViews: a Pressable is met twice, as a component with
\* onPress and as the owner of a marker; hidden scenes are pruned, and the
\* host's own visibility is asked of everything but inputs.
EntriesOf(s, i) ==
    LET n == s.nodes[i]
        one(by) == <<[node |-> i, by |-> by]>>
    IN  IF \/ n.skip \in {"hidden", "unmeasurable"} \/ n.role = "text"
           \/ n.skip = "host" /\ n.role # "input" THEN <<>>
        ELSE IF n.role = "marked" THEN one("press") \o one("marker") ELSE one(n.role)

EntriesUpTo(s, k) == FlattenSeq([i \in 1..k |-> EntriesOf(s, i)])
Entries(s)  == EntriesUpTo(s, Len(s.nodes))
\* overlayEnterIdx: what was collected before the overlay is painted below it.
EnterIdx(s) == Len(EntriesUpTo(s, s.overlay.first - 1))

\* walkTexts, walkImages: standalone texts of scenes that are not hidden.
Texts(s) == FlattenSeq([i \in 1..Len(s.nodes) |->
                IF s.nodes[i].role = "text" /\ s.nodes[i].skip # "hidden" THEN <<i>> ELSE <<>>])

Root(s) == <<"host", Len(Entries(s)) + 1>>
Slots(s) ==
    {<<"host", k>> : k \in 1 .. Len(Entries(s)) + 1}
    \cup {<<"overlay", k>> : k \in DOMAIN OverlayHosts(s)}
    \cup {<<"text", k>> : k \in DOMAIN Texts(s)}
    \cup {<<"sheet", k>> : k \in IF s.overlay.kind = "cover" THEN {1} ELSE {}}

Frame(s, x) ==
    CASE x = Root(s)       -> Window
      [] x[1] = "host" /\ x # Root(s) -> Reported(s, Entries(s)[x[2]].node)
      [] x[1] = "overlay"  -> OverlayHosts(s)[x[2]]
      [] x[1] = "text"     -> Reported(s, Texts(s)[x[2]])
      [] OTHER             -> Box(0, Height - s.inset)

Missing == Box(0, -1)           \* no view has this frame
Nothing == [by |-> "nobody"]

Init ==
    /\ scene \in Scenes
    /\ globals = Nothing
    /\ pending = {}
    /\ \E first \in Readers :
          pc = [r \in Readers |-> IF r = first \/ scene \in Watched THEN "idle" ELSE "absent"]
    /\ seen = [r \in Readers |-> Nothing]

\* The first expression; a tree without roots is an error and stores nothing.
Dispatch(r) ==
    /\ pc[r] = "idle"
    /\ IF scene.nodes = <<>>
       THEN pc' = [pc EXCEPT ![r] = "error"] /\ UNCHANGED <<globals, pending>>
       ELSE /\ globals' = [by |-> r, scene |-> scene,
                           frames |-> [x \in Slots(scene) |-> Missing]]
            /\ pending' = pending \cup {[slot |-> x, frame |-> Frame(scene, x)]
                                        : x \in Slots(scene)}
            /\ pc' = [pc EXCEPT ![r] = "waiting"]
    /\ UNCHANGED <<scene, seen>>

\* A callback runs: it finds the array through the globals, whoever filled
\* them.  One that finds no globals fails and changes nothing.
Measure(m) ==
    /\ globals # Nothing
    /\ pending' = pending \ {m}
    /\ globals' = IF m.slot \in DOMAIN globals.frames
                  THEN [globals EXCEPT !.frames[m.slot] = m.frame] ELSE globals
    /\ UNCHANGED <<scene, pc, seen>>

KeptByReader(r) == globals \* mutant

\* The second expression, after measureBudgetMs: takes the globals, or finds
\* that another reader has.
Cleared(r) == Nothing
Resolve(r) ==
    /\ pc[r] = "waiting"
    /\ seen' = [seen EXCEPT ![r] = globals]
    /\ pc' = [pc EXCEPT ![r] = IF globals = Nothing THEN "empty" ELSE "done"]
    /\ globals' = Cleared(r)
    /\ UNCHANGED <<scene, pending>>

\* ... or its answer never arrives, and the globals are gone all the same.
ResolveLost(r) ==
    /\ pc[r] = "waiting"
    /\ pc' = [pc EXCEPT ![r] = "error"]
    /\ globals' = Nothing
    /\ UNCHANGED <<scene, pending, seen>>

\* The app navigates.
Navigate ==
    /\ \E r \in Readers : pc[r] = "idle"
    /\ \E r \in Readers : pc[r] # "idle"
    /\ scene \in Watched
    /\ scene' \in Watched \ {scene}
    /\ UNCHANGED <<globals, pending, pc, seen>>

Next ==
    \/ \E r \in Readers : Dispatch(r) \/ Resolve(r) \/ ResolveLost(r)
    \/ \E m \in pending : Measure(m)
    \/ Navigate

Spec == Init /\ [][Next]_vars

-----------------------------------------------------------------------------
(* What the answer of a reader says, from what it took: a = seen[r].       *)

Has(a, x)   == a.frames[x] # Missing
\* The root's frame is the viewport; without it nothing is off screen.
Viewport(a) == IF Has(a, Root(a.scene)) THEN Height ELSE Far

UnliftedSheet(a) == 0 \* mutant

\* sheetShiftY: a sheet is as wide as the window and ends at its bottom.
SheetShift(a) ==
    IF /\ <<"sheet", 1>> \in DOMAIN a.frames /\ Has(a, <<"sheet", 1>>)
       /\ Viewport(a) = Height
    THEN Viewport(a) - Bottom(a.frames[<<"sheet", 1>>]) ELSE 0
Shifted(a, b, inSheet) == IF inSheet THEN Box(b.top + SheetShift(a), b.size) ELSE b

\* The frame an element is listed with, and whether it is tagged.
HostBox(a, k) == Shifted(a, a.frames[<<"host", k>>], InSheet(a.scene, Entries(a.scene)[k].node))
TextBox(a, k) == Shifted(a, a.frames[<<"text", k>>], InSheet(a.scene, Texts(a.scene)[k]))
OffViewport(a, b) == Bottom(b) < 0 \/ b.top > Viewport(a)
TransformsIgnored(a, i, b) == FALSE \* mutant
\* withTransform: a transform it cannot model, seen to displace the element.
Tagged(a, i, b) == a.scene.nodes[i].pinned /\ OffViewport(a, b)
Kept(a, i, b)   == b.size > 0 /\ (Tagged(a, i, b) \/ ~OffViewport(a, b))

HostKept(a, k) == Has(a, <<"host", k>>) /\ Kept(a, Entries(a.scene)[k].node, HostBox(a, k))
TextKept(a, k) == Has(a, <<"text", k>>) /\ Kept(a, Texts(a.scene)[k], TextBox(a, k))
Listed(a)      == {k \in DOMAIN Entries(a.scene) : HostKept(a, k)}
ListedTexts(a) == {k \in DOMAIN Texts(a.scene) : TextKept(a, k)}

\* What unmeasuredCount counts, which is said in a note: elements and texts.
Unmeasured(a) ==
    {x \in DOMAIN a.frames : x[1] \in {"host", "text"} /\ x # Root(a.scene) /\ ~Has(a, x)}

\* The measured hosts of the overlay; those of the window's size only block.
Hosts(a)   == {Shifted(a, a.frames[x], a.scene.overlay.kind = "cover")
               : x \in {y \in DOMAIN a.frames : /\ y[1] = "overlay" /\ Has(a, y)
                                                /\ a.frames[y].size > 0}}
Panels(a)  == {b \in Hosts(a) : 10 * b.size < 9 * Viewport(a)}
Visible(a, b) == Min({Bottom(b), Viewport(a)}) - Max({b.top, 0})

\* The size gate of a geometric candidate: 15 % to 92 % of the viewport, and
\* most of it on screen.
FitsGate(a) == LET b == Hull(Hosts(a))
               IN  /\ 100 * b.size >= 15 * Viewport(a) /\ 100 * b.size <= 92 * Viewport(a)
                   /\ 10 * Visible(a, b) >= 6 * b.size

Geometric(a)  == a.scene.overlay.kind = "absolute"
HasContent(a) == Panels(a) # {} /\ ~Geometric(a)
BlockBounds(a) == IF a.scene.overlay.kind = "cover" THEN Box(0, Viewport(a)) ELSE Hull(Hosts(a))

Owned(a, k)    == InOverlay(a.scene, Entries(a.scene)[k].node)
Occludes(a, k) == /\ ~Owned(a, k) /\ k <= EnterIdx(a.scene)
                  /\ Inside(HostBox(a, k), BlockBounds(a))
AdoptsAnything(a, k) == HasContent(a) /\ Inside(HostBox(a, k), Hull(Panels(a))) \* mutant
\* adoptsByContainment: what is painted after the overlay, inside its panel.
AdoptsByContainment(a, k) ==
    /\ ~Owned(a, k) /\ HasContent(a)
    /\ k - 1 > EnterIdx(a.scene)
    /\ Inside(HostBox(a, k), Hull(Panels(a)))

\* An overlay is reported when it was measured; a guess must cover something.
OverlayShown(a) ==
    /\ Hosts(a) # {}
    /\ Geometric(a) => FitsGate(a) /\ \E k \in Listed(a) : Occludes(a, k)

InGroup(a, k) == OverlayShown(a) /\ (Owned(a, k) \/ AdoptsByContainment(a, k))
Covered(a, k) == /\ OverlayShown(a) /\ ~InGroup(a, k)
                 /\ IF Geometric(a) THEN Occludes(a, k)
                                    ELSE Inside(HostBox(a, k), BlockBounds(a))

\* dedupPressables: of two in a group at one centre the first collected stays.
Twin(a, j, k) == /\ InGroup(a, j) = InGroup(a, k)
                 /\ Centre2(HostBox(a, j)) = Centre2(HostBox(a, k))
Shown(a) == {k \in Listed(a) : \A j \in Listed(a) : j < k => ~Twin(a, j, k)}

\* markPressablesCoveredByOverlay: the hull of what the overlay holds blocks,
\* and an open native sheet blocks everything.
Blocked(a, k) ==
    /\ ~InGroup(a, k)
    /\ \/ Covered(a, k)
       \/ LET own == {HostBox(a, j) : j \in {j \in Shown(a) : InGroup(a, j)}}
          IN  own # {} /\ Inside(HostBox(a, k), Hull(own))
       \/ a.scene.native

\* partitionByKeyboard, asked only when no overlay is reported.
BehindKeyboard(a, k) == Centre2(HostBox(a, k)) >= 2 * a.scene.keyboard

\* formatScreenStateSummary: what a caller is told a tap will reach.
Offered(a) ==
    IF OverlayShown(a) \/ a.scene.native
    THEN {k \in Shown(a) : ~Blocked(a, k)}
    ELSE {k \in Shown(a) : ~BehindKeyboard(a, k)}

-----------------------------------------------------------------------------
(* Properties.  An answer is unmixed when each frame is of its own element. *)

Answers == {seen[r] : r \in {r \in Readers : pc[r] = "done"}}
Unmixed(a) == \A x \in DOMAIN a.frames : a.frames[x] \in {Missing, Frame(a.scene, x)}
Arrived(a, kinds) == \A x \in DOMAIN a.frames :
                        (x[1] \in kinds \/ x = Root(a.scene)) => Has(a, x)

\* What is drawn over an element: an overlay painted after it.
Region(s) == IF s.overlay.kind = "cover" \/ s.overlay.backdrop THEN Window ELSE s.overlay.panel
Under(s, i) == /\ OverlayFound(s) /\ i < s.overlay.first
               /\ Inside(Drawn(s, i), Region(s))

\* Nothing of the overlay is missing, and one that is only guessed has the size
\* of one.
OverlayKnown(a) ==
    /\ Unmixed(a) /\ Arrived(a, {"overlay", "sheet"})
    /\ Geometric(a) /\ Hosts(a) # {} => FitsGate(a)

\* An element offered for tapping is not wholly covered by an overlay drawn
\* after it, nor, when no overlay is open, behind the keyboard - once the
\* root, the overlay and the sheet were measured, and a view that is only
\* guessed to be an overlay has the size of one.  A tap the caller is told
\* will land must not hit what is on top.  (screenState.ts:1870-2200)
ReachableReached ==
    \A a \in Answers :
        OverlayKnown(a) =>
            \A k \in Offered(a) :
                LET i == Entries(a.scene)[k].node
                IN  Tagged(a, i, HostBox(a, k))
                    \/ /\ ~Under(a.scene, i)
                       /\ a.scene.overlay.kind = "none" /\ ~a.scene.native
                             => 2 * a.scene.keyboard > Centre2(Drawn(a.scene, i))

\* When no note says that something was not measured, everything drawn on
\* screen that can be pressed, typed into or read is listed, or shares its
\* centre with one that is: hidden scenes, parked headers, sheets and
\* covers lose nothing.  (screenState.ts:1362-1612, 1995-2080)
SilenceIsComplete ==
    \A a \in Answers :
        Unmixed(a) /\ Unmeasured(a) = {} =>
            \A i \in 1..Len(a.scene.nodes) :
                a.scene.nodes[i].skip = "none" /\ OnScreen(Drawn(a.scene, i)) =>
                    IF a.scene.nodes[i].role = "text"
                    THEN \E k \in ListedTexts(a) : Texts(a.scene)[k] = i
                    ELSE \E k \in Listed(a), j \in Shown(a) :
                            Entries(a.scene)[k].node = i /\ (j = k \/ Twin(a, j, k))

\* An untagged frame is the place where the element is drawn, sheets and
\* sticky headers included, once root and sheet were measured.
FrameTruth ==
    \A a \in Answers :
        Unmixed(a) /\ Arrived(a, {"sheet"}) =>
            \A k \in Shown(a) :
                LET i == Entries(a.scene)[k].node
                IN  HostBox(a, k) = Drawn(a.scene, i) \/ Tagged(a, i, HostBox(a, k))

\* What a call left in the app is answered once: two calls never report the
\* same walk, and a call that finds nothing was overtaken by another one.
TakenOnce ==
    /\ \A q, r \in Readers : pc[q] = "done" /\ pc[r] = "done" /\ q # r => seen[q].by # seen[r].by
    /\ \A r \in Readers : pc[r] = "empty" => \E q \in Readers \ {r} : pc[q] \in {"done", "error"}

=============================================================================
