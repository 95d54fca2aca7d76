---------------------------- MODULE FiberInspect ----------------------------
(***************************************************************************)
(* inspect_at_point (core/inspector.ts): one expression with a promise     *)
(* measures every host of the app, settles when all have reported or its   *)
(* budget is over, and names the component at a point.  Nothing is left in *)
(* the app between two calls, as ScreenState and FiberLookup do.           *)
(*                                                                         *)
(* A fiber's parent comes before it, and a subtree is a run of fibers.     *)
(* Geometry is vertical: a box is a top and a size.  The screen is that of *)
(* iOS; Android's is shifted as a whole.                                   *)
(***************************************************************************)
EXTENDS Integers, Sequences, FiniteSets, SequencesExt

CONSTANTS
    Views,      \* [fibers, point, topInset]: what is mounted, what is asked, and the
                \* safe area the call was told of, 0 for none
    Lookahead,  \* how far above a handler its owner is looked for
    Height, Inset

VARIABLES view, got, left, timedOut, answer
    \* what is mounted; the frames that have arrived; how many have not; the
    \* budget is over; the answer

vars == <<view, got, left, timedOut, answer>>

Box(t, s)  == [top |-> t, size |-> s]
Bottom(b)  == b.top + b.size
Holds(b, y) == b.size > 0 /\ b.top <= y /\ y <= Bottom(b)
NoAnswer   == [kind |-> "none"]

Fibers == DOMAIN view.fibers
fib(i) == view.fibers[i]
\* A fiber and its ancestors, innermost first.
Line(i) == LET up[k \in 0..Len(view.fibers)] == IF k = 0 THEN <<>> ELSE <<k>> \o up[fib(k).up]
           IN  up[i]
Below(i) == {k \in Fibers : i \in Range(Line(k))}

\* walkFibers: every host, those of hidden scenes too.
Hosts  == {i \in Fibers : fib(i).host}
\* modalBoundaryOf.
InSheet(i) == \E k \in Range(Line(i)) : fib(k).sheet
Sheet  == 0
Asked  == Hosts \cup (IF \E i \in Hosts : InSheet(i) THEN {Sheet} ELSE {})
FrameOf(x) == CASE x = Sheet -> Box(0, Height - Inset)
                [] x # Sheet /\ InSheet(x) -> Box(fib(x).box.top - Inset, fib(x).box.size)
                [] OTHER -> fib(x).box
\* measureInWindow of a detached host may throw.
Throws == {i \in Hosts : fib(i).throws}

-----------------------------------------------------------------------------
(* The answer, from the frames that have arrived.                          *)

Measured(f, x) == x \in DOMAIN f
\* sheetShiftY against the frame of the first host, the app's root.
Root == Min(Hosts)
SheetShift(f) == IF Measured(f, Sheet) /\ Measured(f, Root) /\ f[Root].size > 0
                 THEN Max({Max({f[Root].top, 0}) + f[Root].size - Bottom(f[Sheet]), 0}) ELSE 0
Shifted(f, i) == IF InSheet(i) THEN Box(f[i].top + SheetShift(f), f[i].size) ELSE f[i]
\* toScreenSpaceY: what is above the safe area is taken to be a modal's, unless it is as
\* tall as the screen.
Tall(b, height) == b.top = 0 /\ height > 0 /\ 10 * b.size >= 9 * height
Lifted(f, b) == IF b.top < view.topInset /\ ~(Measured(f, Root) /\ Tall(b, f[Root].size))
                THEN Box(b.top + view.topInset, b.size) ELSE b
Placed(f, i) == Lifted(f, Shifted(f, i))

\* The hit is the smallest host at the point, the first one of its size.
Hits(f) == {i \in Hosts : Measured(f, i) /\ Holds(Placed(f, i), view.point)}
Best(f) == CHOOSE i \in Hits(f) : \A k \in Hits(f) \ {i} :
              \/ Placed(f, i).size < Placed(f, k).size
              \/ Placed(f, i).size = Placed(f, k).size /\ i < k

Named(i)  == ~fib(i).host /\ fib(i).name # "none"
Custom(i) == Named(i) /\ fib(i).name \notin {"View", "Context"}
\* The nearest of some of a fiber's line: a parent comes before its children.
Nearest(S) == IF S = {} THEN 0 ELSE Max(S)
\* pickElement: the nearest handler, or its owner a little further up.
OwnerOf(h) ==
    LET near   == {Line(h)[k] : k \in 1 .. Min({Lookahead + 1, Len(Line(h))})}
        owners == {k \in near : Custom(k)}
    IN  IF owners = {} THEN h ELSE Nearest(owners)
NearestCustom(i) == Nearest({k \in Range(Line(i)) : Custom(k)}) \* mutant
PickElement(i) ==
    LET named    == {k \in Range(Line(i)) : Named(k)}
        handlers == {k \in named : fib(k).acts}
        customs  == {k \in named : Custom(k)}
    IN  IF handlers # {} THEN OwnerOf(Nearest(handlers))
        ELSE IF customs # {} THEN Nearest(customs) ELSE Nearest(named)
\* frameOfNamed: its first measured host that has a size, 0 for none.
HostOf(f, i) == LET hs == {k \in Below(i) \cap Hosts : Measured(f, k) /\ f[k].size > 0}
                IN  IF i = 0 \/ hs = {} THEN 0 ELSE Min(hs)

NeverIncomplete(out) == FALSE \* mutant
Incomplete(out) == timedOut' /\ out > 0
BuildResult(f, out) ==
    IF Hits(f) = {} THEN [kind |-> "nothing", incomplete |-> FALSE]
    ELSE LET hit  == Best(f)
             el   == PickElement(hit)
             host == IF HostOf(f, el) = 0 THEN hit ELSE HostOf(f, el)
         IN  [kind |-> "element", hit |-> hit, element |-> el, frame |-> Placed(f, host),
              hitFrame |-> Placed(f, hit), incomplete |-> Incomplete(out)]

-----------------------------------------------------------------------------
Init ==
    /\ view \in Views
    /\ got = <<>> /\ left = -1
    /\ timedOut = FALSE
    /\ answer = NoAnswer

\* A host whose measurement throws is not waited for.
Start ==
    /\ left = -1
    /\ left' = Cardinality(Asked \ Throws)
    /\ timedOut' = FALSE
    /\ answer' = CASE Hosts = {} -> [kind |-> "error"]
                   [] Hosts # {} /\ left' = 0 -> BuildResult(<<>>, 0)
                   [] OTHER -> NoAnswer
    /\ UNCHANGED <<view, got>>

\* done: once, when nothing is left.
Report(x) ==
    /\ left > 0 /\ x \notin DOMAIN got
    /\ got' = [k \in DOMAIN got \cup {x} |-> IF k = x THEN FrameOf(x) ELSE got[k]]
    /\ left' = left - 1
    /\ timedOut' = timedOut
    /\ answer' = IF left' = 0 /\ answer = NoAnswer THEN BuildResult(got', 0) ELSE answer
    /\ UNCHANGED view

\* ... or when the budget is over; some callbacks never come.
BudgetOver ==
    /\ left > 0 /\ ~timedOut
    /\ timedOut' = TRUE
    /\ answer' = IF answer = NoAnswer THEN BuildResult(got, left) ELSE answer
    /\ UNCHANGED <<view, got, left>>

Next == Start \/ BudgetOver \/ \E x \in Asked \ Throws : Report(x)

-----------------------------------------------------------------------------
(* Properties.                                                             *)

\* An answer about a component that carries no note is right: every host that
\* can be measured was, so the one it starts from is the smallest drawn at
\* the point, sheets included; what it names is around that host, and is or
\* owns what handles the press there, if anything does; and a frame that is
\* not that host's comes with the one that is.  (The root's frame is needed
\* to place a sheet, and what an app draws above the safe area is taken for a
\* modal's: "that band ... holds no app content", screenSpace.ts:77.)
\* (inspector.ts:163-271, 326-374, 425-436)
BandIsEmpty == \A i \in Hosts :
    fib(i).box.top < view.topInset => Tall(fib(i).box, fib(Root).box.size)
NamedTruly ==
    answer.kind = "element" /\ ~answer.incomplete /\ Root \notin Throws /\ BandIsEmpty =>
        LET i == answer.hit
            e == answer.element
            handlers == {h \in Range(Line(i)) : Named(h) /\ fib(h).acts}
        IN  /\ Holds(fib(i).box, view.point)
            /\ \A k \in Hosts \ Throws : Holds(fib(k).box, view.point) => fib(i).box.size <= fib(k).box.size
            /\ IF e = 0 THEN \A k \in Range(Line(i)) : ~Named(k) ELSE e \in Range(Line(i))
            /\ handlers # {} => e \in Range(Line(Max(handlers)))
            /\ answer.hitFrame = fib(i).box
=============================================================================
