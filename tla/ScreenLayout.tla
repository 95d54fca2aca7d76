---------------------------- MODULE ScreenLayout ----------------------------
(***************************************************************************)
(* get_screen_layout (core/screenLayout.ts): the components of the fiber   *)
(* tree are collected with the chain of their collected ancestors, their   *)
(* hosts are measured through globals of the app as in ScreenState, and    *)
(* what is on screen is printed as a tree: full-screen wrappers and what   *)
(* is off screen are cut out and their children hung on what is left.      *)
(*                                                                         *)
(* A fiber's parent comes before it.  Geometry is vertical, as in          *)
(* ScreenState; an element may also be aside, centred left or right of the *)
(* window.                                                                 *)
(***************************************************************************)
EXTENDS Integers, Sequences, FiniteSets, SequencesExt

CONSTANTS
    Trees,      \* what the app can have mounted
    Height,     \* of the window
    Far,        \* the viewport assumed while none was measured
    MaxFibers   \* bound: fibers of a tree

VARIABLES
    tree,       \* what is mounted
    hook,       \* the React DevTools hook is registered
    call,       \* where the call is
    frames,     \* globalThis.__layoutMeasurements and the sheet's
    elements    \* what the second expression answers

vars == <<tree, hook, call, frames, elements>>

Box(t, s) == [top |-> t, size |-> s]
Bottom(b) == b.top + b.size
Missing   == Box(0, -1)

Fibers   == DOMAIN tree.fibers
fib(i)   == tree.fibers[i]
\* The chain of a fiber's ancestors, nearest first.
Chain[i \in 0..MaxFibers] == IF i = 0 \/ i \notin Fibers THEN <<>>
                     ELSE <<fib(i).up>> \o Chain[fib(i).up]
Above(i) == {a \in Fibers : \E k \in DOMAIN Chain[i] : Chain[i][k] = a}

-----------------------------------------------------------------------------
(* The walk.                                                               *)

\* isHiddenNavigationScene prunes a subtree.
Pruned(i)    == fib(i).kind = "hidden" \/ \E a \in Above(i) : fib(a).kind = "hidden"
\* walkComponents collects named components with a host to measure.
Collected    == {i \in Fibers : fib(i).kind = "named" /\ ~Pruned(i)}
\* ancestorIndices and parentIndex, 0 for none.
Ancestors(i) == SelectSeq(Chain[i], LAMBDA a : a \in Collected)
ParentOf(i)  == IF Ancestors(i) = <<>> THEN 0 ELSE Head(Ancestors(i))

\* What measureInWindow reports: inside a sheet it does not know the inset.
Reported(i) == IF fib(i).sheet THEN Box(fib(i).box.top - tree.inset, fib(i).box.size)
               ELSE fib(i).box

Sheet == 0     \* the slot of the sheet's own host
Slots == Collected \cup (IF \E i \in Collected : fib(i).sheet THEN {Sheet} ELSE {})
FrameOf(x) == IF x = Sheet THEN Box(0, Height - tree.inset) ELSE Reported(x)

Init ==
    /\ tree \in Trees
    /\ hook \in BOOLEAN
    /\ call = "start"
    /\ frames = <<>>
    /\ elements = <<>>

Walks == /\ frames' = [x \in Slots |-> Missing]
         /\ call' = IF Collected = {} THEN "error" ELSE "waiting"

\* The hook may not be registered yet: one retry after 400 ms.
Dispatch ==
    /\ call \in {"start", "retry"}
    /\ IF hook THEN Walks
       ELSE /\ call' = IF call = "start" THEN "retry" ELSE "error"
            /\ UNCHANGED frames
    /\ UNCHANGED <<tree, hook, elements>>

Register ==
    /\ ~hook /\ call = "retry"
    /\ hook' = TRUE
    /\ UNCHANGED <<tree, call, frames, elements>>

Measure(x) ==
    /\ call = "waiting" /\ frames[x] = Missing
    /\ frames' = [frames EXCEPT ![x] = FrameOf(x)]
    /\ UNCHANGED <<tree, hook, call, elements>>

-----------------------------------------------------------------------------
(* What the second expression makes of the frames.                         *)

Has(x) == frames[x] # Missing

\* The first frame that starts at the top or above it is the viewport.
RootFrame ==
    LET c == {i \in Collected : Has(i) /\ frames[i].top <= 0 /\ frames[i].size > 0}
    IN  IF c = {} THEN 0 ELSE Min(c)
Viewport == IF RootFrame = 0 THEN Far ELSE Bottom(frames[RootFrame])

SheetShift == IF Sheet \in DOMAIN frames /\ Has(Sheet) /\ Viewport # Far
              THEN Max({Viewport - Bottom(frames[Sheet]), 0}) ELSE 0
Placed(i)  == IF fib(i).sheet THEN Box(frames[i].top + SheetShift, frames[i].size)
              ELSE frames[i]

PartlyBelow(i) == Bottom(Placed(i)) > Viewport \* mutant
BelowFold(i) == Placed(i).top > Viewport
AboveFold(i) == Bottom(Placed(i)) < 0
Elements == {i \in Collected : /\ Has(i) /\ Placed(i).size > 0
                               /\ ~BelowFold(i) /\ ~AboveFold(i) /\ ~fib(i).aside}
FullScreen(i) == Placed(i).top <= 0 /\ Bottom(Placed(i)) >= Viewport
Surviving == {i \in Elements : ~FullScreen(i)}

\* reparent: the parent of a survivor, through the wrappers that were skipped.
Through[i \in 0..MaxFibers] ==
    IF i \in Elements /\ FullScreen(i) THEN Through[ParentOf(i)] ELSE i
\* The second pass rewrites an orphan to its nearest surviving ancestor.
NoSecondPass(i) == IF Through[ParentOf(i)] \in Surviving THEN Through[ParentOf(i)] ELSE 0 \* mutant
HungOn(i) ==
    LET p == Through[ParentOf(i)]
        kept == SelectSeq(Ancestors(i), LAMBDA a : a \in Surviving)
    IN  IF p = 0 \/ p \in Surviving THEN p
        ELSE IF kept = <<>> THEN 0 ELSE Head(kept)

\* The second expression, 300 ms later.
Resolve ==
    /\ call = "waiting"
    /\ call' = "done"
    /\ elements' = [i \in Surviving |-> [box |-> Placed(i), up |-> HungOn(i)]]
    /\ UNCHANGED <<tree, hook, frames>>

Next == Dispatch \/ Register \/ Resolve \/ \E x \in DOMAIN frames : Measure(x)

-----------------------------------------------------------------------------
(* What is printed of the answer.                                          *)

\* printNode: what is printed below what, 0 above the roots.  collapseNode
\* drops a child with its parent's frame and moves its own children up; those
\* are not compared with the parent again.
Same(i, k) == elements[i].box = elements[k].box
Lines ==
    LET kids(i) == {k \in DOMAIN elements : elements[k].up = i}
        below(i) == UNION {IF Same(i, k) THEN kids(k) ELSE {k} : k \in kids(i)}
        printed[n \in 0..MaxFibers] ==
            IF n = 0 THEN {<<0, r>> : r \in kids(0)}
            ELSE UNION {{<<e[2], k>> : k \in below(e[2])} : e \in printed[n - 1]}
    IN  UNION {printed[n] : n \in 0..Len(tree.fibers)}
TreeRoots(lines) == {e[2] : e \in {e \in lines : e[1] = 0}}

\* classifyRoots: a root with a navigation screen printed below it is a
\* screen; with none, the largest root is.
HoldsScreen(lines, r) == \E e \in lines : fib(e[2]).screen /\ (e[2] = r \/ r \in Above(e[2]))
Largest(lines, r) == \A q \in TreeRoots(lines) :
                        \/ elements[q].box.size < elements[r].box.size
                        \/ (elements[q].box.size = elements[r].box.size /\ r <= q)
IsScreen(lines, r) == IF \E q \in TreeRoots(lines) : HoldsScreen(lines, q)
                      THEN HoldsScreen(lines, r) ELSE Largest(lines, r)

-----------------------------------------------------------------------------
(* Properties.                                                             *)

\* The component right above a printed one is its nearest collected ancestor
\* that is on screen and no wrapper, or one drawn in the same place; nothing
\* is printed twice, and what is left out has the frame of a printed
\* ancestor.  A layer called an overlay holds no navigation screen but one
\* drawn in the place of its wrapper.  (screenLayout.ts:106-225, 806-870)
TreeFaithful ==
    call = "done" =>
        LET lines == Lines
            shown == DOMAIN elements
        IN  /\ \A e \in lines : e[1] # 0 => e[1] \in Above(e[2])
            /\ \A e \in lines : \A a \in shown \cap Above(e[2]) :
                  (e[1] = 0 \/ e[1] \in Above(a)) => (e[1] # 0 /\ Same(e[1], a))
            /\ \A d, e \in lines : d[2] = e[2] => d = e
            /\ \A i \in shown : \/ \E e \in lines : e[2] = i
                                \/ \E e \in lines : e[2] \in Above(i) /\ Same(e[2], i)
            /\ \A r \in TreeRoots(lines) : ~IsScreen(lines, r) =>
                  \A i \in shown : fib(i).screen /\ (i = r \/ r \in Above(i)) =>
                      \E a \in shown \cap Above(i) : Same(a, i)

\* With every frame measured and a root that spans the window, a component
\* inside the window, sheets included, is in the tree or fills the window;
\* any other that has a size is off to a side or named with what is above or
\* below the fold.  (screenLayout.ts:617-845)
LayoutComplete ==
    call = "done" /\ (\A x \in DOMAIN frames : Has(x)) /\ Viewport = Height =>
        \A i \in Collected :
            LET b == fib(i).box
            IN  b.size > 0 /\ ~fib(i).aside =>
                    \/ i \in DOMAIN elements
                    \/ b.top <= 0 /\ Bottom(b) >= Height
                    \/ ~(Bottom(b) > 0 /\ b.top < Height) /\ (BelowFold(i) \/ AboveFold(i))
=============================================================================
