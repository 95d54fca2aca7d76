---------------------------- MODULE FiberLookup ----------------------------
(***************************************************************************)
(* How tap finds an element by text, testID or component: pressElement     *)
(* (core/pressables.ts) walks the fiber tree in the app, leaves its        *)
(* candidates in globals and asks for their frames, polls until they are   *)
(* measured, and a second expression takes the globals and matches.        *)
(* tryFiberStrategy (pro/tap.ts) repeats that with deeper traversals.      *)
(*                                                                         *)
(* A fiber's parent comes before it, and a subtree is a run of fibers.     *)
(* Geometry is vertical: a box is a top and a size.                        *)
(***************************************************************************)
EXTENDS Integers, Sequences, FiniteSets, SequencesExt

CONSTANTS
    Cases,      \* [tree, later, queries]: what is mounted, what is after a
                \* navigation, and what each caller looks for
    Callers,
    Ups,        \* how far up each attempt looks for a named ancestor
    Down,       \* how far down a wrapper's pressable is looked for
    Height, Far, Inset

VARIABLES
    case,       \* one of Cases
    tree,       \* what is mounted now
    globals,    \* globalThis.__tap*
    pending,    \* measureInWindow callbacks that have not run
    pc,         \* of each caller
    answers     \* of each caller: the results of its attempts

vars == <<case, tree, globals, pending, pc, answers>>

Box(t, s)  == [top |-> t, size |-> s]
Bottom(b)  == b.top + b.size
Centre2(b) == 2 * b.top + b.size
Missing    == Box(0, -1)
None       == "none"
Nothing    == [by |-> 0, tree |-> <<>>, entries |-> <<>>, frames |-> <<>>, beyond |-> FALSE]

-----------------------------------------------------------------------------
(* Fiber trees.                                                            *)

Chain(t, i) == LET up[k \in 0..Len(t)] == IF k = 0 \/ t[k].up = 0 THEN <<>>
                                          ELSE <<t[k].up>> \o up[t[k].up]
               IN  up[i]
Above(t, i) == Range(Chain(t, i))
Below(t, i) == {k \in DOMAIN t : k = i \/ i \in Above(t, k)}
Depth(t, i) == Len(Chain(t, i))
FirstOf(S)  == IF S = {} THEN 0 ELSE Min(S)

\* isHiddenNavigationScene prunes a subtree; a screen ends the search for
\* ancestors' testIDs.
Active(t, i)  == \A k \in Above(t, i) \cup {i} : t[k].kind # "hidden"
Boundary(n)   == n.kind \in {"scene", "hidden", "sheet"}
\* isPressableProps, isSwitchFiber; isInput is what is not pressable.
Pressable(q, n) == n.kind \in {"press", "switch"} \/ (n.kind = "long" /\ q.long)
Wanted(q, n)    == Pressable(q, n) \/ n.kind = "input"
\* findFirstHost, extractText.
FirstHost(t, i) == FirstOf({k \in Below(t, i) : t[k].host})
TextsOf(t, i)   == {t[k].text : k \in Below(t, i)} \ {None}
\* findMeaningfulAncestorName: a component that is no primitive, or any.
Meaningful(t, i) ==
    LET named == SelectSeq(Chain(t, i), LAMBDA k : ~t[k].host /\ t[k].name # None)
        own   == SelectSeq(named, LAMBDA k : t[k].name # "View")
    IN  IF own # <<>> THEN t[own[1]].name
        ELSE IF named # <<>> THEN t[named[1]].name ELSE None
\* collectAncestorTestIDs: not past a screen, not further up than `up`.
IDsAbove(t, i, up) ==
    LET c == Chain(t, i)
    IN  {t[c[k]].id : k \in {k \in 1 .. Min({up, Len(c)}) : \A j \in 1..k : ~Boundary(t[c[j]])}}
        \ {None}

-----------------------------------------------------------------------------
(* The candidates.                                                         *)

Candidate(t, i, via, id, ids, names) ==
    [fiber |-> i, via |-> via, id |-> id, ids |-> ids \ {None}, names |-> names \ {None}]
OrElse(id, other) == IF id = None THEN other ELSE id

\* Phase 1: everything that can be pressed or typed into.
Direct(t, q, up) ==
    FlattenSeq([i \in DOMAIN t |->
        IF Active(t, i) /\ Wanted(q, t[i]) /\ FirstHost(t, i) # 0
        THEN <<Candidate(t, i, "itself", t[i].id, {t[i].id} \cup IDsAbove(t, i, up),
                         {t[i].name, Meaningful(t, i)})>>
        ELSE <<>>])

\* The nearest ancestor that qualifies, if it has a host; otherwise the first
\* descendant, which is looked for in hidden scenes too.
NearestUp(t, i, up, Q) ==
    LET c == SelectSeq(SubSeq(Chain(t, i), 1, Min({up, Depth(t, i)})), LAMBDA k : k \in Q)
    IN  IF c = <<>> \/ FirstHost(t, c[1]) = 0 THEN 0 ELSE c[1]
FirstDown(t, i, Q) ==
    LET d == FirstOf({k \in Below(t, i) \cap Q : Depth(t, k) - Depth(t, i) <= Down})
    IN  IF d = 0 \/ FirstHost(t, d) = 0 THEN 0 ELSE d

\* Phase 2a: the testID is on a wrapper.
ByTestID(t, q, up) ==
    LET Q == {k \in DOMAIN t : Wanted(q, t[k])}
        of(i) == LET a == NearestUp(t, i, up, Q)
                     d == FirstDown(t, i, Q)
                 IN  CASE i \in Q -> <<>>
                       [] i \notin Q /\ a # 0 ->
                            <<Candidate(t, a, "above", OrElse(t[a].id, q.id),
                                        {OrElse(t[a].id, q.id)}, {t[i].name, Meaningful(t, a)})>>
                       [] i \notin Q /\ a = 0 /\ d # 0 ->
                            <<Candidate(t, d, "below", OrElse(t[d].id, q.id),
                                        {t[d].id, q.id}, {t[d].name, Meaningful(t, d)})>>
                       [] OTHER -> <<>>
    IN  FlattenSeq([i \in DOMAIN t |-> IF Active(t, i) /\ t[i].id = q.id THEN of(i) ELSE <<>>])

\* Phase 2b: the component is one around or inside what can be pressed.
ByComponent(t, q, up) ==
    LET Q == {k \in DOMAIN t : Pressable(q, t[k])}
        of(i) == LET a == NearestUp(t, i, up, Q)
                     d == FirstDown(t, i, Q)
                 IN  CASE a # 0 -> <<Candidate(t, a, "above", t[a].id, {t[a].id},
                                               {t[i].name, Meaningful(t, a)})>>
                       [] a = 0 /\ d # 0 -> <<Candidate(t, d, "below", t[d].id, {t[d].id},
                                                        {t[d].name, t[i].name})>>
                       [] OTHER -> <<>>
    IN  FlattenSeq([i \in DOMAIN t |->
            IF Active(t, i) /\ ~t[i].host /\ t[i].name = q.name THEN of(i) ELSE <<>>])

NoneKnown(key, es) == es = <<>> \* mutant
\* The second phases are for what the first one has not met by that name.
Unmet(key, es) == \A k \in DOMAIN es : key \notin es[k].ids \cup es[k].names
Collected(t, q, up) ==
    LET es1 == Direct(t, q, up)
        es2 == es1 \o (IF q.id # None /\ Unmet(q.id, es1) THEN ByTestID(t, q, up) ELSE <<>>)
    IN  es2 \o (IF q.name # None /\ Unmet(q.name, es2) THEN ByComponent(t, q, up) ELSE <<>>)

-----------------------------------------------------------------------------
(* Dispatch, measurement and the second expression.                        *)

\* measureInWindow does not know the inset of a sheet.
InSheet(t, i) == \E k \in Above(t, i) \cup {i} : t[k].kind = "sheet"
Reported(t, i) == IF InSheet(t, i) THEN Box(t[i].box.top - Inset, t[i].box.size) ELSE t[i].box
Slots(t, es) == {<<"host", k>> : k \in DOMAIN es} \cup {<<"root", 1>>}
                \cup {<<"sheet", 1>> : k \in {k \in DOMAIN es : InSheet(t, FirstHost(t, es[k].fiber))}}
FrameOf(t, es, x) ==
    CASE x[1] = "host"  -> Reported(t, FirstHost(t, es[x[2]].fiber))
      [] x[1] = "sheet" -> Box(0, Height - Inset)
      [] OTHER          -> Box(0, Height)

Init ==
    /\ case \in Cases
    /\ tree = case.tree
    /\ globals = Nothing
    /\ pending = {}
    /\ pc = [c \in Callers |-> IF c \in DOMAIN case.queries THEN "start" ELSE "absent"]
    /\ answers = [c \in Callers |-> <<>>]

Query(c) == case.queries[c]
Upward(c) == Ups[Len(answers[c]) + 1]
\* A result, with as history the tree it is about, and whether every frame
\* was the caller's own and of that tree.
Plain(kind) == [kind |-> kind, tree |-> tree, sound |-> kind = "empty"]

\* tryFiberStrategy: what comes back without a list of matches is followed
\* by a deeper attempt while there is one.
Final(c, a) == a.kind \in {"ambiguous", "index"} \/ Len(answers[c]) + 1 = Len(Ups)
Attempted(c, a) ==
    /\ answers' = [answers EXCEPT ![c] = Append(@, a)]
    /\ pc' = [pc EXCEPT ![c] = IF Final(c, a) THEN "done" ELSE "start"]

Dispatch(c) ==
    /\ pc[c] = "start"
    /\ LET es == Collected(tree, Query(c), Upward(c))
       IN  IF es = <<>>
           THEN Attempted(c, Plain("empty")) /\ UNCHANGED <<globals, pending>>
           ELSE /\ globals' = [by |-> c, tree |-> tree, entries |-> es,
                               frames |-> [x \in Slots(tree, es) |-> Missing], beyond |-> FALSE]
                /\ pending' = pending \cup {[slot |-> x, frame |-> FrameOf(tree, es, x)]
                                            : x \in Slots(tree, es)}
                /\ pc' = [pc EXCEPT ![c] = "polling"]
                /\ UNCHANGED answers
    /\ UNCHANGED <<case, tree>>

\* A callback writes where the globals point now, or fails without them; one
\* of a longer list makes the array longer than what describes it.
Measure(m) ==
    /\ pending' = pending \ {m}
    /\ globals' = IF globals = Nothing THEN Nothing
                  ELSE IF m.slot \in DOMAIN globals.frames
                       THEN [globals EXCEPT !.frames[m.slot] = m.frame]
                       ELSE [globals EXCEPT !.beyond = @ \/ m.slot[1] = "host"]
    /\ UNCHANGED <<case, tree, pc, answers>>

Measured(g, x) == x \in DOMAIN g.frames /\ g.frames[x] # Missing
Hosts(g)       == {x \in DOMAIN g.frames : x[1] = "host"}
\* waitForMeasurements counts what the globals name, or is out of time.
Polled(c) ==
    /\ pc[c] = "polling"
    /\ pc' = [pc EXCEPT ![c] = "measured"]
    /\ UNCHANGED <<case, tree, globals, pending, answers>>

Viewport(g) ==
    LET at(k) == g.frames[<<"host", k>>]
        top == FirstOf({k \in DOMAIN g.entries : /\ Measured(g, <<"host", k>>)
                                                 /\ at(k).top <= 0 /\ at(k).size > 0})
    IN  CASE Measured(g, <<"root", 1>>) -> Bottom(g.frames[<<"root", 1>>])
          [] ~Measured(g, <<"root", 1>>) /\ top # 0 -> Bottom(at(top))
          [] OTHER -> Far
Unlifted(g) == 0 \* mutant
SheetShift(g) == IF Measured(g, <<"sheet", 1>>) /\ Viewport(g) # Far
                 THEN Max({Viewport(g) - Bottom(g.frames[<<"sheet", 1>>]), 0}) ELSE 0
Placed(g, k) ==
    LET b == g.frames[<<"host", k>>]
    IN  IF InSheet(g.tree, FirstHost(g.tree, g.entries[k].fiber))
        THEN Box(b.top + SheetShift(g), b.size) ELSE b
Visible(g, k) == LET b == Placed(g, k)
                 IN  b.size > 0 /\ Bottom(b) >= 0 /\ b.top <= Viewport(g)

MatchedAny(t, q, e) == q.text \in TextsOf(t, e.fiber) \/ q.id \in e.ids \/ q.name \in e.names \* mutant
Matched(t, q, e) == /\ q.text # None => q.text \in TextsOf(t, e.fiber)
                    /\ q.id # None => q.id \in e.ids
                    /\ q.name # None => q.name \in e.names
Matching(g, q) == {k \in DOMAIN g.entries : Measured(g, <<"host", k>>) /\ Matched(g.tree, q, g.entries[k])}
Matches(g, q)  == SelectSeq([k \in DOMAIN g.entries |-> k],
                            LAMBDA k : k \in Matching(g, q) /\ Visible(g, k))

\* collapseGeometricallyEquivalentMatches: wrappers of one element.
Twin(g, j, k) == /\ g.entries[j].id = g.entries[k].id
                 /\ TextsOf(g.tree, g.entries[j].fiber) = TextsOf(g.tree, g.entries[k].fiber)
                 /\ Centre2(Placed(g, j)) = Centre2(Placed(g, k))
Ambiguous(g, ms) == \E k \in Range(ms) : ~Twin(g, ms[1], k)

Sound(g, c) == /\ g.by = c /\ g.tree = tree
               /\ \A x \in DOMAIN g.frames : g.frames[x] = FrameOf(g.tree, g.entries, x)
Tap(g, c, k) == [kind |-> IF Centre2(Placed(g, k)) = 0 THEN "nopoint" ELSE "tap",
              entry |-> g.entries[k], at |-> Centre2(Placed(g, k)),
              tree |-> tree, sound |-> Sound(g, c)]
Outcome(g, c) ==
    LET q  == Query(c)
        ms == Matches(g, q)
    IN  CASE g = Nothing \/ g.beyond -> Plain("failed")
          [] g # Nothing /\ ~g.beyond /\ ms = <<>> ->
               [Plain(IF Matching(g, q) = {} THEN "absent" ELSE "invisible")
                  EXCEPT !.sound = Sound(g, c)]
          [] g # Nothing /\ ~g.beyond /\ ms # <<>> ->
               CASE q.index >= Len(ms) -> Plain("index")
                 [] q.index < 0 /\ Ambiguous(g, ms) -> Plain("ambiguous")
                 [] OTHER -> Tap(g, c, ms[IF q.index < 0 THEN 1 ELSE q.index + 1])

\* The second expression takes the globals, whoever left them.
Resolve(c) ==
    /\ pc[c] = "measured"
    /\ Attempted(c, Outcome(globals, c))
    /\ globals' = Nothing
    /\ UNCHANGED <<case, tree, pending>>

\* ... or its answer is lost; the next attempt starts over.
ResolveFails(c) ==
    /\ pc[c] = "measured"
    /\ Attempted(c, Plain("failed"))
    /\ globals' \in {globals, Nothing}
    /\ UNCHANGED <<case, tree, pending>>

Navigate ==
    /\ tree # case.later
    /\ tree' = case.later
    /\ UNCHANGED <<case, globals, pending, pc, answers>>

Next ==
    \/ \E c \in Callers : Dispatch(c) \/ Polled(c) \/ Resolve(c) \/ ResolveFails(c)
    \/ \E m \in pending : Measure(m)
    \/ Navigate

-----------------------------------------------------------------------------
(* Properties.                                                             *)

Done == {c \in Callers : pc[c] = "done"}
LastOf(c) == answers[c][Len(answers[c])]

\* What somebody means by a query: the element has the text in it, and the
\* testID and the component are its own, or are around it, or in it.
Meant(t, q, i) ==
    LET kin == Above(t, i) \cup Below(t, i)
    IN  /\ Wanted(q, t[i]) /\ FirstHost(t, i) # 0
        /\ q.text # None => q.text \in TextsOf(t, i)
        /\ q.id # None => \E k \in kin : t[k].id = q.id
        /\ q.name # None => \E k \in kin : t[k].name = q.name

\* ... or, more closely, has it all itself.
HasIt(t, q, i, up) ==
    /\ Wanted(q, t[i]) /\ FirstHost(t, i) # 0
    /\ q.text # None => q.text \in TextsOf(t, i)
    /\ q.id # None => q.id \in {t[i].id} \cup IDsAbove(t, i, up)
    /\ q.name # None => q.name \in {t[i].name, Meaningful(t, i)}

\* The point given to the device is the centre of an element the query
\* means, drawn where it is measured, sheets included; the element is not in
\* a hidden scene unless it was reached from a wrapper around that scene; and
\* an element that is not singled out by an index has no rival that was
\* collected for its own sake in another place.
\* (pressables.ts:324-500, 690-860; tap.ts:811-830, 1040-1060)
PointIsElements ==
    \A c \in Done :
        LastOf(c).kind = "tap" /\ LastOf(c).sound =>
            LET q == Query(c)
                e == LastOf(c).entry
                t == LastOf(c).tree
                up == Ups[Len(answers[c])]
            IN  /\ Meant(t, q, e.fiber)
                /\ LastOf(c).at = Centre2(t[FirstHost(t, e.fiber)].box)
                /\ Active(t, e.fiber) \/ e.via = "below"
                /\ q.index < 0 =>
                     \A i \in DOMAIN t :
                         Active(t, i) /\ HasIt(t, q, i, up) =>
                             LET b == t[FirstHost(t, i)].box
                             IN  \/ Centre2(b) = LastOf(c).at
                                 \/ b.size = 0 \/ Bottom(b) < 0 \/ b.top > Height

\* "Not in the tree" is said, with every frame measured, only when nothing in
\* an active scene has the text, the testID and the component itself or, for
\* the testID, on an ancestor in the same scene - and when no wrapper with
\* the testID lies in a nameless element or around one.
\* (pressables.ts:376-500, 820-840)
FoundIfThere ==
    \A c \in Done :
        LastOf(c).kind \in {"empty", "absent"} /\ LastOf(c).sound =>
            LET q == Query(c)
                t == LastOf(c).tree
                up == Ups[Len(answers[c])]
            IN  /\ ~\E i \in DOMAIN t : Active(t, i) /\ HasIt(t, q, i, up)
                /\ q.text = None /\ q.name = None =>
                     ~\E w \in DOMAIN t, i \in DOMAIN t :
                        /\ t[w].id = q.id /\ Active(t, w) /\ Active(t, i) /\ FirstHost(t, i) # 0
                        /\ Wanted(q, t[i]) /\ ~Wanted(q, t[w])
                        /\ \/ /\ w \in Below(t, i) /\ t[i].id = None
                              /\ Depth(t, w) - Depth(t, i) <= up
                              /\ \A k \in Above(t, w) : Wanted(q, t[k]) => k = i
                           \/ /\ \A k \in Above(t, w) : ~Wanted(q, t[k])
                              /\ i \in Below(t, w) /\ Depth(t, i) - Depth(t, w) <= Down
                              /\ \A k \in Below(t, w) : Wanted(q, t[k]) => k = i

\* The code breaks this one (README, section 6).
\* The traversal is deepened only when nothing was found: once an attempt has
\* the element, no other is made, which could lose or doubt it.
\* (tap.ts:970-977)
FoundIsFinal ==
    \A c \in Callers : \A k \in 1 .. Len(answers[c]) - 1 : answers[c][k].kind # "tap"
=============================================================================
