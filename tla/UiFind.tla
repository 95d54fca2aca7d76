------------------------------- MODULE UiFind -------------------------------
(***************************************************************************)
(* Finding an element in an accessibility dump and choosing what to tap    *)
(* (core/ios.ts, core/android.ts and the accessibility strategy of         *)
(* pro/tap.ts).  A dump is a sequence of elements; what a query can tell   *)
(* apart of an element is whether its label, identifier and content        *)
(* description are the wanted string, contain it, or neither, whether its  *)
(* centre is inside the screen, whether it is an aggregator (a parent that *)
(* answers for all its children) and where it is, give or take the 2 px    *)
(* within which wrappers count as one.  What answers a query is the set of *)
(* its places in the dump, and is numbered in their order.                 *)
(***************************************************************************)
EXTENDS Naturals, Sequences, FiniteSets

CONSTANTS Dumps,      \* what a dump can show
          MaxPolls    \* bounds the polls of a wait

VARIABLE find
findVars == <<find>>

NoIndex == 0
Nobody == 0     \* no place in a dump

\* The predicates tried one after the other on the one dump, until one has answers.
Passes(platform, want) ==
    CASE platform = "ios" /\ want = "text" -> <<"label", "labelContains">>
      [] platform = "ios" /\ want = "testID" -> <<"identifier", "identifierContains", "labelContains">>
      [] platform = "android" /\ want = "text" -> <<"labelContains">>
      [] platform = "android" /\ want = "testID" -> <<"identifier", "descContains">>

MatchesIOSFindElement(e, pass) ==
    CASE pass = "label" -> e.label = "same"
      [] pass = "labelContains" -> e.label # "other"
      [] pass = "identifier" -> e.id = "same"
      [] pass = "identifierContains" -> e.id # "other"
MatchesElement(e, pass) ==
    CASE pass = "labelContains" -> e.label # "other"
      [] pass = "identifier" -> e.id = "same"
      [] pass = "descContains" -> e.desc # "other"
Matches(platform, e, pass) ==
    IF platform = "ios" THEN MatchesIOSFindElement(e, pass) ELSE MatchesElement(e, pass)

\* The n-th of a set of places.
Nth(hits, n) == CHOOSE i \in hits : Cardinality({j \in hits : j <= i}) = n

\* Elements on the screen first, all of them when none answers.
AnyPlace(platform, dump, pass) == \* mutant
    {i \in DOMAIN dump : Matches(platform, dump[i], pass)}
VisibleFirst(platform, dump, pass) ==
    LET hits == {i \in DOMAIN dump : Matches(platform, dump[i], pass)}
        shown == {i \in hits : dump[i].inView}
    IN IF shown # {} THEN shown ELSE hits

\* A partial answer of an aggregator is no answer: its centre is some other element.
Partial == {"labelContains", "identifierContains"}
IosMatches(dump, pass) ==
    {i \in VisibleFirst("ios", dump, pass) : pass \in Partial => ~dump[i].rollup}
AndroidMatches(dump, pass) == VisibleFirst("android", dump, pass)

\* A finder that is asked for an index beyond its matches returns none of them.
FindElement(platform, dump, pass, index) ==
    LET hits == IF platform = "ios" THEN IosMatches(dump, pass) ELSE AndroidMatches(dump, pass)
    IN IF index > Cardinality(hits) THEN {} ELSE hits

\* Wrappers of one element, the same names at the same place, count once, as the first of them.
Twins(d, e) == d.id = e.id /\ d.label = e.label /\ d.at = e.at
CollapseEquivalent(dump, hits) ==
    {i \in hits : \A j \in hits : j < i => ~Twins(dump[j], dump[i])}

Undecided == [verdict |-> "undecided", element |-> Nobody, list |-> {}]
Verdict(v) == [verdict |-> v, element |-> Nobody, list |-> {}]
Taps(element) == [verdict |-> "tap", element |-> element, list |-> {}]

UncollapsedChosen(dump, hits, index) == \* mutant
    IF index # NoIndex /\ index <= Cardinality(hits) THEN Taps(Nth(hits, index))
    ELSE IF Cardinality(CollapseEquivalent(dump, hits)) = 1 THEN Taps(Nth(hits, 1))
    ELSE [Verdict("ambiguous") EXCEPT !.list = CollapseEquivalent(dump, hits)]
\* The element that what answers and an index name: one, none, or too many to choose from.
Chosen(dump, hits, index) ==
    LET distinct == CollapseEquivalent(dump, hits)
        number == IF index = NoIndex THEN 1 ELSE index
    IN IF index = NoIndex /\ Cardinality(distinct) # 1
       THEN [Verdict("ambiguous") EXCEPT !.list = distinct]
       ELSE IF number <= Cardinality(distinct) THEN Taps(Nth(distinct, number)) ELSE Verdict("none")

-----------------------------------------------------------------------------
Init ==
    \E op \in {"tap", "tapElement", "wait"}, platform \in {"ios", "android"},
       want \in {"text", "testID"}, index \in 0..2 :
       find = [op |-> op, platform |-> platform, want |-> want, index |-> index, pass |-> 1,
               dump |-> <<>>, phase |-> "dump", polls |-> MaxPolls, answer |-> Undecided]

Ended(answer) == find' = [find EXCEPT !.phase = "end", !.answer = answer]

\* On iOS a wait refuses to look for an identifier alone.
Refused == find.op = "wait" /\ find.platform = "ios" /\ find.want = "testID"

\* One dump serves every pass.
GetUITree ==
    /\ find.phase = "dump" /\ ~Refused
    /\ \E dump \in Dumps : find' = [find EXCEPT !.dump = dump, !.phase = "search"]
DumpFails == find.phase = "dump" /\ ~Refused /\ Ended(Verdict("error"))

Hits == FindElement(find.platform, find.dump, Passes(find.platform, find.want)[find.pass], find.index)

Search ==
    /\ find.phase = "search" /\ find.op = "tap" /\ Hits # {}
    /\ Ended(Chosen(find.dump, Hits, find.index))
NextPass ==
    /\ find.phase = "search" /\ find.op = "tap" /\ Hits = {}
    /\ IF find.pass < Len(Passes(find.platform, find.want))
       THEN find' = [find EXCEPT !.pass = @ + 1] ELSE Ended(Verdict("none"))

\* The element tools search every element, on the screen or not, with one predicate, and
\* take the first unless an index is given.
TapElement ==
    /\ find.phase = "search" /\ find.op = "tapElement"
    /\ LET pass == IF find.want = "text" THEN "labelContains" ELSE "identifier"
           hits == {i \in DOMAIN find.dump : Matches(find.platform, find.dump[i], pass)}
           number == IF find.index = NoIndex THEN 1 ELSE find.index
       IN Ended(IF number <= Cardinality(hits) THEN Taps(Nth(hits, number)) ELSE Verdict("none"))

\* A wait polls with one predicate until it is found, the dump fails, or time is up.
WaitRefused ==
    /\ find.phase = "dump" /\ Refused
    /\ Ended(Verdict("refused"))
WaitFound ==
    /\ find.phase = "search" /\ find.op = "wait" /\ Hits # {}
    /\ Ended(Taps(Nth(Hits, IF find.index = NoIndex THEN 1 ELSE find.index)))
WaitPolls ==
    /\ find.phase = "search" /\ find.op = "wait" /\ Hits = {}
    /\ IF find.polls = 0 THEN Ended(Verdict("timedOut"))
       ELSE find' = [find EXCEPT !.phase = "dump", !.dump = <<>>, !.polls = @ - 1]

Next == \/ GetUITree \/ DumpFails \/ Search \/ NextPass \/ TapElement
        \/ WaitRefused \/ WaitFound \/ WaitPolls

-----------------------------------------------------------------------------
Tapped == find.phase = "end" /\ find.op = "tap" /\ find.answer.verdict = "tap"

\* What an accessibility tap presses answers the query; it is on the screen if anything on
\* the screen answers in the pass that found it; and on iOS it is no aggregator unless the
\* whole of its name was asked for.  ios.ts:2024-2037 records the wrapper whose centre was
\* another button, ios.ts:2107 the off-screen duplicates of a pager.
PressesTheNamed == Tapped =>
    LET at == find.answer.element
        pass == Passes(find.platform, find.want)[find.pass]
        Answers(i) == Matches(find.platform, find.dump[i], pass)
    IN /\ at \in DOMAIN find.dump /\ Answers(at)
       /\ find.platform = "ios" /\ find.dump[at].rollup => pass \notin Partial
       /\ find.dump[at].inView \/ \A i \in DOMAIN find.dump : find.dump[i].inView /\ Answers(i) =>
             find.platform = "ios" /\ pass \in Partial /\ find.dump[i].rollup

\* An index means what the refusal said: repeating an ambiguous query on the same screen with
\* the number of a listed match presses that match, whatever the earlier passes make of the
\* number.  (tap.ts:811-831 and 1216-1245: the list is numbered after collapsing wrappers,
\* the finder bounds the number before.)
IndexAsListed == find.phase = "end" /\ find.op = "tap" /\ find.answer.verdict = "ambiguous" =>
    LET passes == Passes(find.platform, find.want)
        Answers(p, n) == FindElement(find.platform, find.dump, passes[p], n)
    IN \A n \in 1..Cardinality(find.answer.list) : \E p \in DOMAIN passes :
          /\ \A q \in 1..(p - 1) : Answers(q, n) = {}
          /\ Answers(p, n) # {}
          /\ Chosen(find.dump, Answers(p, n), n) = Taps(Nth(find.answer.list, n))
=============================================================================
