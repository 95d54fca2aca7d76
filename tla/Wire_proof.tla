----------------------------- MODULE Wire_proof -----------------------------
(* What passes between the agent and the app.                               *)
(*                                                                          *)
(* The vault, for any hosts, any number of entries and steps: a handle      *)
(* names one credential for good, and http_request sends a credential to no *)
(* host it was not observed on.  App is the one thing asked of the          *)
(* constants: the mark of a credential seen on no host is not a host.       *)
(*                                                                          *)
(* MockRules implements MockTable, for any budgets and any bounds: pushing  *)
(* whole lists over a connection that comes and goes behaves as one table   *)
(* of rules.                                                                *)
(*                                                                          *)
(* Text entry, for any faults and any changes of the screen: what is        *)
(* reported verified is in the field, and no other field is written.        *)
(*                                                                          *)
(* The script in the app, for any requests and any mutes: each is told      *)
(* once, by one layer, and one that a rule answers is told whole.           *)
(*                                                                          *)
(* The logs, for any buffers and any overlap of reads: an id names one      *)
(* entry, nothing is answered twice, and no crash is passed by.             *)
EXTENDS MCWire, FiniteSetTheorems, SequenceTheorems, WellFoundedInduction, TLAPS

-----------------------------------------------------------------------------
(* The vault. *)

Place  == Host \union {App}
Handle == Place \X Nat
VaultEntry  == [value : Nat, handle : Handle, origin : Place]
Sends  == [host : Host, token : Nat]
Capture == [step : {"none", "asked", "told", "captured"}, host : Place, value : Nat]

VaultTypes ==
    /\ token \in [Host -> Nat] /\ minted \in Nat
    /\ network \in Seq(Sends)
    /\ entries \in Seq(VaultEntry)
    /\ issued \in SUBSET Handle /\ IsFiniteSet(issued)
    /\ slots \in [Host -> Nat]
    /\ capture \in Capture /\ (capture.step = "asked" => capture.host \in Host)
    /\ named \in SUBSET (Handle \X Nat)

\* What was named was issued: a new handle, not issued yet, names nothing.
NamedWasIssued == \A x \in named : x[1] \in issued

\* An entry is bound only to a host it was observed on.
BoundWhereSeen ==
    \A i \in DOMAIN entries :
        entries[i].origin # App => <<entries[i].value, entries[i].origin>> \in seen

\* The inductive invariant.
VaultInv ==
    /\ VaultTypes
    /\ NamedWasIssued
    /\ BoundWhereSeen
    /\ HandleNamesOne
    /\ SentWasSeenThere

-----------------------------------------------------------------------------
(* A handle that was never given exists among the first numbers: more numbers
   than handles cannot all be taken, and the least free one is what the code's
   loop stops at. *)

LEMMA SomeNumberFree ==
  ASSUME NEW base, IsFiniteSet(issued)
  PROVE  /\ Cardinality(issued) \in Nat
         /\ \E n \in 1..Cardinality(issued) + 1 : <<base, n>> \notin issued
<1> DEFINE C == Cardinality(issued)
           f == [n \in 1..C + 1 |-> <<base, n>>]
<1>1. C \in Nat
  BY FS_CardinalityType
<1>2. IsFiniteSet(1..C + 1) /\ Cardinality(1..C + 1) = C + 1
  BY <1>1, FS_Interval
<1>3. ASSUME \A n \in 1..C + 1 : <<base, n>> \in issued
      PROVE  FALSE
  <2>1. f \in [1..C + 1 -> issued]
    BY <1>3
  <2>2. PICK x, y \in 1..C + 1 : x # y /\ f[x] = f[y]
    <3> HIDE DEF f
    <3>1. C < C + 1
      BY <1>1
    <3> QED BY <1>2, <2>1, <3>1, FS_PigeonHole
  <2> QED BY <2>2
<1> QED BY <1>1, <1>3

LEMMA LeastNumberFree ==
  ASSUME NEW base, IsFiniteSet(issued)
  PROVE  \E n \in 1..Cardinality(issued) + 1 :
            <<base, n>> \notin issued /\ \A m \in 1..n - 1 : <<base, m>> \in issued
<1> DEFINE free == {n \in 1..Cardinality(issued) + 1 : <<base, n>> \notin issued}
<1>1. Cardinality(issued) \in Nat /\ free # {}
  BY SomeNumberFree
<1>2. free \subseteq Nat
  BY <1>1
<1>3. PICK n \in free : \A m \in free : <<m, n>> \notin OpToRel(<, Nat)
  <2> HIDE DEF free
  <2> QED BY <1>1, <1>2, NatLessThanWellFounded, WFMin
<1>4. \A m \in free : ~(m < n)
  BY <1>2, <1>3 DEF OpToRel
<1>5. \A m \in 1..n - 1 : <<base, m>> \in issued
  BY <1>1, <1>4
<1> QED BY <1>3, <1>5

LEMMA HandleIsFresh ==
  ASSUME NEW base \in Place, IsFiniteSet(issued)
  PROVE  AssignHandle(base) \in Handle /\ AssignHandle(base) \notin issued
<1>1. Cardinality(issued) \in Nat
  BY SomeNumberFree
<1> QED BY <1>1, LeastNumberFree DEF AssignHandle, Handle

-----------------------------------------------------------------------------
(* What vaultAdd leaves alone, and what it keeps. *)

NamesKept ==
    /\ entries' \in Seq(VaultEntry)
    /\ issued' \in SUBSET Handle /\ IsFiniteSet(issued')
    /\ slots' \in [Host -> Nat]
    /\ named' \in SUBSET (Handle \X Nat)
    /\ NamedWasIssued' /\ BoundWhereSeen' /\ HandleNamesOne'
    /\ seen \subseteq seen'

LEMMA AddKeeps ==
  ASSUME VaultInv, NEW value \in Nat, NEW origin \in Place, VaultAdd(value, origin)
  PROVE  NamesKept
<1> USE DEF VaultInv
<1>1. seen \subseteq seen' /\ <<value, origin>> \in seen'
  BY DEF VaultAdd
<1>2. ASSUME NEW e \in Place PROVE Current(e, value) \in [Host -> Nat]
  BY DEF Current, VaultTypes
<1>3. CASE Holding(value) # {}
  <2> DEFINE i == CHOOSE i \in Holding(value) : TRUE
             host == IF entries[i].origin = App THEN origin ELSE entries[i].origin
  <2>1. i \in DOMAIN entries /\ entries[i].value = value
    BY <1>3 DEF Holding
  <2>2. entries[i] \in VaultEntry
    BY <2>1 DEF VaultTypes
  <2>3. host \in Place
    BY <2>2 DEF VaultEntry
  <2>4. /\ entries' = [entries EXCEPT ![i].origin = host]
        /\ slots' = Current(host, value) /\ UNCHANGED <<issued, named>>
    BY <1>3 DEF VaultAdd
  <2>5. [entries[i] EXCEPT !.origin = host] \in VaultEntry
    BY <2>2, <2>3 DEF VaultEntry
  <2>6. entries' \in Seq(VaultEntry)
    BY <2>1, <2>4, <2>5 DEF VaultTypes
  <2>7. DOMAIN entries' = DOMAIN entries
    BY <2>4 DEF VaultTypes
  <2>8. ASSUME NEW j \in DOMAIN entries, entries'[j].origin # App
        PROVE  <<entries'[j].value, entries'[j].origin>> \in seen'
    <3>1. CASE j # i
      BY <1>1, <2>1, <2>4, <2>8, <3>1 DEF BoundWhereSeen, VaultTypes
    <3>2. CASE j = i
      <4>1. entries'[i].value = value /\ entries'[i].origin = host
        BY <2>1, <2>2, <2>4 DEF VaultEntry, VaultTypes
      <4> QED BY <1>1, <2>1, <2>8, <3>2, <4>1 DEF BoundWhereSeen
    <3> QED BY <3>1, <3>2
  <2>9. BoundWhereSeen'
    BY <2>7, <2>8 DEF BoundWhereSeen
  <2>10. slots' \in [Host -> Nat]
    <3> HIDE DEF host
    <3> QED BY <1>2, <2>3, <2>4
  <2> QED BY <1>1, <2>4, <2>6, <2>9, <2>10
          DEF NamesKept, VaultTypes, NamedWasIssued, HandleNamesOne
<1>4. CASE Holding(value) = {}
  <2> DEFINE handle == AssignHandle(origin)
             new == [value |-> value, handle |-> handle, origin |-> origin]
             all == Append(entries, new)
  <2>1. handle \in Handle /\ handle \notin issued
    BY HandleIsFresh DEF VaultTypes
  <2>2. /\ issued' = issued \union {handle} /\ named' = named \union {<<handle, value>>}
        /\ entries' = IF Len(all) > MaxEntries THEN Tail(all) ELSE all
        /\ slots' = Current(origin, value)
    BY <1>4 DEF VaultAdd
  <2> HIDE DEF handle
  <2>3. new \in VaultEntry
    BY <2>1 DEF VaultEntry
  <2>4. IsFiniteSet(issued')
    BY <2>2, FS_AddElement DEF VaultTypes
  <2>5. all \in Seq(VaultEntry) /\ Len(all) = Len(entries) + 1
    BY <2>3 DEF VaultTypes
  <2>6. ASSUME NEW j \in DOMAIN all, all[j].origin # App
        PROVE  <<all[j].value, all[j].origin>> \in seen'
    <3>1. CASE j \in DOMAIN entries
      <4>1. all[j] = entries[j]
        BY <3>1, <2>3 DEF VaultTypes
      <4> QED BY <1>1, <2>6, <3>1, <4>1 DEF BoundWhereSeen
    <3>2. CASE j \notin DOMAIN entries
      <4>1. all[j] = new
        BY <2>3, <2>5, <2>6, <3>2 DEF VaultTypes
      <4> QED BY <1>1, <2>6, <4>1
    <3> QED BY <3>1, <3>2
  <2> HIDE DEF all, new
  <2>7. entries' \in Seq(VaultEntry) /\ \A j \in DOMAIN entries' : \E k \in DOMAIN all : entries'[j] = all[k]
    <3>1. CASE entries' = all
      BY <2>5, <3>1
    <3>2. CASE entries' = Tail(all)
      <4>1. Len(all) > 0
        BY <2>5 DEF VaultTypes
      <4>2. Tail(all) \in Seq(VaultEntry) /\ DOMAIN Tail(all) = 1..Len(all) - 1
        BY <2>5, <4>1
      <4>3. \A j \in 1..Len(all) - 1 : j + 1 \in DOMAIN all /\ Tail(all)[j] = all[j + 1]
        BY <2>5, <4>1
      <4> QED BY <3>2, <4>2, <4>3
    <3> QED BY <2>2, <3>1, <3>2
  <2>8. BoundWhereSeen'
    BY <2>6, <2>7 DEF BoundWhereSeen
  <2>9. NamedWasIssued' /\ named' \in SUBSET (Handle \X Nat) /\ issued' \in SUBSET Handle
    BY <2>1, <2>2 DEF NamedWasIssued, VaultTypes
  <2>10. HandleNamesOne'
    <3>1. ASSUME NEW x \in named', NEW y \in named', x[1] = y[1] PROVE x = y
      <4>1. ASSUME NEW z \in named PROVE z[1] # handle
        BY <2>1, <4>1 DEF NamedWasIssued
      <4>2. <<handle, value>>[1] = handle
        OBVIOUS
      <4> QED BY <2>2, <3>1, <4>1, <4>2 DEF HandleNamesOne
    <3> QED BY <3>1 DEF HandleNamesOne
  <2>11. slots' \in [Host -> Nat]
    BY <1>2, <2>2
  <2> QED BY <1>1, <2>4, <2>7, <2>8, <2>9, <2>10, <2>11 DEF NamesKept
<1> QED BY <1>3, <1>4

\* A step that adds, or leaves the vault as it is, sends nothing.
LEMMA VaultStep ==
  ASSUME VaultInv, NamesKept, UNCHANGED <<token, minted, network, sent>>,
         capture' \in Capture, capture'.step = "asked" => capture'.host \in Host
  PROVE  VaultInv'
  BY DEF VaultInv, VaultTypes, NamesKept, SentWasSeenThere

LEMMA CaptureKeeps ==
  ASSUME VaultInv, UNCHANGED vault
  PROVE  NamesKept
  BY DEF VaultInv, VaultTypes, NamesKept, vault, NamedWasIssued, BoundWhereSeen, HandleNamesOne

-----------------------------------------------------------------------------
LEMMA NoCaptureTyped == NoCapture \in Capture /\ NoCapture.step # "asked"
  BY DEF NoCapture, Place, Capture

LEMMA VaultStarts == VaultInit => VaultInv
<1> SUFFICES ASSUME VaultInit PROVE VaultInv
  OBVIOUS
<1>1. VaultTypes
  <2>1. NoCapture \in Capture /\ NoCapture.step # "asked"
    BY NoCaptureTyped
  <2>2. <<>> \in Seq(Sends) /\ <<>> \in Seq(VaultEntry)
    OBVIOUS
  <2>3. [h \in Host |-> 0] \in [Host -> Nat]
    OBVIOUS
  <2> QED BY <2>1, <2>2, <2>3, FS_EmptySet DEF VaultInit, VaultTypes
<1> QED BY <1>1 DEF VaultInit, VaultInv, NamedWasIssued, BoundWhereSeen, HandleNamesOne,
                    SentWasSeenThere, NotSent

\* What http_request resolves is an entry bound to the host it is sent to.
LEMMA SendsWhereSeen ==
  ASSUME VaultInv, App \notin Host, NEW name, NEW target \in Host, ResolveAuth(name, target) > 0
  PROVE  <<ResolveAuth(name, target), target>> \in seen
<1> DEFINE by == {i \in DOMAIN entries : entries[i].handle = name}
                 \union {i \in DOMAIN entries : name \in Host /\ entries[i].value = slots[name]}
           i == CHOOSE i \in by : TRUE
<1>1. ASSUME by = {} PROVE FALSE
  <2>1. ResolveAuth(name, target) = 0
    BY <1>1 DEF ResolveAuth, VaultResolve, None
  <2> QED BY <2>1
<1>2. i \in DOMAIN entries /\ VaultResolve(name) = entries[i]
  BY <1>1 DEF VaultResolve
<1> HIDE DEF i
<1>3. CASE entries[i].origin = target
  BY <1>2, <1>3 DEF ResolveAuth, VaultInv, BoundWhereSeen
<1>4. CASE entries[i].origin # target
  <2>1. ResolveAuth(name, target) = 0
    BY <1>2, <1>4 DEF ResolveAuth
  <2> QED BY <2>1
<1> QED BY <1>3, <1>4

LEMMA VaultKeeps ==
  ASSUME VaultInv, App \notin Host, [VaultNext]_vaultVars
  PROVE  VaultInv'
<1>1. ASSUME NEW hosts \in SUBSET Host, Login(hosts) PROVE VaultInv'
  BY <1>1 DEF Login, VaultInv, VaultTypes, vault, NamedWasIssued, BoundWhereSeen, HandleNamesOne,
              SentWasSeenThere
<1>2. ASSUME NEW h \in Host, AppSends(h) PROVE VaultInv'
  <2>1. network' \in Seq(Sends)
    BY <1>2 DEF AppSends, VaultInv, VaultTypes, Sends
  <2> QED BY <1>2, <2>1 DEF AppSends, VaultInv, VaultTypes, vault, NamedWasIssued, BoundWhereSeen,
                            HandleNamesOne, SentWasSeenThere
<1>3. ASSUME NEW h \in Host, CaptureToVault(h) PROVE VaultInv'
  <2>1. capture' \in Capture /\ capture'.host \in Host
    BY <1>3 DEF CaptureToVault, Place, Capture
  <2> QED BY <1>3, <2>1, CaptureKeeps, VaultStep DEF CaptureToVault, theApp
<1>4. ASSUME NEW h \in Host, NEW redux \in BOOLEAN, BuildRequestExpression(h, redux) PROVE VaultInv'
  <2>1. sent'.value \in Nat /\ ~sent'.ours
    <3>1. sent' = [host |-> h, ours |-> FALSE,
                   value |-> IF redux THEN token[h]
                             ELSE IF network = <<>> THEN 0 ELSE network[Len(network)].token]
      BY <1>4 DEF BuildRequestExpression, Last
    <3>2. network # <<>> => network[Len(network)] \in Sends
      BY DEF VaultInv, VaultTypes
    <3>3. network # <<>> => network[Len(network)].token \in Nat
      BY <3>2 DEF Sends
    <3>4. token[h] \in Nat
      BY DEF VaultInv, VaultTypes
    <3> QED BY <3>1, <3>3, <3>4
  <2>2. network' \in Seq(Sends)
    BY <1>4, <2>1 DEF BuildRequestExpression, VaultInv, VaultTypes, Sends
  <2> QED BY <1>4, <2>1, <2>2 DEF BuildRequestExpression, VaultInv, VaultTypes, vault,
             NamedWasIssued, BoundWhereSeen, HandleNamesOne, SentWasSeenThere
<1>5. ASSUME NEW h \in Host, NEW name, HttpRequest(name, h) PROVE VaultInv'
  <2>1. SentWasSeenThere'
    BY <1>5, SendsWhereSeen DEF HttpRequest, SentWasSeenThere, vault
  <2> QED BY <1>5, <2>1 DEF HttpRequest, VaultInv, VaultTypes, theApp, vault, NamedWasIssued,
                            BoundWhereSeen, HandleNamesOne
<1>6. ASSUME NEW i \in DOMAIN network, RedactHeaderValue(i) PROVE VaultInv'
  <2>1. network[i].token \in Nat /\ network[i].host \in Place
    <3>1. network[i] \in Sends
      BY DEF VaultInv, VaultTypes
    <3> QED BY <3>1 DEF Sends, Place
  <2>2. NamesKept
    BY <1>6, <2>1, AddKeeps DEF RedactHeaderValue
  <2> QED BY <1>6, <2>2, VaultStep, NoCaptureTyped DEF RedactHeaderValue, theApp
<1>7. ASSUME NEW value \in 1..minted, NEW origin \in Place, RedactSecrets(value, origin) PROVE VaultInv'
  <2>1. value \in Nat
    BY DEF VaultInv, VaultTypes
  <2>2. NamesKept
    BY <1>7, <2>1, AddKeeps, CaptureKeeps DEF RedactSecrets
  <2> QED BY <1>7, <2>2, VaultStep, NoCaptureTyped DEF RedactSecrets, theApp
<1>8. ASSUME AppEvaluated PROVE VaultInv'
  <2>1. capture' = [capture EXCEPT !.step = "told", !.value = token[capture.host]]
    BY <1>8 DEF AppEvaluated
  <2>2. capture \in Capture /\ token[capture.host] \in Nat
    BY <1>8 DEF AppEvaluated, VaultInv, VaultTypes
  <2>3. capture' = [step |-> "told", host |-> capture.host, value |-> token[capture.host]]
    BY <2>1, <2>2 DEF Capture
  <2>4. capture' \in Capture /\ capture'.step # "asked"
    BY <2>2, <2>3 DEF Capture
  <2> QED BY <1>8, <2>4, CaptureKeeps, VaultStep DEF AppEvaluated, theApp
<1>9. ASSUME Captured PROVE VaultInv'
  <2>1. CASE capture.value = 0
    BY <1>9, <2>1, CaptureKeeps, VaultStep, NoCaptureTyped DEF Captured, theApp
  <2>2. CASE capture.value # 0
    <3>1. capture.value \in Nat /\ capture.host \in Place
      BY DEF VaultInv, VaultTypes, Capture
    <3>2. capture' \in Capture /\ capture'.step # "asked"
      BY <1>9, <2>2 DEF Captured, VaultInv, VaultTypes, Capture
    <3>3. NamesKept
      BY <1>9, <2>2, <3>1, AddKeeps DEF Captured
    <3> QED BY <1>9, <3>2, <3>3, VaultStep DEF Captured, theApp
  <2> QED BY <2>1, <2>2
<1>10. CASE UNCHANGED vaultVars
  BY <1>10 DEF vaultVars, VaultInv, VaultTypes, NamedWasIssued, BoundWhereSeen, HandleNamesOne,
               SentWasSeenThere
<1>11. CASE VaultNext
  <2>1. ASSUME NEW h \in Host, NEW name \in Host \union issued, HttpRequest(name, h) PROVE VaultInv'
    BY <1>5, <2>1
  <2> QED BY <1>1, <1>2, <1>3, <1>4, <1>6, <1>7, <1>8, <1>9, <1>11, <2>1 DEF VaultNext, Place
<1> QED BY <1>10, <1>11

-----------------------------------------------------------------------------
\* The inductive invariant holds throughout.
THEOREM VaultInvariant == ASSUME App \notin Host PROVE VaultSpec => []VaultInv
<1>1. VaultInv /\ [VaultNext]_vaultVars => VaultInv'
  BY VaultKeeps
<1> QED BY <1>1, VaultStarts, PTL DEF VaultSpec

\* For any hosts and any limit of entries: a handle names one credential for good,
\* and what http_request sends to a host was observed on it.
THEOREM HandlesAndHosts == ASSUME App \notin Host PROVE VaultSpec => []VaultNames
<1>1. VaultInv => VaultNames
  BY DEF VaultInv, VaultNames
<1> QED BY <1>1, VaultInvariant, PTL

-----------------------------------------------------------------------------
(* Mock rules. *)

RuleList == UNION {[S -> Rule] : S \in SUBSET MockIds}

AppEntry == [rule : Rule, used : Nat]

MockTypes ==
    /\ made \in Seq(RuleList) /\ made # <<>>
    /\ nextId \in 1..Len(made)
    /\ \A i \in DOMAIN Rules : i < nextId
    /\ wire \in Seq(0..Len(made))
    /\ back \in Seq([fired : 0..MaxEdits])
    /\ seat \in {"none", "old", "new"}
    /\ DOMAIN app \subseteq MockIds /\ app \in [DOMAIN app -> AppEntry]
    /\ at \in 0..Len(made)
    /\ up \in BOOLEAN

\* The lists under way are sent oldest first, and none is older than the app's.
InOrder ==
    \A i \in DOMAIN wire : wire[i] # Inject =>
        /\ at <= wire[i]
        /\ \A j \in 1..i - 1 : wire[j] <= wire[i]

\* Only the new interceptor ever holds a rule on an operation.
Withheld == seat # "new" => \A i \in DOMAIN app : ~app[i].rule.op

\* A connected app has the server's rules, or they are the last thing on their
\* way to it, or it has no interceptor of this execbro's.
Settling ==
    up => \/ wire # <<>> /\ wire[Len(wire)] = Len(made)
          \/ wire = <<>> /\ (seat = "new" => Answering = Rules)

MockInv == MockTypes /\ InOrder /\ Withheld /\ Settling

-----------------------------------------------------------------------------
(* Lists of rules.                                                           *)

LEMMA RuleLists ==
  \A rules : rules \in RuleList <=> DOMAIN rules \subseteq MockIds /\ rules \in [DOMAIN rules -> Rule]
  BY DEF RuleList

LEMMA MadeTyped ==
  ASSUME MockTypes
  PROVE  /\ Len(made) \in Nat \ {0} /\ DOMAIN made = 1..Len(made)
         /\ \A n \in 1..Len(made) : made[n] \in RuleList
         /\ Rules \in RuleList
<1>1. made \in Seq(RuleList) /\ made # <<>>
  BY DEF MockTypes
<1>2. Len(made) \in Nat \ {0} /\ DOMAIN made = 1..Len(made)
      /\ \A n \in 1..Len(made) : made[n] \in RuleList
  BY <1>1
<1> QED BY <1>2 DEF Rules

-----------------------------------------------------------------------------
(* The edits.                                                                *)

\* What every edit does: a new last list, and its number at the end of what is
\* under way.
LEMMA EditedKeeps ==
  ASSUME MockInv, NEW rules \in RuleList, Edited(rules),
         nextId' \in {nextId, nextId + 1}, \A i \in DOMAIN rules : i < nextId'
  PROVE  MockInv'
<1>1. made \in Seq(RuleList) /\ Len(made) \in Nat \ {0} /\ made' = Append(made, rules)
  BY MadeTyped DEF MockInv, MockTypes, Edited
<1>2. /\ made' \in Seq(RuleList) /\ made' # <<>> /\ Len(made') = Len(made) + 1
      /\ made'[Len(made')] = rules
  BY <1>1
<1>3. wire \in Seq(0..Len(made')) /\ (wire' = wire \/ wire' = Append(wire, Len(made')))
  BY <1>1, <1>2 DEF MockInv, MockTypes, Edited, Push
<1>4. wire' \in Seq(0..Len(made'))
  <2>1. Len(made') \in 0..Len(made')
    BY <1>1, <1>2
  <2> QED BY <1>3, <2>1
<1>5. MockTypes'
  <2>1. nextId' \in 1..Len(made') /\ at' \in 0..Len(made')
    BY <1>1, <1>2 DEF MockInv, MockTypes, Edited, context
  <2>2. \A i \in DOMAIN Rules' : i < nextId'
    BY <1>2 DEF Rules
  <2> QED BY <1>2, <1>4, <2>1, <2>2 DEF MockInv, MockTypes, Edited, context
<1>6. InOrder'
  <2>1. \A i \in DOMAIN wire' : IF i \in DOMAIN wire THEN wire'[i] = wire[i]
                                ELSE wire'[i] = Len(made') /\ i = Len(wire) + 1
    <3>1. Len(made') \in 0..Len(made')
      BY <1>1, <1>2
    <3> DEFINE T == 0..Len(made')
               m == Len(made')
    <3>2. wire \in Seq(T) /\ m \in T /\ (wire' = wire \/ wire' = Append(wire, m))
      BY <1>3, <3>1
    <3> HIDE DEF T, m
    <3>3. \A i \in DOMAIN wire' : IF i \in DOMAIN wire THEN wire'[i] = wire[i]
                                  ELSE wire'[i] = m /\ i = Len(wire) + 1
      BY <3>2
    <3> QED BY <3>3 DEF m
  <2>2. DOMAIN wire = 1..Len(wire) /\ Len(wire) \in Nat /\ at' = at /\ at \in 0..Len(made)
        /\ \A i \in DOMAIN wire : wire[i] \in 0..Len(made)
    BY DEF MockInv, MockTypes, Edited, context
  <2>3. ASSUME NEW i \in DOMAIN wire', wire'[i] # Inject, NEW j \in 1..i - 1
        PROVE  at <= wire'[i] /\ wire'[j] <= wire'[i]
    <3>1. j \in DOMAIN wire /\ wire'[j] = wire[j]
      BY <1>1, <1>2, <1>3, <2>1, <2>2, <2>3
    <3>2. CASE i \in DOMAIN wire
      BY <2>1, <2>3, <3>1, <3>2 DEF MockInv, InOrder
    <3>3. CASE i \notin DOMAIN wire
      BY <1>1, <1>2, <2>1, <2>2, <3>1, <3>3
    <3> QED BY <3>2, <3>3
  <2>4. ASSUME NEW i \in DOMAIN wire', wire'[i] # Inject
        PROVE  at <= wire'[i]
    BY <1>1, <1>2, <2>1, <2>2, <2>4 DEF MockInv, InOrder
  <2> QED BY <2>2, <2>3, <2>4 DEF InOrder
<1>7. Withheld'
  BY DEF MockInv, Withheld, Edited, context
<1>8. Settling'
  <2>1. up' = up /\ back' = back /\ (up => wire' = Append(wire, Len(made')))
    BY <1>3 DEF Edited, Push, MockInv, MockTypes
  <2>2. up => wire' # <<>> /\ wire'[Len(wire')] = Len(made')
    BY <1>3, <2>1
  <2> QED BY <2>1, <2>2 DEF Settling
<1> QED BY <1>5, <1>6, <1>7, <1>8 DEF MockInv

\* The lists the edits of the tools make: some rules stay, one may come.
LEMMA EditsMake ==
  ASSUME MockInv, NEW kept \in SUBSET DOMAIN Rules
  PROVE  /\ Restrict(Rules, kept) \in RuleList /\ DOMAIN Restrict(Rules, kept) = kept
         /\ \A i \in kept : i < nextId
  BY MadeTyped, RuleLists DEF MockInv, MockTypes, Restrict

LEMMA WithMakes ==
  ASSUME MockInv, NEW list \in RuleList, \A i \in DOMAIN list : i < nextId,
         NEW rule \in Rule, Edits < MaxEdits
  PROVE  /\ nextId \in MockIds
         /\ With(list, rule) \in RuleList
         /\ DOMAIN With(list, rule) = DOMAIN list \union {nextId}
         /\ \A i \in DOMAIN With(list, rule) : i < nextId + 1
<1>1. nextId \in MockIds
  BY MadeTyped, MockAssumption DEF MockInv, MockTypes, Edits, MockIds
<1>2. DOMAIN list \subseteq MockIds /\ list \in [DOMAIN list -> Rule]
  BY RuleLists
<1>3. /\ DOMAIN With(list, rule) = DOMAIN list \union {nextId}
      /\ With(list, rule) \in [DOMAIN With(list, rule) -> Rule]
  BY <1>2 DEF With
<1>4. With(list, rule) \in RuleList
  BY <1>1, <1>2, <1>3, RuleLists
<1>5. \A i \in DOMAIN list \union {nextId} : i < nextId + 1
  BY <1>2, MadeTyped DEF MockInv, MockTypes, MockIds
<1> QED BY <1>1, <1>3, <1>4, <1>5

LEMMA EditKeeps ==
  ASSUME MockInv, \/ \E times \in Times, op \in BOOLEAN : AddRule(times, op)
                  \/ \E id \in MockIds : RemoveRule(id)
                  \/ ClearRules
                  \/ \E on \in BOOLEAN : NetworkCondition(on)
  PROVE  MockInv'
<1>1. nextId \in Nat /\ Rules \in RuleList /\ \A i \in DOMAIN Rules : i < nextId
  BY MadeTyped DEF MockInv, MockTypes
<1>2. ASSUME NEW times \in Times, NEW op \in BOOLEAN, AddRule(times, op)
      PROVE  MockInv'
  <2>1. New("mock", times, op) \in Rule
    BY DEF New, Rule
  <2> QED BY <1>1, <1>2, <2>1, WithMakes, EditedKeeps DEF AddRule, Edited
<1>3. ASSUME NEW id \in MockIds, RemoveRule(id)
      PROVE  MockInv'
  BY <1>1, <1>3, EditsMake, EditedKeeps DEF RemoveRule
<1>4. CASE ClearRules
  <2>1. NoRules \in RuleList /\ DOMAIN NoRules = {}
    BY RuleLists DEF NoRules
  <2> QED BY <1>1, <1>4, <2>1, EditedKeeps DEF ClearRules
<1>5. ASSUME NEW on \in BOOLEAN, NetworkCondition(on)
      PROVE  MockInv'
  <2> DEFINE others == Restrict(Rules, {i \in DOMAIN Rules : Rules[i].owner # "condition"})
             rule == New("condition", 0, FALSE)
  <2>1. others \in RuleList /\ \A i \in DOMAIN others : i < nextId
    BY EditsMake
  <2>2. rule \in Rule
    BY DEF New, Rule
  <2> HIDE DEF others, rule
  <2>3. CASE on
    <3>1. Edited(With(others, rule)) /\ nextId' = nextId + 1
      BY <1>5, <2>3 DEF NetworkCondition, others, rule
    <3> QED BY <1>1, <2>1, <2>2, <3>1, WithMakes, EditedKeeps DEF Edited
  <2>4. CASE ~on
    <3>1. Edited(others) /\ nextId' = nextId
      BY <1>5, <2>4 DEF NetworkCondition, others
    <3> QED BY <1>1, <2>1, <3>1, EditedKeeps
  <2> QED BY <2>3, <2>4
<1> QED BY <1>2, <1>3, <1>4, <1>5

-----------------------------------------------------------------------------
(* The app, and the connection.                                              *)

LEMMA EvaluatesKeeps ==
  ASSUME MockInv, AppEvaluates
  PROVE  MockInv'
<1>1. /\ wire \in Seq(0..Len(made)) /\ wire # <<>> /\ wire' = Tail(wire)
      /\ Head(wire) = wire[1] /\ Len(wire) \in Nat
      /\ UNCHANGED <<made, nextId, back, up>>
  BY DEF MockInv, MockTypes, AppEvaluates, server
<1>2. /\ wire' \in Seq(0..Len(made)) /\ Len(wire') = Len(wire) - 1
      /\ \A i \in DOMAIN wire' : wire'[i] = wire[i + 1] /\ i + 1 \in DOMAIN wire
      /\ DOMAIN wire = 1..Len(wire) /\ DOMAIN wire' = 1..Len(wire')
      /\ wire[1] \in 0..Len(made)
  BY <1>1
<1>3. CASE Head(wire) = Inject
  <2>1. UNCHANGED <<app, at>> /\ seat' \in {"new", seat} /\ (seat' # "new" => seat' = seat)
    BY <1>3 DEF AppEvaluates
  <2>2. MockTypes'
    BY <1>1, <1>2, <2>1 DEF MockInv, MockTypes, Rules
  <2>3. InOrder'
    BY <1>1, <1>2, <2>1 DEF MockInv, InOrder
  <2>4. Withheld'
    BY <1>1, <2>1 DEF MockInv, Withheld
  <2>5. Settling'
    <3>1. CASE up
      <4>1. wire[Len(wire)] = Len(made) /\ Len(made) # 0
        BY <1>1, <3>1, MadeTyped DEF MockInv, Settling
      <4>2. Len(wire) \in DOMAIN wire /\ Len(wire) # 1
        BY <1>1, <1>2, <1>3, <4>1 DEF Inject
      <4>3. wire' # <<>> /\ wire'[Len(wire')] = Len(made)
        BY <1>1, <1>2, <4>1, <4>2
      <4> QED BY <1>1, <4>3 DEF Settling
    <3>2. CASE ~up
      BY <1>1, <3>2 DEF Settling
    <3> QED BY <3>1, <3>2
  <2> QED BY <2>2, <2>3, <2>4, <2>5 DEF MockInv
<1>4. CASE Head(wire) # Inject
  <2> DEFINE n == Head(wire)
  <2>1. n \in 1..Len(made) /\ made[n] \in RuleList /\ n = wire[1]
    BY <1>1, <1>2, <1>4, MadeTyped DEF MockInv, Inject
  <2>2. app' = AfterPush(made[n]) /\ at' = n /\ seat' = seat
    BY <1>4 DEF AppEvaluates
  <2> HIDE DEF n
  <2>3. /\ DOMAIN app' = Supported(made[n]) /\ DOMAIN app' \subseteq DOMAIN made[n]
        /\ app' \in [DOMAIN app' -> AppEntry]
        /\ \A i \in DOMAIN app' : app'[i].rule = made[n][i]
    BY <2>1, <2>2, RuleLists DEF MockInv, MockTypes, AfterPush, Supported, AppEntry
  <2>4. DOMAIN app' \subseteq MockIds
    BY <2>1, <2>3, RuleLists
  <2>5. MockTypes'
    BY <1>1, <1>2, <2>1, <2>2, <2>3, <2>4 DEF MockInv, MockTypes, Rules
  <2>6. InOrder'
    BY <1>1, <1>2, <2>1, <2>2 DEF MockInv, InOrder
  <2>7. Withheld'
    BY <1>1, <2>2, <2>3 DEF MockInv, Withheld, Supported
  <2>8. Settling'
    <3>1. CASE wire' # <<>>
      <4>1. wire'[Len(wire')] = wire[Len(wire)]
        BY <1>1, <1>2, <3>1
      <4> QED BY <1>1, <3>1, <4>1 DEF MockInv, Settling
    <3>2. CASE wire' = <<>> /\ n = Len(made)
      <4>1. seat = "new" => DOMAIN app' = DOMAIN Rules
        BY <2>3, <3>2 DEF Supported, Rules
      <4>2. seat = "new" => Answering' = Rules'
        BY <1>1, <2>1, <2>3, <3>2, <4>1, RuleLists DEF Answering, Rules
      <4> QED BY <2>2, <3>2, <4>2 DEF Settling
    <3>3. CASE wire' = <<>> /\ n # Len(made)
      <4>1. wire[Len(wire)] # Len(made)
        BY <1>1, <1>2, <2>1, <3>3
      <4>2. ~up
        BY <1>1, <4>1 DEF MockInv, Settling
      <4> QED BY <1>1, <4>2 DEF Settling
    <3> QED BY <3>1, <3>2, <3>3
  <2> QED BY <2>5, <2>6, <2>7, <2>8 DEF MockInv
<1> QED BY <1>3, <1>4

LEMMA AppendKeeps ==
  ASSUME NEW T, NEW s \in Seq(T), NEW e \in T
  PROVE  /\ Append(s, e) \in Seq(T) /\ DOMAIN Append(s, e) = 1..Len(s) + 1
         /\ \A k \in DOMAIN s : k \in DOMAIN Append(s, e) /\ Append(s, e)[k] = s[k]
         /\ Append(s, e)[Len(s) + 1] = e
  OBVIOUS

LEMMA MatchKeeps ==
  ASSUME MockInv, NEW query \in BOOLEAN, MatchRule(query)
  PROVE  MockInv'
<1>1. PICK i \in DOMAIN app :
         /\ app' = IF app[i].rule.times > 0 THEN [app EXCEPT ![i].used = @ + 1] ELSE app
         /\ back' = IF up THEN Append(back, [fired |-> i]) ELSE back
         /\ UNCHANGED <<made, nextId, up, wire, seat, at>>
  BY DEF MatchRule, server
<1>2. /\ DOMAIN app' = DOMAIN app
      /\ app' \in [DOMAIN app' -> AppEntry]
      /\ \A k \in DOMAIN app : app'[k].rule = app[k].rule
  <2>1. app \in [DOMAIN app -> AppEntry]
    BY DEF MockInv, MockTypes
  <2>2. [app[i] EXCEPT !.used = @ + 1] \in AppEntry
        /\ [app[i] EXCEPT !.used = @ + 1].rule = app[i].rule
    BY <2>1 DEF AppEntry
  <2>3. CASE app' = [app EXCEPT ![i] = [app[i] EXCEPT !.used = @ + 1]]
    BY <2>1, <2>2, <2>3
  <2>4. CASE app' = app
    BY <2>1, <2>4
  <2> QED BY <1>1, <2>3, <2>4
<1>3. [fired |-> i] \in [fired : 0..MaxEdits]
  BY <1>1, MockAssumption DEF MockInv, MockTypes, MockIds
<1>4. back' \in Seq([fired : 0..MaxEdits])
  <2>1. back \in Seq([fired : 0..MaxEdits])
    BY DEF MockInv, MockTypes
  <2>2. CASE back' = Append(back, [fired |-> i])
    BY <1>3, <2>1, <2>2, AppendKeeps
  <2>3. CASE back' = back
    BY <2>1, <2>3
  <2> QED BY <1>1, <2>2, <2>3
<1>5. Answering' = Answering
  BY <1>2 DEF Answering
<1>6. MockTypes'
  BY <1>1, <1>2, <1>4 DEF MockInv, MockTypes, Rules
<1>7. InOrder' /\ Withheld'
  BY <1>1, <1>2 DEF MockInv, InOrder, Withheld
<1>8. Settling'
  BY <1>1, <1>4, <1>5 DEF MockInv, Settling, Rules
<1> QED BY <1>6, <1>7, <1>8 DEF MockInv

LEMMA ContextKeeps ==
  ASSUME MockInv, ContextCreated
  PROVE  MockInv'
<1>1. /\ seat' = "none" /\ app' = NoRules /\ at' = 0
      /\ back' = (IF up THEN Append(back, [fired |-> 0]) ELSE back)
      /\ UNCHANGED <<made, nextId, up, wire>>
  BY DEF ContextCreated, server
<1>2. [fired |-> 0] \in [fired : 0..MaxEdits]
  BY MockAssumption
<1>3. back' \in Seq([fired : 0..MaxEdits])
  <2>1. back \in Seq([fired : 0..MaxEdits])
    BY DEF MockInv, MockTypes
  <2>2. CASE back' = Append(back, [fired |-> 0])
    BY <1>2, <2>1, <2>2, AppendKeeps
  <2>3. CASE back' = back
    BY <2>1, <2>3
  <2> QED BY <1>1, <2>2, <2>3
<1>4. MockTypes'
  BY <1>1, <1>3, MadeTyped DEF MockInv, MockTypes, NoRules, Rules
<1>5. InOrder'
  BY <1>1 DEF MockInv, MockTypes, InOrder
<1>6. Withheld' /\ Settling'
  BY <1>1 DEF MockInv, Withheld, Settling, NoRules
<1> QED BY <1>4, <1>5, <1>6 DEF MockInv

LEMMA ConcatHolds ==
  ASSUME NEW T, NEW s \in Seq(T), NEW t \in Seq(T)
  PROVE  /\ s \o t \in Seq(T) /\ Len(s \o t) = Len(s) + Len(t)
         /\ \A i \in 1..Len(s) : (s \o t)[i] = s[i]
         /\ \A k \in 1..Len(t) : (s \o t)[Len(s) + k] = t[k]
<1>1. s \o t \in Seq(T) /\ Len(s \o t) = Len(s) + Len(t)
  OBVIOUS
<1>2. \A i \in 1..Len(s) : (s \o t)[i] = s[i]
  OBVIOUS
<1>3. ASSUME NEW k \in 1..Len(t)
      PROVE  (s \o t)[Len(s) + k] = t[k]
  <2>1. Len(s) \in Nat /\ Len(t) \in Nat
    OBVIOUS
  <2>2. Len(s) + k \in 1..Len(s) + Len(t) /\ ~(Len(s) + k <= Len(s)) /\ Len(s) + k - Len(s) = k
    BY <2>1
  <2> QED BY <2>1, <2>2
<1> QED BY <1>1, <1>2, <1>3

\* A greeting at the end of what is under way.
LEMMA GreetingKeeps ==
  ASSUME MockTypes, NEW q \in Seq(0..Len(made)),
         \A i \in DOMAIN q : q[i] # Inject =>
             at <= q[i] /\ \A j \in 1..i - 1 : q[j] <= q[i],
         wire' = q \o Greeting(Len(made)), UNCHANGED <<made, at>>
  PROVE  /\ wire' \in Seq(0..Len(made)) /\ InOrder'
         /\ wire' # <<>> /\ wire'[Len(wire')] = Len(made)
<1>1. Len(made) \in 0..Len(made) /\ at <= Len(made)
  BY MadeTyped DEF MockTypes
<1>2. /\ Greeting(Len(made)) \in Seq(0..Len(made)) /\ Len(Greeting(Len(made))) = 2
      /\ Greeting(Len(made))[1] = 0 /\ Greeting(Len(made))[2] = Len(made)
  BY <1>1 DEF Greeting, Push, Inject
<1>3. /\ wire' \in Seq(0..Len(made)) /\ Len(wire') = Len(q) + 2
      /\ \A i \in 1..Len(q) : wire'[i] = q[i]
      /\ wire'[Len(q) + 1] = 0 /\ wire'[Len(q) + 2] = Len(made)
  <2> DEFINE g == Greeting(Len(made))
             T == 0..Len(made)
  <2>1. q \in Seq(T) /\ g \in Seq(T) /\ wire' = q \o g
        /\ Len(g) = 2 /\ g[1] = 0 /\ g[2] = Len(made)
    BY <1>2
  <2> HIDE DEF g, T
  <2>2. /\ wire' \in Seq(T) /\ Len(wire') = Len(q) + Len(g)
        /\ \A i \in 1..Len(q) : wire'[i] = q[i]
        /\ \A k \in 1..Len(g) : wire'[Len(q) + k] = g[k]
    <3>1. q \in Seq(T) /\ g \in Seq(T)
      BY <2>1
    <3>2. q \o g \in Seq(T) /\ Len(q \o g) = Len(q) + Len(g)
      BY <3>1, ConcatHolds
    <3>3. \A i \in 1..Len(q) : (q \o g)[i] = q[i]
      BY <3>1, ConcatHolds
    <3>4. \A k \in 1..Len(g) : (q \o g)[Len(q) + k] = g[k]
      BY <3>1, ConcatHolds
    <3> QED BY <2>1, <3>2, <3>3, <3>4
  <2>3. wire'[Len(q) + 1] = g[1] /\ wire'[Len(q) + 2] = g[2]
    BY <2>1, <2>2
  <2> QED BY <2>1, <2>2, <2>3 DEF T
<1>4. InOrder'
  <2>1. \A i \in 1..Len(wire') : wire'[i] \in 0..Len(made)
    BY <1>3
  <2>2. ASSUME NEW i \in DOMAIN wire', wire'[i] # Inject
        PROVE  at <= wire'[i] /\ \A j \in 1..i - 1 : wire'[j] <= wire'[i]
    <3>1. i \in 1..Len(q) + 2 /\ i # Len(q) + 1
      BY <1>3, <2>2 DEF Inject
    <3>2. CASE i \in 1..Len(q)
      <4>1. i \in DOMAIN q /\ q[i] # Inject /\ wire'[i] = q[i]
        BY <1>3, <2>2, <3>2
      <4>2. at <= q[i] /\ \A j \in 1..i - 1 : q[j] <= q[i]
        BY <4>1
      <4>3. ASSUME NEW j \in 1..i - 1
            PROVE  j \in 1..Len(q) /\ wire'[j] = q[j]
        <5>1. j \in 1..Len(q)
          BY <3>2
        <5> QED BY <1>3, <5>1
      <4> QED BY <4>1, <4>2, <4>3
    <3>3. CASE i = Len(q) + 2
      BY <1>1, <1>3, <2>1, <3>3
    <3> QED BY <3>1, <3>2, <3>3
  <2> QED BY <2>2 DEF InOrder
<1> QED BY <1>3, <1>4

LEMMA HearsKeeps ==
  ASSUME MockInv, ServerHears \/ EventLost
  PROVE  MockInv'
<1>1. /\ back # <<>> /\ back' = Tail(back) /\ back \in Seq([fired : 0..MaxEdits])
      /\ UNCHANGED <<made, nextId, up, seat, app, at>>
  BY DEF ServerHears, EventLost, server, context, MockInv, MockTypes
<1>2. back' \in Seq([fired : 0..MaxEdits])
  BY <1>1
<1>3. CASE ServerHears /\ Head(back).fired = 0
  <2>1. wire' = wire \o Greeting(Len(made))
    BY <1>3 DEF ServerHears
  <2>2. /\ wire' \in Seq(0..Len(made)) /\ InOrder'
        /\ wire' # <<>> /\ wire'[Len(wire')] = Len(made)
    BY <1>1, <2>1, GreetingKeeps DEF MockInv, MockTypes, InOrder
  <2> QED BY <1>1, <1>2, <2>2 DEF MockInv, MockTypes, Rules, Withheld, Settling
<1>4. CASE EventLost \/ Head(back).fired # 0
  <2>1. wire' = wire
    BY <1>4 DEF ServerHears, EventLost
  <2> QED BY <1>1, <1>2, <2>1
          DEF MockInv, MockTypes, Rules, InOrder, Withheld, Settling, Answering
<1> QED BY <1>3, <1>4

LEMMA DropKeeps ==
  ASSUME MockInv, Disconnect \/ Connect \/ HandlerAttached
  PROVE  MockInv'
<1>1. CASE Disconnect
  <2>1. /\ up' = FALSE /\ wire' = <<>> /\ back' = <<>>
        /\ UNCHANGED <<made, nextId, seat, app, at>>
    BY <1>1 DEF Disconnect, server, context
  <2>2. wire' \in Seq(0..Len(made')) /\ back' \in Seq([fired : 0..MaxEdits])
    BY <2>1
  <2>3. MockTypes'
    BY <2>1, <2>2 DEF MockInv, MockTypes, Rules
  <2> QED BY <2>1, <2>3 DEF MockInv, InOrder, Withheld, Settling
<1>2. CASE Connect
  <2>1. up' = TRUE /\ wire' = Greeting(Len(made)) /\ UNCHANGED <<made, nextId, back, seat, app, at>>
    BY <1>2 DEF Connect, server, context
  <2>2. <<>> \in Seq(0..Len(made)) /\ wire' = <<>> \o Greeting(Len(made))
    <3>1. Greeting(Len(made)) \in Seq(Nat)
      BY MadeTyped DEF Greeting, Push, Inject, MockInv
    <3>2. \A g \in Seq(Nat) : <<>> \o g = g
      OBVIOUS
    <3> QED BY <2>1, <3>1, <3>2
  <2>3. /\ wire' \in Seq(0..Len(made)) /\ InOrder'
        /\ wire' # <<>> /\ wire'[Len(wire')] = Len(made)
    <3> DEFINE q == <<>>
    <3>1. /\ q \in Seq(0..Len(made)) /\ wire' = q \o Greeting(Len(made))
          /\ \A i \in DOMAIN q : q[i] # Inject =>
                at <= q[i] /\ \A j \in 1..i - 1 : q[j] <= q[i]
      BY <2>2
    <3> HIDE DEF q
    <3> QED BY <2>1, <3>1, GreetingKeeps DEF MockInv
  <2> QED BY <2>1, <2>3 DEF MockInv, MockTypes, Rules, Withheld, Settling
<1>3. CASE HandlerAttached
  BY <1>3 DEF HandlerAttached, server, context, MockInv, MockTypes, Rules, InOrder, Withheld,
              Settling, Answering
<1> QED BY <1>1, <1>2, <1>3

LEMMA MockStarts == MockInit => MockInv
<1> SUFFICES ASSUME MockInit PROVE MockInv
  OBVIOUS
<1>1. made = <<NoRules>> /\ NoRules \in RuleList /\ DOMAIN NoRules = {}
  BY RuleLists DEF MockInit, NoRules
<1>2. made \in Seq(RuleList) /\ Len(made) = 1 /\ Rules = NoRules
  BY <1>1 DEF Rules
<1>3. /\ wire \in Seq(0..1) /\ Len(wire) = 2 /\ wire[1] = 0 /\ wire[2] = 1
      /\ back \in Seq([fired : 0..MaxEdits])
  BY DEF MockInit, Greeting, Push, Inject
<1>4. MockTypes
  BY <1>1, <1>2, <1>3 DEF MockInit, MockTypes
<1>5. InOrder
  BY <1>3 DEF MockInit, InOrder, Inject
<1>6. Withheld /\ Settling
  BY <1>1, <1>2, <1>3 DEF MockInit, Withheld, Settling
<1> QED BY <1>4, <1>5, <1>6 DEF MockInv

LEMMA MockKeeps == MockInv /\ [MockNext]_mockVars => MockInv'
<1> SUFFICES ASSUME MockInv, [MockNext]_mockVars PROVE MockInv'
  OBVIOUS
<1>1. CASE UNCHANGED mockVars
  BY <1>1 DEF mockVars, MockInv, MockTypes, Rules, InOrder, Withheld, Settling,
              Answering
<1>2. CASE MockNext
  BY <1>2, EditKeeps, EvaluatesKeeps, MatchKeeps, ContextKeeps, HearsKeeps, DropKeeps
     DEF MockNext
<1> QED BY <1>1, <1>2

\* The inductive invariant: lists arrive in the order they were sent, an older
\* interceptor never holds a rule on an operation, and a connected app has the
\* server's rules or will.
THEOREM MockInvariant == MockSpec => []MockInv
  BY MockStarts, MockKeeps, PTL DEF MockSpec

\* When nothing is under way, a connected app answers from the server's rules.
THEOREM MockSettles == MockSpec => []SettledIsSame
<1>1. MockInv => SettledIsSame
  BY DEF MockInv, MockTypes, Settling, SettledIsSame
<1> QED BY MockInvariant, <1>1, PTL

-----------------------------------------------------------------------------
(* Every step is one of the table's, or none.                                *)

LEMMA TableStarts == MockInit => Table!TableInit
<1> SUFFICES ASSUME MockInit PROVE Table!TableInit
  OBVIOUS
<1>1. Answering = NoRules /\ [i \in DOMAIN app |-> app[i].used] = NoRules
  BY DEF MockInit, Answering, NoRules
<1> QED BY <1>1 DEF MockInit, Table!TableInit, Table!Nothing, NoRules

\* An edit keeps some of the rules and adds at most one behind them.
LEMMA EditImplements ==
  ASSUME MockInv, \/ \E times \in Times, op \in BOOLEAN : AddRule(times, op)
                  \/ \E id \in MockIds : RemoveRule(id)
                  \/ ClearRules
                  \/ \E on \in BOOLEAN : NetworkCondition(on)
  PROVE  Table!Edit
<1>1. Rules = Table!Latest
  BY DEF Rules, Table!Latest
<1>2. nextId \in Nat /\ Rules \in RuleList /\ (\A i \in DOMAIN Rules : i < nextId)
  BY MadeTyped DEF MockInv, MockTypes
<1>3. ASSUME NEW kept \in SUBSET DOMAIN Rules, Edited(Restrict(Rules, kept))
      PROVE  Table!Edit
  BY <1>1, <1>3 DEF Edited, context, Table!Edit, Answering, Restrict, Table!Restrict
<1>4. ASSUME NEW kept \in SUBSET DOMAIN Rules, NEW rule \in Rule,
             Edited(With(Restrict(Rules, kept), rule))
      PROVE  Table!Edit
  <2>1. nextId \in MockIds
    BY <1>2, <1>4, EditsMake, WithMakes DEF Edited
  <2>2. With(Restrict(Rules, kept), rule)
          = [i \in kept \union {nextId} |-> IF i = nextId THEN rule ELSE Rules[i]]
    BY DEF With, Restrict
  <2> DEFINE list == [i \in kept \union {nextId} |->
                        IF i = nextId THEN rule ELSE Table!Latest[i]]
  <2>3. made' = Append(made, list) /\ UNCHANGED <<at, app, seat>>
    BY <1>1, <1>4, <2>2 DEF Edited, context
  <2>4. UNCHANGED <<at, Answering, [i \in DOMAIN app |-> app[i].used], seat = "new">>
    BY <2>3 DEF Answering
  <2>5. \A i \in DOMAIN Table!Latest : i < nextId
    BY <1>1, <1>2
  <2> HIDE DEF Table!Latest
  <2>6. \E id \in MockIds, r \in Rule :
          /\ \A i \in DOMAIN Table!Latest : i < id
          /\ made' = Append(made, [i \in kept \union {id} |->
                                     IF i = id THEN r ELSE Table!Latest[i]])
    BY <2>1, <2>3, <2>5
  <2>7. kept \in SUBSET DOMAIN Table!Latest
    BY <1>1
  <2> QED BY <2>4, <2>6, <2>7 DEF Table!Edit
<1>5. Rules = Restrict(Rules, DOMAIN Rules) /\ NoRules = Restrict(Rules, {})
  <2>1. Rules \in [DOMAIN Rules -> Rule]
    BY <1>2, RuleLists
  <2>2. Rules = [i \in DOMAIN Rules |-> Rules[i]]
    BY <2>1
  <2> QED BY <2>2 DEF Restrict, NoRules
<1>6. ASSUME NEW times \in Times, NEW op \in BOOLEAN, AddRule(times, op)
      PROVE  Table!Edit
  <2>1. New("mock", times, op) \in Rule
    BY DEF New, Rule
  <2>2. Edited(With(Restrict(Rules, DOMAIN Rules), New("mock", times, op)))
    BY <1>5, <1>6 DEF AddRule
  <2> QED BY <1>4, <2>1, <2>2
<1>7. ASSUME NEW id \in MockIds, RemoveRule(id)
      PROVE  Table!Edit
  BY <1>3, <1>7 DEF RemoveRule
<1>8. CASE ClearRules
  BY <1>3, <1>5, <1>8 DEF ClearRules
<1>9. ASSUME NEW on \in BOOLEAN, NetworkCondition(on)
      PROVE  Table!Edit
  <2>1. New("condition", 0, FALSE) \in Rule
    BY DEF New, Rule
  <2> QED BY <1>3, <1>4, <1>9, <2>1 DEF NetworkCondition
<1> QED BY <1>6, <1>7, <1>8, <1>9

\* Evaluating what was sent takes over a list no older than the app's, or tells
\* it how to match an operation, or changes nothing of the promise.
LEMMA EvaluatesImplements ==
  ASSUME MockInv, AppEvaluates
  PROVE  [Table!TableNext]_(Table!tableVars)
<1> DEFINE spentOf == [i \in DOMAIN app |-> app[i].used]
<1>1. CASE Head(wire) = Inject
  <2>1. UNCHANGED <<made, app, at>> /\ seat' = (IF seat = "none" THEN "new" ELSE seat)
    BY <1>1 DEF AppEvaluates, server
  <2>2. UNCHANGED <<made, at, Answering, spentOf>>
    BY <2>1 DEF Answering
  <2>3. CASE seat = "none"
    <3>1. (seat' = "new") = TRUE
      BY <2>1, <2>3
    <3> QED BY <2>2, <3>1 DEF Table!TableNext, Table!Learn
  <2>4. CASE seat # "none"
    BY <2>1, <2>2, <2>4 DEF Table!tableVars
  <2> QED BY <2>3, <2>4
<1>2. CASE Head(wire) # Inject
  <2> DEFINE n == Head(wire)
  <2>1. n = wire[1] /\ 1 \in DOMAIN wire /\ wire[1] \in 0..Len(made) /\ at \in 0..Len(made)
    BY DEF MockInv, MockTypes, AppEvaluates
  <2>2. n \in at..Len(made) \ {0}
    BY <1>2, <2>1 DEF MockInv, InOrder, Inject
  <2>3. made[n] \in RuleList
    BY <2>2, MadeTyped DEF MockInv, MockTypes
  <2>4. app' = AfterPush(made[n]) /\ at' = n /\ UNCHANGED <<made, seat>>
    BY <1>2 DEF AppEvaluates, server
  <2> HIDE DEF n
  <2>5. Answering' = [i \in Supported(made[n]) |-> made[n][i]]
    BY <2>4 DEF Answering, AfterPush
  <2>6. made[n] = [i \in DOMAIN made[n] |-> made[n][i]]
    BY <2>3, RuleLists
  <2>7. [i \in Supported(made[n]) |-> made[n][i]] = Table!Honoured(made[n])
    <3>1. CASE seat = "new"
      BY <2>6, <3>1 DEF Supported, Table!Honoured
    <3>2. CASE seat # "new"
      <4>1. Supported(made[n]) = {i \in DOMAIN made[n] : ~made[n][i].op}
        BY <3>2 DEF Supported
      <4> QED BY <3>2, <4>1 DEF Table!Honoured, Restrict, Table!Restrict
    <3> QED BY <3>1, <3>2
  <2>8. DOMAIN Answering' = Supported(made[n]) /\ DOMAIN app' = Supported(made[n])
    BY <2>4, <2>5 DEF AfterPush
  <2>9. spentOf' = [i \in DOMAIN Answering' |-> IF i \in DOMAIN spentOf THEN spentOf[i] ELSE 0]
    BY <2>4, <2>8 DEF AfterPush
  <2>10. Answering' = Table!Honoured(made[n]) /\ at' = n
         /\ UNCHANGED <<made, seat = "new">>
    BY <2>4, <2>5, <2>7
  <2> HIDE DEF spentOf
  <2>11. Table!Sync
    BY <2>2, <2>9, <2>10 DEF Table!Sync, spentOf
  <2> QED BY <2>11 DEF Table!TableNext
<1> QED BY <1>1, <1>2

\* A request meets the rule the table would have it meet: the older interceptor
\* matches operations blindly, but holds no rule on one.
LEMMA MatchImplements ==
  ASSUME MockInv, NEW query \in BOOLEAN, MatchRule(query)
  PROVE  Table!Fire(query)
<1> DEFINE spentOf == [i \in DOMAIN app |-> app[i].used]
           Hits(k) == Table!Fresh(k) /\ (Answering[k].op => query)
<1>1. PICK i \in DOMAIN app :
         /\ RuleMatches(app[i], query)
         /\ \A j \in DOMAIN app : j < i => ~RuleMatches(app[j], query)
         /\ app' = IF app[i].rule.times > 0 THEN [app EXCEPT ![i].used = @ + 1] ELSE app
         /\ UNCHANGED <<made, seat, at>>
  BY DEF MatchRule, server
<1>2. app \in [DOMAIN app -> AppEntry] /\ DOMAIN Answering = DOMAIN app
      /\ DOMAIN spentOf = DOMAIN app
      /\ \A k \in DOMAIN app : Answering[k] = app[k].rule /\ spentOf[k] = app[k].used
  BY DEF MockInv, MockTypes, Answering
<1>3. \A k \in DOMAIN app : Hits(k) <=> RuleMatches(app[k], query)
  <2>1. ASSUME NEW k \in DOMAIN app
        PROVE  app[k].rule.op => (query \/ seat = "old") <=> query
    BY DEF MockInv, Withheld
  <2> QED BY <1>2, <2>1 DEF RuleMatches, Table!Fresh, Answering, MockInv, Withheld
<1>4. app[i].rule.times \in Nat /\ app[i].rule \in Rule
  BY <1>2, MockAssumption DEF AppEntry, Rule
<1>5. Answering' = Answering
      /\ spentOf' = IF Answering[i].times = 0 THEN spentOf ELSE [spentOf EXCEPT ![i] = @ + 1]
  <2>1. CASE app[i].rule.times = 0
    <3>1. app' = app
      BY <1>1, <1>4, <2>1
    <3> QED BY <1>2, <2>1, <3>1 DEF Answering
  <2>2. CASE app[i].rule.times # 0
    <3>1. app' = [app EXCEPT ![i] = [app[i] EXCEPT !.used = @ + 1]]
      BY <1>1, <1>4, <2>2
    <3>2. /\ [app[i] EXCEPT !.used = @ + 1].rule = app[i].rule
          /\ [app[i] EXCEPT !.used = @ + 1].used = app[i].used + 1
      BY <1>2 DEF AppEntry
    <3>3. DOMAIN app' = DOMAIN app /\ \A k \in DOMAIN app :
            /\ app'[k].rule = app[k].rule
            /\ app'[k].used = IF k = i THEN app[k].used + 1 ELSE app[k].used
      BY <1>2, <3>1, <3>2
    <3>4. Answering' = Answering
      BY <3>3 DEF Answering
    <3>5. spentOf' = [spentOf EXCEPT ![i] = @ + 1]
      BY <3>3
    <3> QED BY <1>2, <2>2, <3>4, <3>5
  <2> QED BY <2>1, <2>2
<1>6. UNCHANGED <<made, at, Answering, seat = "new">>
  BY <1>1, <1>5
<1>7. Hits(i) /\ i \in DOMAIN Answering /\ \A j \in DOMAIN Answering : j < i => ~Hits(j)
  BY <1>1, <1>2, <1>3
<1> QED BY <1>5, <1>6, <1>7 DEF Table!Fire

\* A new context is a new run; the rest of what may happen is none of the table's.
LEMMA ContextImplements ==
  ASSUME ContextCreated
  PROVE  Table!Restart
<1>1. seat' = "none" /\ app' = NoRules /\ at' = 0 /\ UNCHANGED made
  BY DEF ContextCreated, server
<1>2. Answering' = NoRules /\ [i \in DOMAIN app |-> app[i].used]' = NoRules
  BY <1>1 DEF Answering, NoRules
<1>3. (seat' = "new") = FALSE
  BY <1>1
<1> QED BY <1>1, <1>2, <1>3 DEF Table!Restart, Table!Nothing, NoRules

LEMMA OthersStutter ==
  ASSUME ServerHears \/ EventLost \/ Disconnect \/ Connect \/ HandlerAttached \/ UNCHANGED mockVars
  PROVE  UNCHANGED Table!tableVars
<1>1. UNCHANGED <<made, at, app, seat>>
  BY DEF ServerHears, EventLost, Disconnect, Connect, HandlerAttached, mockVars, server, context
<1> QED BY <1>1 DEF Table!tableVars, Answering

LEMMA StepsImplement == MockInv /\ [MockNext]_mockVars => [Table!TableNext]_(Table!tableVars)
<1> SUFFICES ASSUME MockInv, [MockNext]_mockVars PROVE [Table!TableNext]_(Table!tableVars)
  OBVIOUS
<1>1. CASE \/ \E times \in Times, op \in BOOLEAN : AddRule(times, op)
           \/ \E id \in MockIds : RemoveRule(id)
           \/ ClearRules
           \/ \E on \in BOOLEAN : NetworkCondition(on)
  BY <1>1, EditImplements DEF Table!TableNext
<1>2. CASE AppEvaluates
  BY <1>2, EvaluatesImplements
<1>3. CASE \E query \in BOOLEAN : MatchRule(query)
  BY <1>3, MatchImplements DEF Table!TableNext
<1>4. CASE ContextCreated
  BY <1>4, ContextImplements DEF Table!TableNext
<1>5. CASE ServerHears \/ EventLost \/ Disconnect \/ Connect \/ HandlerAttached \/ UNCHANGED mockVars
  BY <1>5, OthersStutter
<1> QED BY <1>1, <1>2, <1>3, <1>4, <1>5 DEF MockNext

\* Pushing whole lists over the wire implements the table of rules, whatever is
\* dropped, reloaded or still under way.
THEOREM MockImplements == MockSpec => MocksAsPromised
<1>1. MockInit => Table!TableInit
  BY TableStarts
<1>2. MockInv /\ [MockNext]_mockVars => [Table!TableNext]_(Table!tableVars)
  BY StepsImplement
<1> QED BY <1>1, <1>2, MockInvariant, PTL DEF MockSpec, MocksAsPromised, Table!TableSpec
-----------------------------------------------------------------------------
(* Text entry.                                                             *)

(* What a field can show before a call has typed: nothing, or its letter, which
   a field that decorates shows behind its sign.  None of it is what is sent. *)
Starts == {<<>>, <<"o">>, <<"$", "o">>}
Shown  == Starts \union {Hint}          \* and what the tree says of it

Looking == {"new", "find", "again", "nbefore"}
Acting  == {"focus", "prior", "clear", "write", "restore", "read", "judge", "reclear"}
Typing  == {"nclear", "ntype", "nread", "nverdict"}

Locals  == {"pc", "pin", "focused", "previous", "masked", "snap", "polls", "retried",
            "cleared", "landed", "native"}
Report  == {"success", "path", "verified", "formatted", "restored", "why"}

ScreenOK ==
    /\ text = [x \in Fields |-> text[x]] /\ focus \in mounted \union {NoField}
    /\ mounted \in {Fields, {"g"}} /\ tag \in Nat \ {0}
    /\ events \in Nat /\ before.events \in Nat /\ before.events <= events
CallOK ==
    /\ field.controlled \in BOOLEAN /\ field.testID \in BOOLEAN /\ field.secure \in BOOLEAN
    /\ call.sent \in {Ascii, Accented} /\ call.replace \in BOOLEAN /\ call.native \in BOOLEAN
    /\ call.target \in {"name", "value", "focus"}
LocalsOK ==
    /\ DOMAIN w = Locals /\ w.pc \in Looking \union Acting \union Typing \union {"other", "done"}
    /\ w.native \in BOOLEAN /\ w.cleared \in BOOLEAN /\ w.retried \in BOOLEAN
    /\ w.landed.known \in BOOLEAN /\ DOMAIN answer = Report /\ answer.verified \in BOOLEAN

\* The tree that was kept was read before anything was typed.
SnapOK == /\ w.snap = [i \in 1..Len(w.snap) |-> w.snap[i]] /\ Len(w.snap) \in Nat
          /\ \A i \in DOMAIN w.snap : w.snap[i].text \in Shown

\* Nothing has been typed: whatever the screen does, the fields show what they did.
Untyped == \A x \in Fields : text[x] \in Starts
LooksOK ==
    w.pc \in Looking =>
        /\ Untyped /\ w.snap = <<>> /\ w.previous = Unknown /\ ~w.landed.known /\ ~w.cleared
        /\ (Calm => text = before.text)
        /\ (w.pc = "nbefore" <=> w.native)

\* What is typed goes where the focus is.
Aimed == Hid => focus = "f"

\* The call acts on f, and leaves g alone if f has taken the focus or needs none; if
\* it reaches f it knows what f showed, or nothing.
ActsOn ==
    /\ "f" \in mounted /\ w.pin \in {0, tag} /\ (call.target = "focus" => focus = "f")
    /\ \A x \in Fields : before.text[x] \in Starts
    /\ Aimed => text["g"] = before.text["g"]
    /\ w.pc \in {"focus", "prior"} => text = before.text /\ w.previous = Unknown
    /\ Reached => w.previous \in {Unknown, Read(before.text["f"])}
    /\ SnapOK
\* What was read is what f shows, or what was shown before the write.
ReadsOK == w.landed.known => w.landed.text = text["f"] \/ w.landed.text \in Starts
ActsOK ==
    w.pc \in Acting => /\ ~w.native
                       /\ (Calm => ActsOn /\ (w.pc \in {"read", "judge"} /\ Reached => ReadsOK))

\* What is typed into the focus changes no other field, and is found nowhere else.
TypesOn ==
    /\ \A x \in Fields : x # focus => text[x] \in Starts
    /\ SnapOK
    /\ w.pc \in {"nclear", "ntype"} => ~w.landed.known
    /\ w.landed.known /\ w.cleared => focus # NoField /\ EndsWith(text[focus], call.sent)
TypesOK == w.pc \in Typing => w.native /\ (Calm => TypesOn)

OtherOK == w.pc = "other" => ~w.native /\ (Calm => text = before.text)

\* The inductive invariant.
TextInv ==
    /\ ScreenOK /\ CallOK /\ LocalsOK
    /\ LooksOK /\ ActsOK /\ TypesOK /\ OtherOK
    /\ OnlyTheField /\ VerifiedHeld

-----------------------------------------------------------------------------
(* What the texts are. *)

LEMMA SuffixEndsIt ==
  ASSUME NEW s \in Seq(Letters), NEW t \in Seq(Letters), t # <<>>, EndsWith(s, t)
  PROVE  s # <<>> /\ s[Len(s)] = t[Len(t)]
<1> DEFINE k == Len(s) - Len(t) + 1
           u == SubSeq(s, k, Len(s))
<1>1. Len(s) \in Nat /\ Len(t) \in Nat \ {0} /\ Len(t) <= Len(s) /\ u = t
  BY EmptySeq DEF EndsWith
<1>2. \A i \in k..Len(s) : s[i] \in Letters
  BY <1>1, ElementOfSeq
<1>3. \A i \in 1..Len(s) - k + 1 : u[i] = s[k + i - 1]
  BY <1>1, <1>2, SubSeqProperties
<1>4. u[Len(t)] = s[Len(s)]
  <2>1. Len(t) \in 1..Len(s) - k + 1 /\ k + Len(t) - 1 = Len(s)
    BY <1>1
  <2> QED BY <1>3, <2>1
<1>5. s # <<>>
  BY <1>1, EmptySeq
<1> QED BY <1>1, <1>4, <1>5

LEMMA EndsWithItsSuffix ==
  ASSUME NEW p \in Seq(Letters), NEW t \in Seq(Letters)
  PROVE  EndsWith(p \o t, t)
<1> DEFINE s == p \o t
           k == Len(s) - Len(t) + 1
           u == SubSeq(s, k, Len(s))
<1>1. /\ s \in Seq(Letters) /\ Len(s) = Len(p) + Len(t)
      /\ \A i \in 1..Len(p) + Len(t) : s[i] = IF i <= Len(p) THEN p[i] ELSE t[i - Len(p)]
  BY ConcatProperties
<1>2. Len(p) \in Nat /\ Len(t) \in Nat
  BY LenProperties
<1> HIDE DEF s
<1>3. \A i \in k..Len(s) : s[i] \in Letters
  BY <1>1, <1>2, ElementOfSeq
<1>4. u \in Seq(Letters) /\ Len(u) = Len(t) /\ \A i \in 1..Len(t) : u[i] = s[k + i - 1]
  <2>1. /\ u \in Seq(Letters) /\ Len(u) = IF k <= Len(s) THEN Len(s) - k + 1 ELSE 0
        /\ \A i \in 1..Len(s) - k + 1 : u[i] = s[k + i - 1]
    BY <1>1, <1>2, <1>3, SubSeqProperties
  <2> QED BY <1>1, <1>2, <2>1
<1>5. \A i \in 1..Len(u) : u[i] = t[i]
  BY <1>1, <1>2, <1>4
<1>6. u = t
  BY <1>4, <1>5, SeqEqual
<1> QED BY <1>1, <1>2, <1>6 DEF EndsWith, s

LEMMA EndsWithAfterBoth ==
  ASSUME NEW d \in Seq(Letters), NEW p \in Seq(Letters), NEW t \in Seq(Letters)
  PROVE  EndsWith(d \o (p \o t), t)
<1>1. d \o (p \o t) = (d \o p) \o t /\ d \o p \in Seq(Letters)
  BY ConcatAssociative, ConcatProperties
<1> QED BY <1>1, EndsWithItsSuffix

\* Nothing shown before typing is, or ends with, what is sent.
LEMMA ShownIsNotSent ==
  ASSUME NEW s \in Shown, NEW t \in {Ascii, Accented}
  PROVE  /\ ~EndsWith(s, t) /\ EndsWith(t, t) /\ <<>> \o t = t
         /\ \A p \in Shown : /\ s # p \o t /\ s # <<"$">> \o (p \o t)
                            /\ EndsWith(p \o t, t) /\ EndsWith(<<"$">> \o (p \o t), t)
<1>1. Shown \subseteq Seq(Letters) /\ t \in Seq(Letters) /\ <<"$">> \in Seq(Letters) /\ <<>> \in Shown
  <2>1. {"o", "a", "b", "e'", "$", "hint"} \subseteq Letters
    BY DEF Letters
  <2>2. <<"o">> \in Seq(Letters) /\ <<"$", "o">> \in Seq(Letters) /\ <<"hint">> \in Seq(Letters)
    BY <2>1
  <2>3. <<"a", "b">> \in Seq(Letters) /\ <<"e'">> \in Seq(Letters) /\ <<"$">> \in Seq(Letters)
    BY <2>1
  <2>4. <<>> \in Seq(Letters)
    BY EmptySeq
  <2> QED BY <2>2, <2>3, <2>4 DEF Shown, Starts, Hint, Ascii, Accented
<1>2. t # <<>> /\ t[Len(t)] \in {"b", "e'"}
  <2>1. <<"a", "b">> # <<>> /\ Len(<<"a", "b">>) = 2 /\ <<"a", "b">>[2] = "b"
    OBVIOUS
  <2>2. <<"e'">> # <<>> /\ Len(<<"e'">>) = 1 /\ <<"e'">>[1] = "e'"
    OBVIOUS
  <2> QED BY <2>1, <2>2 DEF Ascii, Accented
<1>3. s = <<>> \/ s[Len(s)] \in {"o", "hint"}
  BY DEF Shown, Starts, Hint
<1>4. ~EndsWith(s, t)
  BY <1>1, <1>2, <1>3, SuffixEndsIt
<1>5. <<>> \o t = t
  BY <1>1, ConcatEmptySeq
<1>6. EndsWith(t, t)
  BY <1>1, <1>5, EndsWithItsSuffix
<1>7. ASSUME NEW p \in Shown
      PROVE  EndsWith(p \o t, t) /\ EndsWith(<<"$">> \o (p \o t), t)
  <2>1. p \in Seq(Letters)
    BY <1>1
  <2> QED BY <1>1, <2>1, EndsWithItsSuffix, EndsWithAfterBoth
<1> QED BY <1>4, <1>5, <1>6, <1>7

LEMMA Sizes == Cardinality({"g"}) = 1 /\ Cardinality(Fields) # 1 /\ Cardinality({}) # 1
<1>1. Cardinality({"g"}) = 1 /\ Cardinality({}) = 0
  BY FS_EmptySet, FS_Singleton
<1>2. IsFiniteSet({"f"}) /\ Cardinality({"f"}) = 1
  BY FS_Singleton
<1>3. Cardinality({"f"} \union {"g"}) = 2
  BY <1>2, FS_AddElement
<1>4. Fields = {"f"} \union {"g"}
  BY DEF Fields
<1> QED BY <1>1, <1>3, <1>4

\* A set of one number names it.
LEMMA OnlyOne ==
  ASSUME NEW n \in Nat, NEW S \in SUBSET (1..n)
  PROVE  /\ Only(S) # 0 => Only(S) \in S
         /\ \A x : S = {x} => Only(S) = x
         /\ S = {} => Only(S) = 0 /\ Cardinality(S) # 1
<1>1. IsFiniteSet(S)
  <2>1. IsFiniteSet(1..n)
    BY FS_Interval
  <2> QED BY <2>1, FS_Subset
<1>2. Cardinality(S) = 1 => \E x : S = {x}
  BY <1>1, FS_Singleton
<1> QED BY <1>2, FS_Singleton, FS_EmptySet DEF Only

\* The tree has one node for each field on the screen.
LEMMA TreeIs ==
  ASSUME mounted \in {Fields, {"g"}}
  PROVE  /\ Tree = [i \in 1..Len(Tree) |-> Tree[i]] /\ Len(Tree) \in Nat
         /\ \A i \in DOMAIN Tree : Tree[i] \in {Node("f"), Node("g")}
         /\ mounted = Fields => DOMAIN Tree = 1..2 /\ Tree[1] = Node("f") /\ Tree[2] = Node("g")
<1> DEFINE n == Len(Order)
<1>1. n \in Nat /\ DOMAIN Order = 1..n /\ \A i \in 1..n : Order[i] \in Fields
  <2>1. Order = <<"f", "g">> \/ Order = <<"g">>
    BY DEF Order
  <2>2. <<"f", "g">> \in Seq({"f", "g"}) /\ <<"g">> \in Seq({"f", "g"})
    OBVIOUS
  <2>3. Order \in Seq(Fields)
    BY <2>1, <2>2 DEF Fields
  <2> QED BY <2>3, LenProperties, ElementOfSeq
<1>2. Tree = [i \in 1..n |-> Node(Order[i])]
  BY <1>1 DEF Tree
<1>3. Tree \in Seq({Node("f"), Node("g")}) /\ Len(Tree) = n
  <2>1. \A i \in 1..n : Node(Order[i]) \in {Node("f"), Node("g")}
    BY <1>1 DEF Fields
  <2>2. Tree \in [1..n -> {Node("f"), Node("g")}]
    BY <1>2, <2>1
  <2> QED BY <1>1, <2>2, LenProperties
<1>4. mounted = Fields => DOMAIN Tree = 1..2 /\ Tree[1] = Node("f") /\ Tree[2] = Node("g")
  BY <1>2 DEF Order, Fields
<1> QED BY <1>1, <1>2, <1>3, <1>4

-----------------------------------------------------------------------------
(* What a step has to keep, by the stage it leaves the call at. *)

Base == ScreenOK /\ CallOK /\ LocalsOK

LEMMA Starting == Init => TextInv
<1> SUFFICES ASSUME Init
             PROVE  TextInv
  OBVIOUS
<1> USE DEF Init
<1>1. Base /\ w.pc = "new"
  <2>1. ScreenOK
    BY DEF ScreenOK, Fields
  <2>2. CallOK
    BY DEF CallOK, Kinds, Calls
  <2>3. LocalsOK /\ w.pc = "new"
    BY DEF LocalsOK, Idle, NoAnswer, Unknown, Locals, Report, Looking
  <2> QED BY <2>1, <2>2, <2>3 DEF Base
<1>2. Untyped
  BY DEF Untyped, Starts, Fields
<1>3. LooksOK
  BY <1>1, <1>2 DEF LooksOK, Idle, Unknown
<1>4. ActsOK /\ TypesOK /\ OtherOK /\ OnlyTheField /\ VerifiedHeld
  BY <1>1 DEF ActsOK, Acting, TypesOK, Typing, OtherOK, OnlyTheField, OthersKept, MissUntouched,
     VerifiedHeld, Done
<1> QED BY <1>1, <1>3, <1>4 DEF TextInv, Base

LEMMA LookingHolds ==
  ASSUME Base', w'.pc \in Looking, LooksOK'
  PROVE  TextInv'
BY DEF TextInv, Base, Looking, ActsOK, Acting, TypesOK, Typing, OtherOK, OnlyTheField, OthersKept, MissUntouched,
   VerifiedHeld, Done

LEMMA ActingHolds ==
  ASSUME Base', w'.pc \in Acting, ActsOK'
  PROVE  TextInv'
BY DEF TextInv, Base, LooksOK, Looking, Acting, TypesOK, Typing, OtherOK, OnlyTheField, OthersKept, MissUntouched,
   VerifiedHeld, Done

LEMMA TypingHolds ==
  ASSUME Base', w'.pc \in Typing, TypesOK'
  PROVE  TextInv'
BY DEF TextInv, Base, LooksOK, Looking, Acting, ActsOK, Typing, OtherOK, OnlyTheField, OthersKept, MissUntouched,
   VerifiedHeld, Done

LEMMA DoneHolds ==
  ASSUME Base', w'.pc = "done", OnlyTheField', VerifiedHeld'
  PROVE  TextInv'
BY DEF TextInv, Base, LooksOK, Looking, Acting, ActsOK, Typing, TypesOK, OtherOK

\* A call that ends without a verified text, and without having changed one.
LEMMA UnverifiedHolds ==
  ASSUME Base', w'.pc = "done", ~answer'.verified,
         Calm' => /\ ~w'.native /\ (answer'.path = "hid" => focus' = "f") => text'["g"] = before'.text["g"]
                  /\ answer'.why = "missed" => text' = before'.text
  PROVE  TextInv'
<1>1. OnlyTheField'
  BY DEF OnlyTheField, OthersKept, MissUntouched
<1>2. VerifiedHeld'
  BY DEF VerifiedHeld
<1> QED BY <1>1, <1>2, DoneHolds

-----------------------------------------------------------------------------
(* Resolving: while nobody touches the screen it is f the call acts on. *)

LEMMA ActsOnF ==
  ASSUME ScreenOK, CallOK, ActsOn, Found(w.pin)
  PROVE  TheField(w.pin) = "f"
<1>1. CASE Pinned(w.pin) # {}
  BY <1>1 DEF Pinned, Resolved, TheField
<1>2. CASE Pinned(w.pin) = {}
  <2>1. Resolved(w.pin) = Matches
    BY <1>2 DEF Resolved
  <2>2. Matches \subseteq {"f"}
    BY DEF Matches, CallOK, ActsOn, NoField, Controlled
  <2>3. Matches # {}
    BY <2>1, Sizes DEF Found
  <2> QED BY <2>1, <2>2, <2>3 DEF TheField
<1> QED BY <1>1, <1>2

\* A call that has not named a field acts on f only when f has the focus.
LEMMA FindsF ==
  ASSUME ScreenOK, CallOK, Found(0)
  PROVE  /\ TheField(0) \in Fields
         /\ TheField(0) = "f" => "f" \in mounted /\ (call.target = "focus" => focus = "f")
<1>1. Resolved(0) = Matches
  BY DEF Resolved, Pinned, ScreenOK
<1>2. Matches # {} /\ Cardinality(Matches) = 1
  BY <1>1, Sizes DEF Found
<1>3. Matches \subseteq mounted
  BY DEF Matches, ScreenOK, NoField
<1>4. TheField(0) \in Matches
  BY <1>1, <1>2 DEF TheField
<1>5. CASE call.target = "focus" /\ focus = NoField
  <2>1. mounted = {"g"}
    BY <1>2, <1>5, Sizes DEF Matches, ScreenOK
  <2> QED BY <1>3, <1>4, <1>5, <2>1 DEF Fields
<1>6. CASE call.target = "focus" /\ focus # NoField
  BY <1>3, <1>4, <1>6 DEF Matches, ScreenOK, Fields
<1>7. CASE call.target # "focus"
  BY <1>3, <1>4, <1>7 DEF ScreenOK, Fields
<1> QED BY <1>5, <1>6, <1>7

-----------------------------------------------------------------------------
(* The steps that look for the field. *)

LEMMA BeginsKeeps == TextInv /\ Begins => TextInv'
<1> SUFFICES ASSUME TextInv, Begins
             PROVE  TextInv'
  OBVIOUS
<1> USE DEF Begins, fixed, screen
<1>1. Base' /\ w'.pc \in Looking
  BY DEF TextInv, Base, ScreenOK, CallOK, LocalsOK, Looking, Locals
<1>2. LooksOK'
  BY <1>1 DEF TextInv, LooksOK, LocalsOK, Looking, Untyped, Calm, Locals
<1> QED BY <1>1, <1>2, LookingHolds

LEMMA FindKeeps == TextInv /\ Find => TextInv'
<1> SUFFICES ASSUME TextInv, Find
             PROVE  TextInv'
  OBVIOUS
<1> USE DEF fixed, screen
<1>1. w.pc \in Looking /\ w.pc \in {"find", "again"} /\ LooksOK /\ Base /\ ~w.native
  BY DEF Find, TextInv, Looking, Base, LooksOK
<1>2. UNCHANGED <<field, platform, call, text, focus, mounted, tag, events>>
  BY DEF Find
<1>3. CASE Found(0) /\ before' = [text |-> text, events |-> events] /\ UNCHANGED answer
           /\ \E pin \in {0, IF TheField(0) = "f" THEN tag ELSE 0} :
                w' = [w EXCEPT !.pin = pin, !.focused = focus = TheField(0),
                               !.pc = IF TheField(0) = "g" THEN "other"
                                      ELSE IF focus = "f" THEN "prior" ELSE "focus"]
  <2>1. PICK pin \in {0, IF TheField(0) = "f" THEN tag ELSE 0} :
                w' = [w EXCEPT !.pin = pin, !.focused = focus = TheField(0),
                               !.pc = IF TheField(0) = "g" THEN "other"
                                      ELSE IF focus = "f" THEN "prior" ELSE "focus"]
    BY <1>3
  <2>2. /\ w'.pc = IF TheField(0) = "g" THEN "other" ELSE IF focus = "f" THEN "prior" ELSE "focus"
        /\ w'.pin = pin /\ w'.snap = w.snap /\ w'.native = w.native /\ w'.landed = w.landed /\ w'.previous = w.previous
        /\ w'.cleared = w.cleared /\ w'.retried = w.retried /\ DOMAIN w' = Locals
    BY <1>1, <2>1 DEF Base, LocalsOK, Locals
  <2>3. TheField(0) \in Fields
        /\ (TheField(0) = "f" => "f" \in mounted /\ (call.target = "focus" => focus = "f"))
    BY <1>1, <1>3, FindsF DEF Base
  <2>4. Base'
    <3>1. ScreenOK' /\ CallOK'
      BY <1>1, <1>2, <1>3 DEF Base, ScreenOK, CallOK
    <3>2. LocalsOK'
      BY <1>1, <1>3, <2>2 DEF Base, LocalsOK, Acting
    <3> QED BY <3>1, <3>2 DEF Base
  <2>5. CASE TheField(0) = "g"
    <3>1. OtherOK' /\ w'.pc = "other"
      BY <1>1, <1>2, <1>3, <2>2, <2>5 DEF OtherOK
    <3> QED BY <2>4, <3>1 DEF TextInv, Base, LooksOK, Looking, ActsOK, Acting, TypesOK, Typing, OnlyTheField,
               OthersKept, MissUntouched, VerifiedHeld, Done
  <2>6. CASE TheField(0) = "f"
    <3>1. w'.pc \in {"prior", "focus"} /\ (w'.pc = "prior" => focus = "f") /\ w'.pin \in {0, tag}
      BY <2>2, <2>6
    <3>2. SnapOK'
      BY <1>1, <2>2 DEF SnapOK, LooksOK
    <3>3. ActsOn'
      BY <1>1, <1>2, <1>3, <2>2, <2>3, <2>6, <3>1, <3>2 DEF ActsOn, LooksOK, Untyped, Fields
    <3>4. ActsOK'
      BY <1>1, <2>2, <3>1, <3>3 DEF ActsOK
    <3> QED BY <2>4, <3>1, <3>4, ActingHolds DEF Acting
  <2> QED BY <2>3, <2>5, <2>6 DEF Fields
<1>4. CASE Goes("again") /\ UNCHANGED <<answer, before>>
  <2>1. Base' /\ w'.pc \in Looking
    BY <1>1, <1>2, <1>4 DEF Goes, Base, ScreenOK, CallOK, LocalsOK, Looking, Locals
  <2>2. LooksOK'
    BY <1>1, <1>2, <1>4, <2>1 DEF Goes, LooksOK, Base, LocalsOK, Looking, Untyped, Calm, Locals
  <2> QED BY <2>1, <2>2, LookingHolds
<1>5. CASE Answers(Miss) /\ UNCHANGED before
  <2>1. Base' /\ w'.pc = "done" /\ ~answer'.verified /\ w'.native = w.native
    BY <1>1, <1>2, <1>5 DEF Answers, Miss, NoAnswer, Report, Goes, Base, ScreenOK, CallOK, LocalsOK, Looking, Locals
  <2>2. Calm' => text' = before'.text
    BY <1>1, <1>2, <1>5 DEF LooksOK, Calm
  <2> QED BY <2>1, <2>2, UnverifiedHolds
<1>6. CASE call.target = "focus" /\ w' = [w EXCEPT !.native = TRUE, !.pc = "nbefore"] /\ UNCHANGED <<answer, before>>
  <2>1. Base' /\ w'.pc \in Looking
    BY <1>1, <1>2, <1>6 DEF Base, ScreenOK, CallOK, LocalsOK, Looking, Locals
  <2>2. LooksOK'
    BY <1>1, <1>2, <1>6, <2>1 DEF LooksOK, Base, LocalsOK, Looking, Untyped, Calm, Locals
  <2> QED BY <2>1, <2>2, LookingHolds
<1> QED BY <1>3, <1>4, <1>5, <1>6 DEF Find

LEMMA MeansOtherKeeps == TextInv /\ MeansOther => TextInv'
<1> SUFFICES ASSUME TextInv, MeansOther
             PROVE  TextInv'
  OBVIOUS
<1> USE DEF MeansOther, fixed, screen
<1>1. Base' /\ w'.pc = "done" /\ ~answer'.verified /\ answer'.why # "missed"
  BY DEF TextInv, Base, Answers, NoAnswer, Report, Goes, ScreenOK, CallOK, LocalsOK, Locals
<1>2. Calm' => text' = before'.text
  BY DEF TextInv, OtherOK, Calm
<1> QED BY <1>1, <1>2, UnverifiedHolds

LEMMA FocusKeeps == TextInv /\ Focus => TextInv'
<1> SUFFICES ASSUME TextInv, Focus
             PROVE  TextInv'
  OBVIOUS
<1> USE DEF fixed, screen
<1>1. w.pc = "focus" /\ ActsOK /\ Base /\ ~w.native /\ (Calm => ActsOn)
  BY DEF Focus, TextInv, Acting, Base, ActsOK
<1>2. UNCHANGED <<field, platform, call, text, mounted, tag, events, before>>
  BY DEF Focus
<1>3. CASE Found(w.pin) /\ Goes("prior") /\ focus' \in {TheField(w.pin), focus} /\ UNCHANGED answer
  <2>1. TheField(w.pin) \in mounted
    <3>1. Resolved(w.pin) \subseteq mounted
      BY <1>1 DEF Resolved, Pinned, Matches, Base, ScreenOK, NoField
    <3>2. Resolved(w.pin) # {}
      BY <1>3, Sizes DEF Found
    <3> QED BY <3>1, <3>2 DEF TheField
  <2>2. Base' /\ w'.pc = "prior"
    BY <1>1, <1>2, <1>3, <2>1 DEF Goes, Base, ScreenOK, CallOK, LocalsOK, Acting, Locals
  <2>3. ASSUME Calm'
        PROVE  ActsOn'
    <3>1. Calm /\ ActsOn /\ focus' \in {"f", focus}
      BY <1>1, <1>2, <1>3, <2>3, ActsOnF DEF Calm, Base
    <3>2. SnapOK'
      BY <1>1, <1>3, <3>1 DEF SnapOK, ActsOn, Goes, Base, LocalsOK, Locals
    <3> QED BY <1>1, <1>2, <1>3, <3>1, <3>2 DEF ActsOn, Goes, Base, LocalsOK, Locals
  <2>4. ActsOK'
    BY <1>1, <1>3, <2>2, <2>3 DEF ActsOK, Goes, Base, LocalsOK, Locals
  <2> QED BY <2>2, <2>4, ActingHolds DEF Acting
<1>4. CASE Answers(Miss) /\ UNCHANGED focus
  <2>1. Base' /\ w'.pc = "done" /\ ~answer'.verified /\ w'.native = w.native
    BY <1>1, <1>2, <1>4 DEF Answers, Miss, NoAnswer, Report, Goes, Base, ScreenOK, CallOK, LocalsOK, Locals
  <2>2. Calm' => text' = before'.text
    BY <1>1, <1>2, <1>4 DEF ActsOn, Calm
  <2> QED BY <2>1, <2>2, UnverifiedHolds
<1> QED BY <1>3, <1>4 DEF Focus

-----------------------------------------------------------------------------
(* The steps that act on f. *)

\* An action that acts on f and ends or goes on; what it writes, it writes into f.
LEMMA WritesF ==
  ASSUME TextInv, w.pc \in Acting, UNCHANGED <<before, focus, events>>, Calm'
  PROVE  Calm /\ ActsOn /\ ~w.native
BY DEF TextInv, ActsOK, Calm

LEMMA PriorKeeps == TextInv /\ Prior => TextInv'
<1> SUFFICES ASSUME TextInv, Prior
             PROVE  TextInv'
  OBVIOUS
<1> USE DEF fixed, screen
<1>1. w.pc = "prior" /\ w.pc \in Acting /\ Base /\ ~w.native
  BY DEF Prior, TextInv, Acting, Base, ActsOK
<1>2. UNCHANGED <<field, platform, call, text, focus, mounted, tag, answer, events, before>>
  BY DEF Prior
<1>3. /\ w'.pc = "clear" /\ w'.pin = w.pin /\ w'.native = w.native /\ DOMAIN w' = Locals
      /\ w'.landed = w.landed /\ w'.cleared = w.cleared /\ w'.retried = w.retried
  BY <1>1 DEF Prior, Goes, Base, LocalsOK, Locals
<1>4. Base'
  <2>1. ScreenOK' /\ CallOK'
    BY <1>1, <1>2 DEF Base, ScreenOK, CallOK
  <2>2. LocalsOK'
    BY <1>1, <1>2, <1>3 DEF Base, LocalsOK, Acting
  <2> QED BY <2>1, <2>2 DEF Base
<1>5. ASSUME Calm'
      PROVE  ActsOn'
  <2>1. Calm /\ ActsOn /\ mounted = Fields
    BY <1>1, <1>2, <1>5, WritesF DEF ActsOn, Base, ScreenOK
  <2>2. text = before.text /\ \A x \in Fields : text[x] \in Starts
    BY <1>1, <2>1 DEF ActsOn
  <2>3. /\ Tree = [i \in 1..Len(Tree) |-> Tree[i]] /\ Len(Tree) \in Nat
        /\ DOMAIN Tree = 1..2 /\ Tree[1] = Node("f") /\ Tree[2] = Node("g")
    BY <2>1, TreeIs
  <2>4. \A x \in Fields : Node(x).text \in Shown
    BY <2>2 DEF Node, Shown, Starts
  <2>5. \A i \in DOMAIN Tree : Tree[i].text \in Shown
    <3>1. \A i \in DOMAIN Tree : i = 1 \/ i = 2
      BY <2>3
    <3> QED BY <2>3, <2>4, <3>1 DEF Fields
  <2>6. SnapOK' /\ (Reached => w'.previous \in {Unknown, Read(before.text["f"])})
    <3>1. CASE field.controlled
      BY <1>1, <2>1, <2>2, <3>1 DEF Prior, SnapOK, ActsOn, Base, LocalsOK, Locals
    <3>2. CASE ~field.controlled /\ OpFails /\ Goes("clear")
      <4>1. w'.snap = w.snap /\ w'.previous = w.previous
        BY <1>1, <3>2 DEF Goes, Base, LocalsOK, Locals
      <4> QED BY <2>1, <4>1 DEF SnapOK, ActsOn
    <3>3. CASE /\ ~field.controlled
               /\ LET i == Written(Tree, Tree, IdOf("f"), <<>>) IN
                  w' = [w EXCEPT !.pc = "clear", !.snap = Tree,
                          !.masked = i # 0 /\ Tree[i].secure,
                          !.previous = IF i = 0 \/ Tree[i].secure THEN Unknown
                                       ELSE Read(AsFieldText(Tree[i].text))]
      <4> DEFINE i == Written(Tree, Tree, IdOf("f"), <<>>)
      <4>1. ASSUME Reached
            PROVE  i = 0 \/ i = 1
        <5> DEFINE id == IdOf("f")
                   ById == {k \in Nodes(Tree) : id # "null" /\ Tree[k].id = id}
                   Focused == {k \in Nodes(Tree) : Tree[k].focused}
                   Changed == {k \in Nodes(Tree) : k \notin DOMAIN Tree \/ Tree[k].text # Tree[k].text}
        <5>1. Nodes(Tree) = 1..2
          BY <2>3 DEF Nodes
        <5>2. (ById = {} \/ ById = {1}) /\ (field.testID => ById = {1})
          <6>1. \A k \in 1..2 : k = 1 \/ k = 2
            OBVIOUS
          <6>2. IdOf("g") = "g" /\ id \in {"f", "null"} /\ Tree[2].id = "g" /\ Tree[1].id = id
                /\ (field.testID => id = "f")
            BY <2>3 DEF IdOf, Node
          <6> QED BY <5>1, <6>1, <6>2
        <5>3. focus = "f" => Focused = {} \/ Focused = {1}
          <6> SUFFICES ASSUME focus = "f"
                       PROVE  Focused = {} \/ Focused = {1}
            OBVIOUS
          <6>1. \A k \in 1..2 : k = 1 \/ k = 2
            OBVIOUS
          <6>2. Tree[2].focused = FALSE
            <7>1. (platform = "android" /\ focus = "g") = FALSE
              OBVIOUS
            <7>2. Node("g").focused = (platform = "android" /\ focus = "g")
              BY Zenon DEF Node
            <7>3. Node("g").focused = FALSE
              BY <7>1, <7>2, Zenon
            <7> QED BY <2>3, <7>3
          <6> QED BY <5>1, <6>1, <6>2
        <5>4. Changed = {}
          BY DEF Nodes
        <5>5. /\ Only({1}) = 1 /\ Only({}) = 0 /\ Cardinality({}) # 1
          <6>1. {1} \in SUBSET (1..1) /\ {} \in SUBSET (1..1)
            OBVIOUS
          <6> QED BY <6>1, OnlyOne
        <5>6. i = IF ById # {} THEN Only(ById) ELSE IF Cardinality(Focused) = 1 THEN Only(Focused) ELSE Only(Changed)
          BY DEF Written
        <5>7. field.testID \/ focus = "f"
          BY <3>3, <4>1 DEF Reached
        <5> HIDE DEF ById, Focused, Changed, i
        <5> QED BY <5>2, <5>3, <5>4, <5>5, <5>6, <5>7
      <4> HIDE DEF i
      <4>2. w'.snap = Tree /\ w'.previous = IF i = 0 \/ Tree[i].secure THEN Unknown ELSE Read(AsFieldText(Tree[i].text))
        BY <1>1, <3>3 DEF Base, LocalsOK, Locals, i
      <4>3. i = 1 => AsFieldText(Tree[i].text) = text["f"]
        <5>1. text["f"] \in Starts
          BY <2>2 DEF Fields
        <5>2. i = 1 => Tree[i].text = IF platform = "ios" /\ text["f"] = <<>> THEN Hint ELSE text["f"]
          BY <2>3 DEF Node
        <5>3. text["f"] # Hint
          BY <5>1 DEF Starts, Hint
        <5> QED BY <5>2, <5>3 DEF AsFieldText
      <4>4. SnapOK'
        BY <2>3, <2>5, <4>2 DEF SnapOK
      <4> QED BY <2>2, <4>1, <4>2, <4>3, <4>4
    <3> QED BY <3>1, <3>2, <3>3 DEF Prior
  <2> QED BY <1>2, <1>3, <2>1, <2>6 DEF ActsOn, Aimed, Hid, Reached
<1>6. ActsOK'
  BY <1>1, <1>3, <1>5 DEF ActsOK
<1> QED BY <1>3, <1>4, <1>6, ActingHolds DEF Acting

Later == Acting \ {"focus", "prior"}

LEMMA GoesOn ==
  ASSUME TextInv, w.pc \in Later, w'.pc \in Later, DOMAIN w' = Locals,
         UNCHANGED <<field, platform, call, focus, mounted, tag, events, before, answer>>,
         w'.native = w.native, w'.pin = w.pin, w'.previous = w.previous, w'.snap = w.snap,
         w'.cleared \in BOOLEAN, w'.retried \in BOOLEAN, w'.landed.known \in BOOLEAN,
         text' = [x \in Fields |-> text'[x]],
         Calm /\ ActsOn => /\ Aimed => text'["g"] = text["g"]
                           /\ w'.pc \in {"read", "judge"} /\ Reached => ReadsOK'
  PROVE  TextInv'
<1>1. Base' /\ w'.pc \in Acting
  <2>1. ScreenOK' /\ CallOK'
    BY DEF TextInv, ScreenOK, CallOK
  <2>2. LocalsOK'
    BY DEF TextInv, LocalsOK, Later
  <2> QED BY <2>1, <2>2 DEF Base, Later
<1>2. w.pc \in Acting /\ w.pc \notin {"focus", "prior"} /\ w'.pc \notin {"focus", "prior"} /\ ~w.native
  BY DEF Later, TextInv, ActsOK
<1>3. ASSUME Calm'
      PROVE  ActsOn' /\ (w'.pc \in {"read", "judge"} /\ Reached' => ReadsOK')
  <2>1. Calm /\ ActsOn
    BY <1>2, <1>3, WritesF
  <2>2. SnapOK'
    BY <2>1 DEF ActsOn, SnapOK
  <2>3. (Aimed' <=> Aimed) /\ (Reached' <=> Reached)
    BY DEF Aimed, Hid, Reached
  <2> QED BY <1>2, <2>1, <2>2, <2>3 DEF ActsOn
<1>4. ActsOK'
  BY <1>2, <1>3 DEF ActsOK
<1> QED BY <1>1, <1>4, ActingHolds

LEMMA GivesUp ==
  ASSUME TextInv, w.pc \in Later, w' = [w EXCEPT !.pc = "done"],
         UNCHANGED <<field, platform, call, focus, mounted, tag, events, before>>,
         DOMAIN answer' = Report, answer'.verified = FALSE, answer'.why # "missed", answer'.path = Path,
         text' = [x \in Fields |-> text'[x]], Calm /\ ActsOn /\ Aimed => text'["g"] = text["g"]
  PROVE  TextInv'
<1>1. Base' /\ w'.pc = "done"
  <2>1. ScreenOK' /\ CallOK'
    BY DEF TextInv, ScreenOK, CallOK
  <2>2. LocalsOK' /\ w'.pc = "done"
    BY DEF TextInv, LocalsOK, Locals
  <2> QED BY <2>1, <2>2 DEF Base
<1>2. ASSUME Calm', answer'.path = "hid" => focus' = "f"
      PROVE  text'["g"] = before'.text["g"]
  <2>1. Aimed
    BY <1>2 DEF Aimed, Hid, Path
  <2>2. Calm /\ ActsOn
    BY <1>2, WritesF DEF Later
  <2> QED BY <2>1, <2>2 DEF ActsOn
<1> QED BY <1>1, <1>2, UnverifiedHolds

LEMMA WritesInto ==
  ASSUME TextInv, w.pc \in Later, NEW s, NEW how,
         text' = text \/ Empties \/ (Hid /\ Types(s, how)) \/ Sets(s)
  PROVE  /\ text' = [x \in Fields |-> text'[x]]
         /\ Calm /\ ActsOn /\ Aimed => text'["g"] = text["g"]
<1>1. text = [x \in Fields |-> text[x]] /\ ScreenOK /\ CallOK
  BY DEF TextInv, ScreenOK
<1>2. ASSUME NEW x, NEW t, text' = [text EXCEPT ![x] = t]
      PROVE  text' = [y \in Fields |-> text'[y]] /\ (x = "f" => text'["g"] = text["g"])
  BY <1>1, <1>2 DEF Fields
<1>3. Calm /\ ActsOn /\ Aimed => (Hid => focus = "f") /\ (Found(w.pin) => TheField(w.pin) = "f")
  BY <1>1, ActsOnF DEF Aimed
<1>4. CASE text' = text
  BY <1>1, <1>4
<1>5. CASE Empties
  BY <1>1, <1>2, <1>3, <1>5 DEF Empties
<1>6. CASE Hid /\ Types(s, how)
  BY <1>1, <1>2, <1>3, <1>6 DEF Types
<1>7. CASE Sets(s)
  BY <1>1, <1>2, <1>3, <1>7 DEF Sets
<1> QED BY <1>4, <1>5, <1>6, <1>7

LEMMA ClearsKeep == TextInv /\ (ClearFirst \/ ClearAgain) => TextInv'
<1> SUFFICES ASSUME TextInv, ClearFirst \/ ClearAgain
             PROVE  TextInv'
  OBVIOUS
<1> USE DEF fixed, screen
<1>1. w.pc \in Later /\ LocalsOK
  BY DEF ClearFirst, ClearAgain, Later, Acting, TextInv
<1>2. UNCHANGED <<field, platform, call, focus, mounted, tag, answer, events, before>>
  BY DEF ClearFirst, ClearAgain
<1>3. (text' = text \/ Empties) /\ (w' = [w EXCEPT !.pc = "write"] \/ w' = [w EXCEPT !.pc = "write", !.cleared = TRUE])
  BY DEF ClearFirst, ClearAgain, ClearField, Goes
<1>4. /\ w'.pc = "write" /\ DOMAIN w' = Locals /\ w'.native = w.native /\ w'.pin = w.pin
      /\ w'.previous = w.previous /\ w'.snap = w.snap /\ w'.cleared \in BOOLEAN /\ w'.retried \in BOOLEAN
      /\ w'.landed.known \in BOOLEAN
  BY <1>1, <1>3 DEF LocalsOK, Locals
<1>5. /\ text' = [x \in Fields |-> text'[x]] /\ (Calm /\ ActsOn /\ Aimed => text'["g"] = text["g"])
  BY <1>1, <1>3, WritesInto
<1> QED BY <1>1, <1>2, <1>4, <1>5, GoesOn DEF Later, Acting

\* A write that fails ends the call, or goes on to put back what was there.
LEMMA WriteFails ==
  ASSUME TextInv, w.pc = "write", WriteFailed, NEW s, NEW how, text' = text \/ (Hid /\ Types(s, how)) \/ Sets(s),
         UNCHANGED <<fixed, focus, mounted, tag, events, before>>
  PROVE  TextInv'
<1> USE DEF fixed
<1>1. w.pc \in Later /\ LocalsOK
  BY DEF Later, Acting, TextInv
<1>2. /\ text' = [x \in Fields |-> text'[x]] /\ (Calm /\ ActsOn /\ Aimed => text'["g"] = text["g"])
  BY <1>1, WritesInto
<1>3. CASE Goes("restore") /\ UNCHANGED answer
  <2>1. /\ w'.pc = "restore" /\ DOMAIN w' = Locals /\ w'.native = w.native /\ w'.pin = w.pin
        /\ w'.previous = w.previous /\ w'.snap = w.snap /\ w'.cleared \in BOOLEAN /\ w'.retried \in BOOLEAN
        /\ w'.landed.known \in BOOLEAN
    BY <1>1, <1>3 DEF LocalsOK, Locals, Goes
  <2> QED BY <1>1, <1>2, <1>3, <2>1, GoesOn DEF Later, Acting
<1>4. CASE Answers([NoAnswer EXCEPT !.path = Path, !.why = "failed"])
  <2>1. /\ w' = [w EXCEPT !.pc = "done"] /\ DOMAIN answer' = Report /\ answer'.verified = FALSE
        /\ answer'.why # "missed" /\ answer'.path = Path
    BY <1>4 DEF Answers, Goes, NoAnswer, Report
  <2> QED BY <1>1, <1>2, <2>1, GivesUp
<1> QED BY <1>3, <1>4 DEF WriteFailed

\* What was read of an earlier write is forgotten.
LEMMA WriteGoesOn ==
  ASSUME TextInv, w.pc = "write", Wrote, NEW s, NEW how, text' = text \/ (Hid /\ Types(s, how)) \/ Sets(s),
         UNCHANGED <<fixed, focus, mounted, tag, events, before>>
  PROVE  TextInv'
<1> USE DEF fixed
<1>1. w.pc \in Later /\ LocalsOK
  BY DEF Later, Acting, TextInv
<1>2. /\ text' = [x \in Fields |-> text'[x]] /\ (Calm /\ ActsOn /\ Aimed => text'["g"] = text["g"])
  BY <1>1, WritesInto
<1>3. /\ w'.pc = "read" /\ DOMAIN w' = Locals /\ w'.native = w.native /\ w'.pin = w.pin
      /\ w'.previous = w.previous /\ w'.snap = w.snap /\ w'.cleared \in BOOLEAN /\ w'.retried \in BOOLEAN
      /\ w'.landed.known = FALSE
  BY <1>1 DEF Wrote, LocalsOK, Locals, Unknown
<1>4. ReadsOK' /\ UNCHANGED answer
  BY <1>3 DEF ReadsOK, Wrote
<1> QED BY <1>1, <1>2, <1>3, <1>4, GoesOn DEF Later, Acting

LEMMA WritesKeep == TextInv /\ (WriteHid \/ WriteProps) => TextInv'
<1>1. ASSUME TextInv, WriteHid
      PROVE  TextInv'
  <2>1. w.pc = "write" /\ UNCHANGED <<fixed, focus, mounted, tag, events, before>>
    BY <1>1 DEF WriteHid
  <2>2. PICK s, how : Hid /\ Types(s, how) /\ (Wrote \/ WriteFailed)
    BY <1>1 DEF WriteHid
  <2> QED BY <1>1, <2>1, <2>2, WriteFails, WriteGoesOn
<1>2. ASSUME TextInv, WriteProps
      PROVE  TextInv'
  <2>1. w.pc = "write" /\ UNCHANGED <<fixed, focus, mounted, tag, events, before>>
    BY <1>2 DEF WriteProps
  <2>2. (text' = text \/ Sets(Desired)) /\ (Wrote \/ WriteFailed)
    BY <1>2 DEF WriteProps
  <2> QED BY <1>2, <2>1, <2>2, WriteFails, WriteGoesOn
<1> QED BY <1>1, <1>2

LEMMA RestoreKeeps == TextInv /\ Restore => TextInv'
<1> SUFFICES ASSUME TextInv, Restore
             PROVE  TextInv'
  OBVIOUS
<1>1. w.pc \in Later /\ UNCHANGED <<field, platform, call, focus, mounted, tag, events, before>>
  BY DEF Restore, Later, Acting, fixed
<1>2. text' = text \/ Sets(Prev)
  BY DEF Restore
<1>3. /\ w' = [w EXCEPT !.pc = "done"] /\ DOMAIN answer' = Report /\ answer'.verified = FALSE
      /\ answer'.why # "missed" /\ answer'.path = Path
  BY DEF Restore, Answers, Goes, NoAnswer, Report
<1>4. /\ text' = [x \in Fields |-> text'[x]] /\ (Calm /\ ActsOn /\ Aimed => text'["g"] = text["g"])
  BY <1>1, <1>2, WritesInto
<1> QED BY <1>1, <1>3, <1>4, GivesUp

-----------------------------------------------------------------------------
(* Reading back, and the verdict. *)

LEMMA WrittenIsThere ==
  ASSUME NEW n \in Nat, NEW old, NEW new, DOMAIN new = 1..n, NEW id, NEW sent_
  PROVE  Written(old, new, id, sent_) # 0 => Written(old, new, id, sent_) \in 1..n
<1> DEFINE ById    == {i \in Nodes(new) : id # "null" /\ new[i].id = id}
           Focused == {i \in Nodes(new) : new[i].focused}
           Ending(s) == {i \in Nodes(s) : EndsWith(s[i].text, sent_)}
           Changed == {i \in Nodes(new) : i \notin DOMAIN old \/ old[i].text # new[i].text}
<1>1. ById \in SUBSET (1..n) /\ Focused \in SUBSET (1..n) /\ Ending(new) \in SUBSET (1..n)
      /\ Changed \in SUBSET (1..n)
  BY DEF Nodes
<1>2. \A S \in SUBSET (1..n) : Only(S) # 0 => Only(S) \in 1..n
  BY OnlyOne
<1>3. Written(old, new, id, sent_) \in {Only(ById), Only(Focused), Only(Ending(new)), Only(Changed)}
  BY DEF Written
<1> QED BY <1>1, <1>2, <1>3

\* A field with a testID is the one that was written.
LEMMA NamedIsFound ==
  ASSUME mounted = Fields, field.testID, NEW old, NEW sent_
  PROVE  Written(old, Tree, IdOf("f"), sent_) = 1 /\ Tree[1] = Node("f")
<1> DEFINE id == IdOf("f")
           ById == {k \in Nodes(Tree) : id # "null" /\ Tree[k].id = id}
<1>1. DOMAIN Tree = 1..2 /\ Tree[1] = Node("f") /\ Tree[2] = Node("g")
  BY TreeIs
<1>2. id = "f" /\ Tree[1].id = "f" /\ Tree[2].id = "g"
  BY <1>1 DEF IdOf, Node
<1>3. \A k \in 1..2 : k = 1 \/ k = 2
  OBVIOUS
<1>4. ById = {1}
  BY <1>1, <1>2, <1>3 DEF Nodes
<1>5. {1} \in SUBSET (1..1)
  OBVIOUS
<1>6. Written(old, Tree, IdOf("f"), sent_) = IF ById # {} THEN Only(ById) ELSE Written(old, Tree, IdOf("f"), sent_)
  BY DEF Written
<1> HIDE DEF ById
<1> QED BY <1>1, <1>4, <1>5, <1>6, OnlyOne

\* What the dump says of a field is what it shows, or what was shown at first.
LEMMA DumpShows ==
  ASSUME ScreenOK, SnapOK, NEW dump \in Dumps
  PROVE  /\ \E n \in Nat : DOMAIN dump = 1..n /\ n = Len(dump)
         /\ \A i \in DOMAIN dump : \/ dump = w.snap /\ dump[i].text \in Shown
                                   \/ \E x \in Fields : dump[i].text \in {text[x], Hint}
<1>1. CASE dump = Tree
  <2>1. DOMAIN Tree = 1..Len(Tree) /\ Len(Tree) \in Nat /\ \A i \in DOMAIN Tree : Tree[i] \in {Node("f"), Node("g")}
    BY TreeIs DEF ScreenOK
  <2>2. \A x \in Fields : Node(x).text \in {text[x], Hint}
    BY DEF Node
  <2>3. \A i \in DOMAIN Tree : \E x \in Fields : Tree[i].text \in {text[x], Hint}
    BY <2>1, <2>2 DEF Fields
  <2> QED BY <1>1, <2>1, <2>3
<1>2. CASE dump = w.snap
  BY <1>2 DEF SnapOK
<1> QED BY <1>1, <1>2 DEF Dumps

LEMMA ReadKeeps == TextInv /\ (ReadProps \/ ReadTree) => TextInv'
<1> SUFFICES ASSUME TextInv, ReadProps \/ ReadTree
             PROVE  TextInv'
  OBVIOUS
<1> USE DEF fixed, screen
<1>1. w.pc \in Later /\ LocalsOK /\ ScreenOK /\ CallOK
  BY DEF ReadProps, ReadTree, Later, Acting, TextInv
<1>2. UNCHANGED <<field, platform, call, text, focus, mounted, tag, answer, events, before>>
  BY DEF ReadProps, ReadTree
<1>3. text' = [x \in Fields |-> text'[x]] /\ text'["g"] = text["g"]
  BY <1>1, <1>2 DEF ScreenOK
<1>4. ASSUME NEW got, got.known \in BOOLEAN, w'.landed = got, w'.pc \in {"read", "judge"}, DOMAIN w' = Locals,
             w'.native = w.native, w'.pin = w.pin, w'.previous = w.previous, w'.snap = w.snap,
             w'.cleared = w.cleared, w'.retried = w.retried,
             Calm /\ ActsOn /\ Reached /\ got.known => got.text = text["f"] \/ got.text \in Starts
      PROVE  TextInv'
  <2>1. Calm /\ ActsOn /\ Reached => ReadsOK'
    BY <1>2, <1>4 DEF ReadsOK
  <2>2. w'.pc \in Later /\ w'.cleared \in BOOLEAN /\ w'.retried \in BOOLEAN
    BY <1>1, <1>4 DEF Later, Acting, LocalsOK
  <2> QED BY <1>1, <1>2, <1>3, <1>4, <2>1, <2>2, GoesOn
<1>5. ASSUME \/ w' = [w EXCEPT !.pc = "judge", !.landed = Unknown]
             \/ w' = [w EXCEPT !.pc = IF w.polls = 2 THEN "judge" ELSE "read", !.polls = @ + 1, !.landed = Unknown]
      PROVE  TextInv'
  <2> PICK got : got = Unknown
    OBVIOUS
  <2>1. /\ w'.landed = got /\ w'.pc \in {"read", "judge"} /\ DOMAIN w' = Locals
        /\ w'.native = w.native /\ w'.pin = w.pin /\ w'.previous = w.previous /\ w'.snap = w.snap
        /\ w'.cleared = w.cleared /\ w'.retried = w.retried
    BY <1>1, <1>5 DEF LocalsOK, Locals
  <2>2. got.known \in BOOLEAN /\ ~got.known
    BY DEF Unknown
  <2> QED BY <1>4, <2>1, <2>2
<1>6. CASE ReadProps
  <2>1. CASE Found(w.pin) /\ w' = [w EXCEPT !.pc = "judge", !.landed =
                               Read(IF Controlled(TheField(w.pin)) THEN text[TheField(w.pin)] ELSE Null)]
    <3>0. PICK shown : shown = IF Controlled(TheField(w.pin)) THEN text[TheField(w.pin)] ELSE Null
      OBVIOUS
    <3>1. PICK got : got = Read(shown)
      OBVIOUS
    <3>2. got.known \in BOOLEAN /\ got.text = shown
      BY <3>1 DEF Read
    <3>3. Calm /\ ActsOn => got.text = text["f"]
      <4>1. Calm /\ ActsOn => Controlled(TheField(w.pin)) /\ TheField(w.pin) = "f"
        BY <1>1, <1>6, <2>1, ActsOnF DEF ReadProps, Controlled
      <4> QED BY <3>0, <3>2, <4>1
    <3>4. w' = [w EXCEPT !.pc = "judge", !.landed = got]
      BY <2>1, <3>0, <3>1
    <3> QED BY <1>1, <1>4, <3>2, <3>3, <3>4 DEF LocalsOK, Locals
  <2>2. CASE w' = [w EXCEPT !.pc = "judge", !.landed = Unknown]
    BY <1>5, <2>2
  <2> QED BY <1>6, <2>1, <2>2 DEF ReadProps
<1>7. CASE ReadTree
  <2>1. CASE w' = [w EXCEPT !.pc = IF w.polls = 2 THEN "judge" ELSE "read", !.polls = @ + 1, !.landed = Unknown]
    BY <1>5, <2>1
  <2>2. ASSUME NEW dump \in Dumps, w' = Seen(dump)
        PROVE  TextInv'
    <3>1. PICK i : i = Written(w.snap, dump, IdOf("f"), call.sent)
      OBVIOUS
    <3>2. PICK got : /\ got = IF i # 0 /\ dump[i].secure THEN Unknown
                              ELSE IF i = 0 THEN Unknown ELSE Read(AsFieldText(dump[i].text))
      OBVIOUS
    <3>3. /\ w'.landed = got /\ w'.pc \in {"read", "judge"} /\ DOMAIN w' = Locals
          /\ w'.native = w.native /\ w'.pin = w.pin /\ w'.previous = w.previous /\ w'.snap = w.snap
          /\ w'.cleared = w.cleared /\ w'.retried = w.retried
      BY <1>1, <2>2, <3>1, <3>2 DEF Seen, LocalsOK, Locals
    <3>4. got.known \in BOOLEAN /\ (got.known => i # 0 /\ got.text = AsFieldText(dump[i].text))
      BY <3>2 DEF Unknown, Read
    <3>5. ASSUME Calm, ActsOn, Reached, got.known
          PROVE  got.text = text["f"] \/ got.text \in Starts
      <4>1. i \in DOMAIN dump
        <5>1. PICK n \in Nat : DOMAIN dump = 1..n
          BY <1>1, <3>5, DumpShows DEF ActsOn
        <5> QED BY <3>1, <3>4, <3>5, <5>1, WrittenIsThere
      <4>2. (Aimed => text["g"] \in Starts) /\ <<>> \in Starts
        BY <3>5 DEF ActsOn, Fields, Starts
      <4>3. \/ dump[i].text \in Shown \/ dump[i].text \in {text["f"], Hint}
            \/ Aimed /\ dump[i].text = text["g"]
        <5>1. CASE Aimed
          BY <1>1, <3>5, <4>1, <5>1, DumpShows DEF ActsOn, Fields
        <5>2. CASE dump = w.snap
          BY <1>1, <3>5, <4>1, <5>2 DEF ActsOn, SnapOK
        <5>3. CASE ~Aimed /\ dump = Tree
          <6>1. field.testID /\ mounted = Fields
            BY <1>1, <3>5, <5>3 DEF Reached, Aimed, Hid, ActsOn, ScreenOK
          <6>2. i = 1 /\ dump[1] = Node("f")
            BY <3>1, <5>3, <6>1, NamedIsFound
          <6>3. Node("f").text \in {text["f"], Hint}
            BY DEF Node
          <6> QED BY <6>2, <6>3
        <5> QED BY <5>1, <5>2, <5>3 DEF Dumps
      <4>4. AsFieldText(dump[i].text) \in {dump[i].text, <<>>} /\ (dump[i].text = Hint => AsFieldText(dump[i].text) = <<>>)
        BY DEF AsFieldText
      <4> QED BY <3>4, <3>5, <4>2, <4>3, <4>4 DEF Shown
    <3> QED BY <1>4, <3>3, <3>4, <3>5
  <2> QED BY <1>7, <2>1, <2>2 DEF ReadTree
<1> QED BY <1>6, <1>7

\* A verdict is good only of a text that ends with what was sent.
LEMMA JudgeKeeps == TextInv /\ Judge => TextInv'
<1> SUFFICES ASSUME TextInv, Judge
             PROVE  TextInv'
  OBVIOUS
<1> USE DEF fixed, screen
<1>1. w.pc = "judge" /\ w.pc \in Later /\ LocalsOK /\ ScreenOK /\ CallOK
  BY DEF Judge, Later, Acting, TextInv
<1>2. UNCHANGED <<field, platform, call, text, focus, mounted, tag, events, before>>
  BY DEF Judge
<1>3. text' = [x \in Fields |-> text'[x]] /\ text'["g"] = text["g"]
  BY <1>1, <1>2 DEF ScreenOK
<1>4. ASSUME NEW how, Answers(Success(FALSE, how)) \/ Answers([NoAnswer EXCEPT !.path = Path, !.why = "mismatch"])
      PROVE  TextInv'
  <2>1. /\ w' = [w EXCEPT !.pc = "done"] /\ DOMAIN answer' = Report /\ answer'.verified = FALSE
        /\ answer'.why # "missed" /\ answer'.path = Path
    BY <1>4 DEF Answers, Goes, NoAnswer, Report, Success
  <2> QED BY <1>1, <1>2, <1>3, <2>1, GivesUp
<1>5. CASE w' = [w EXCEPT !.pc = "reclear", !.retried = TRUE] /\ UNCHANGED answer
  <2>1. /\ w'.pc = "reclear" /\ DOMAIN w' = Locals /\ w'.native = w.native /\ w'.pin = w.pin
        /\ w'.previous = w.previous /\ w'.snap = w.snap /\ w'.cleared \in BOOLEAN /\ w'.retried \in BOOLEAN
        /\ w'.landed.known \in BOOLEAN
    BY <1>1, <1>5 DEF LocalsOK, Locals
  <2> QED BY <1>1, <1>2, <1>3, <1>5, <2>1, GoesOn DEF Later, Acting
<1>6. ASSUME NEW how, Answers(Success(TRUE, how)), w.landed.known,
             Landed = Desired \/ AppendedOntoUnknown \/ IsTransform(Desired, Landed)
      PROVE  TextInv'
  <2>1. /\ w' = [w EXCEPT !.pc = "done"] /\ DOMAIN answer' = Report /\ answer'.verified = TRUE
        /\ answer'.why # "missed" /\ answer'.path = Path
    BY <1>6 DEF Answers, Goes, NoAnswer, Report, Success
  <2>2. w'.pc = "done" /\ w'.native = w.native /\ w'.previous = w.previous
    BY <1>1, <2>1 DEF LocalsOK, Locals
  <2>3. Base'
    <3>1. ScreenOK' /\ CallOK'
      BY <1>1, <1>2 DEF ScreenOK, CallOK
    <3>2. LocalsOK'
      BY <1>1, <2>1 DEF LocalsOK, Locals
    <3> QED BY <3>1, <3>2 DEF Base
  <2>4a. ASSUME Calm'
         PROVE  ~w.native /\ (Aimed => text["g"] = before.text["g"])
    BY <1>1, <1>2, <2>4a, WritesF DEF Later, ActsOn
  <2>4. ASSUME Calm', Reached
        PROVE  IF ~call.replace /\ ~w.previous.known THEN EndsWith(text["f"], call.sent)
               ELSE text["f"] \in {Wanted, <<"$">> \o Wanted}
    <3>1. Calm /\ ActsOn /\ ~w.native
      BY <1>1, <1>2, <2>4, WritesF DEF Later
    <3>2. Landed = text["f"] \/ Landed \in Starts
      BY <1>1, <1>6, <2>4, <3>1 DEF TextInv, ActsOK, Acting, ReadsOK, Landed
    <3>3. PICK t \in {Ascii, Accented} : t = call.sent
      BY <1>1 DEF CallOK
    <3>4. before.text["f"] \in Starts /\ <<>> \in Shown /\ Starts \subseteq Shown
      BY <3>1 DEF ActsOn, Fields, Shown, Starts
    <3>5. PICK p \in Shown : /\ p = IF call.replace \/ ~w.previous.known THEN <<>> ELSE before.text["f"]
                             /\ Desired = p \o t
      <4>1. w.previous \in {Unknown, Read(before.text["f"])}
        BY <2>4, <3>1 DEF ActsOn
      <4>2. Prev = IF w.previous.known THEN before.text["f"] ELSE <<>>
        BY <4>1 DEF Prev, Unknown, Read
      <4>3. <<>> \o t = t
        BY <3>4, ShownIsNotSent
      <4> QED BY <3>3, <3>4, <4>2, <4>3 DEF Desired
    <3>6. Wanted = (IF call.replace THEN <<>> ELSE before.text["f"]) \o t
      BY <3>3 DEF Wanted
    <3>7. Landed = p \o t \/ Landed = <<"$">> \o (p \o t) \/ (~w.previous.known /\ ~call.replace /\ EndsWith(Landed, t))
      BY <1>6, <3>3, <3>5 DEF IsTransform, AppendedOntoUnknown
    <3>8. Landed = text["f"]
      <4>1. ASSUME NEW s \in Shown
            PROVE  ~EndsWith(s, t) /\ s # p \o t /\ s # <<"$">> \o (p \o t)
        BY ShownIsNotSent
      <4> QED BY <3>2, <3>4, <3>7, <4>1
    <3>9. EndsWith(p \o t, t) /\ EndsWith(<<"$">> \o (p \o t), t)
      BY <3>4, ShownIsNotSent
    <3>10. CASE ~call.replace /\ ~w.previous.known
      BY <3>1, <3>3, <3>7, <3>8, <3>9, <3>10 DEF ActsOn
    <3>11. CASE ~(~call.replace /\ ~w.previous.known)
      BY <3>1, <3>5, <3>6, <3>7, <3>8, <3>11 DEF ActsOn
    <3> QED BY <3>10, <3>11
  <2>5. OnlyTheField'
    <3>1. (answer'.path = "hid" => focus = "f") => Aimed
      BY <2>1 DEF Aimed, Hid, Path
    <3> QED BY <1>2, <2>1, <2>4a, <3>1 DEF OnlyTheField, OthersKept, MissUntouched
  <2>6. VerifiedHeld'
    <3>1. Reached' <=> Reached
      BY <1>2 DEF Reached
    <3> QED BY <1>2, <2>2, <2>4, <2>4a, <3>1 DEF VerifiedHeld, Wanted
  <2> QED BY <2>2, <2>3, <2>5, <2>6, DoneHolds
<1> QED BY <1>4, <1>5, <1>6 DEF Judge

-----------------------------------------------------------------------------
(* Typing into the focus. *)

LEMMA TypesNext ==
  ASSUME TextInv, w.pc \in Typing, w'.pc \in Typing, DOMAIN w' = Locals,
         UNCHANGED <<field, platform, call, focus, mounted, tag, events, before, answer>>,
         w'.native = w.native, w'.snap = w.snap, w'.retried = w.retried,
         w'.cleared \in BOOLEAN, w'.landed.known \in BOOLEAN,
         text' = [x \in Fields |-> text'[x]],
         Calm /\ TypesOn =>
            /\ \A x \in Fields : x # focus => text'[x] \in Starts
            /\ w'.pc \in {"nclear", "ntype"} => ~w'.landed.known
            /\ w'.landed.known /\ w'.cleared => focus # NoField /\ EndsWith(text'[focus], call.sent)
  PROVE  TextInv'
<1>1. Base'
  <2>1. ScreenOK' /\ CallOK'
    BY DEF TextInv, ScreenOK, CallOK
  <2>2. LocalsOK'
    BY DEF TextInv, LocalsOK
  <2> QED BY <2>1, <2>2 DEF Base
<1>2. ASSUME Calm'
      PROVE  TypesOn'
  <2>1. Calm /\ TypesOn
    BY <1>2 DEF Calm, TextInv, TypesOK
  <2>2. SnapOK'
    BY <2>1 DEF TypesOn, SnapOK
  <2> QED BY <2>1, <2>2 DEF TypesOn
<1>3. TypesOK'
  BY <1>2 DEF TypesOK, TextInv
<1> QED BY <1>1, <1>3, TypingHolds

LEMMA TypesEnd ==
  ASSUME TextInv, w.pc \in Typing, w' = [w EXCEPT !.pc = "done"],
         UNCHANGED <<field, platform, call, focus, mounted, tag, events, before>>,
         DOMAIN answer' = Report, answer'.verified \in BOOLEAN, answer'.why # "missed",
         answer'.verified => w.landed.known /\ w.cleared /\ text' = text,
         text' = [x \in Fields |-> text'[x]]
  PROVE  TextInv'
<1>1. Base' /\ w'.pc = "done" /\ w'.native
  <2>1. ScreenOK' /\ CallOK'
    BY DEF TextInv, ScreenOK, CallOK
  <2>2. LocalsOK' /\ w'.pc = "done"
    BY DEF TextInv, LocalsOK, Locals
  <2>3. w'.native
    BY DEF TextInv, LocalsOK, Locals, TypesOK
  <2> QED BY <2>1, <2>2, <2>3 DEF Base
<1>2. OnlyTheField'
  BY <1>1 DEF OnlyTheField, OthersKept, MissUntouched
<1>3. Calm' /\ answer'.verified => EndsWith(text'[focus'], call'.sent)
  BY DEF TextInv, TypesOK, TypesOn, Calm
<1>4. VerifiedHeld'
  BY <1>1, <1>3 DEF VerifiedHeld
<1> QED BY <1>1, <1>2, <1>4, DoneHolds

LEMMA NativeBeforeKeeps == TextInv /\ NativeBefore => TextInv'
<1> SUFFICES ASSUME TextInv, NativeBefore
             PROVE  TextInv'
  OBVIOUS
<1> USE DEF fixed, screen
<1>1. w.pc = "nbefore" /\ w.pc \in Looking /\ ScreenOK /\ CallOK /\ LocalsOK /\ LooksOK /\ w.native
  BY DEF NativeBefore, TextInv, Looking, LooksOK
<1>2. /\ UNCHANGED <<field, platform, call, text, focus, mounted, tag, answer, events>>
      /\ before' = [text |-> text, events |-> events]
  BY DEF NativeBefore
<1>3. /\ w'.pc \in {"nclear", "ntype"} /\ w'.native = w.native /\ DOMAIN w' = Locals
      /\ w'.landed = w.landed /\ w'.cleared = w.cleared /\ w'.retried = w.retried
      /\ w'.snap \in {w.snap, Tree}
  BY <1>1 DEF NativeBefore, Goes, LocalsOK, Locals
<1>4. Base'
  <2>1. ScreenOK' /\ CallOK'
    BY <1>1, <1>2 DEF ScreenOK, CallOK
  <2>2. LocalsOK'
    BY <1>1, <1>2, <1>3 DEF LocalsOK, Typing
  <2> QED BY <2>1, <2>2 DEF Base
<1>5. SnapOK'
  <2>1. CASE w'.snap = w.snap
    BY <1>1, <2>1 DEF SnapOK, LooksOK
  <2>2. CASE w'.snap = Tree
    <3>1. /\ Tree = [i \in 1..Len(Tree) |-> Tree[i]] /\ Len(Tree) \in Nat
          /\ \A i \in DOMAIN Tree : Tree[i] \in {Node("f"), Node("g")}
      BY <1>1, TreeIs DEF ScreenOK
    <3>2. \A x \in Fields : Node(x).text \in Shown
      BY <1>1 DEF Node, Shown, LooksOK, Untyped
    <3>3. \A i \in DOMAIN Tree : Tree[i].text \in Shown
      BY <3>1, <3>2 DEF Fields
    <3> QED BY <2>2, <3>1, <3>3 DEF SnapOK
  <2> QED BY <1>3, <2>1, <2>2
<1>6. TypesOn'
  BY <1>1, <1>2, <1>3, <1>5 DEF TypesOn, LooksOK, Untyped
<1> QED BY <1>1, <1>3, <1>4, <1>6, TypingHolds DEF TypesOK, Typing

LEMMA NativeClearKeeps == TextInv /\ NativeClear => TextInv'
<1> SUFFICES ASSUME TextInv, NativeClear
             PROVE  TextInv'
  OBVIOUS
<1>1. w.pc = "nclear" /\ w.pc \in Typing /\ ScreenOK /\ LocalsOK
  BY DEF NativeClear, TextInv, Typing
<1>2. UNCHANGED <<field, platform, call, focus, mounted, tag, events, before>>
  BY DEF NativeClear, fixed
<1>3. /\ text' = [x \in Fields |-> text'[x]]
      /\ \A x \in Fields : text'[x] \in {text[x], <<>>}
  <2>1. text = [x \in Fields |-> text[x]]
    BY <1>1 DEF ScreenOK
  <2>2. text' = text \/ \E y : text' = [text EXCEPT ![y] = <<>>]
    BY DEF NativeClear, Empties
  <2> QED BY <2>1, <2>2
<1>4. CASE Goes("ntype") /\ UNCHANGED answer
  <2>1. /\ w'.pc = "ntype" /\ DOMAIN w' = Locals /\ w'.native = w.native /\ w'.snap = w.snap
        /\ w'.retried = w.retried /\ w'.cleared = w.cleared /\ w'.landed = w.landed
    BY <1>1, <1>4 DEF Goes, LocalsOK, Locals
  <2>2. w'.cleared \in BOOLEAN /\ w'.landed.known \in BOOLEAN /\ w'.pc \in Typing
    BY <1>1, <2>1 DEF LocalsOK, Typing
  <2>3. ASSUME Calm, TypesOn
        PROVE  ~w'.landed.known /\ \A x \in Fields : x # focus => text'[x] \in Starts
    <3>1. <<>> \in Starts
      BY DEF Starts
    <3> QED BY <1>1, <1>3, <2>1, <2>3, <3>1 DEF TypesOn
  <2> QED BY <1>1, <1>2, <1>3, <1>4, <2>1, <2>2, <2>3, TypesNext
<1>5. CASE Answers([NoAnswer EXCEPT !.why = "failed"])
  <2>1. /\ w' = [w EXCEPT !.pc = "done"] /\ DOMAIN answer' = Report /\ answer'.verified = FALSE
        /\ answer'.why # "missed"
    BY <1>5 DEF Answers, Goes, NoAnswer, Report
  <2> QED BY <1>1, <1>2, <1>3, <2>1, TypesEnd
<1> QED BY <1>4, <1>5 DEF NativeClear

LEMMA NativeTypeKeeps == TextInv /\ NativeType => TextInv'
<1> SUFFICES ASSUME TextInv, NativeType
             PROVE  TextInv'
  OBVIOUS
<1>1. w.pc = "ntype" /\ w.pc \in Typing /\ ScreenOK /\ LocalsOK
  BY DEF NativeType, TextInv, Typing
<1>2. UNCHANGED <<field, platform, call, focus, mounted, tag, events, before>>
  BY DEF NativeType, fixed
<1>3. /\ text' = [x \in Fields |-> text'[x]]
      /\ \A x \in Fields : x # focus => text'[x] = text[x]
  <2>1. text = [x \in Fields |-> text[x]]
    BY <1>1 DEF ScreenOK
  <2>2. text' = text \/ \E t : text' = [text EXCEPT ![focus] = t]
    BY DEF NativeType, Types
  <2> QED BY <2>1, <2>2
<1>4. CASE Goes("nread") /\ UNCHANGED answer
  <2>1. /\ w'.pc = "nread" /\ DOMAIN w' = Locals /\ w'.native = w.native /\ w'.snap = w.snap
        /\ w'.retried = w.retried /\ w'.cleared = w.cleared /\ w'.landed = w.landed
    BY <1>1, <1>4 DEF Goes, LocalsOK, Locals
  <2>2. w'.cleared \in BOOLEAN /\ w'.landed.known \in BOOLEAN /\ w'.pc \in Typing
    BY <1>1, <2>1 DEF LocalsOK, Typing
  <2>3. ASSUME Calm, TypesOn
        PROVE  ~w'.landed.known /\ \A x \in Fields : x # focus => text'[x] \in Starts
    BY <1>1, <1>3, <2>1, <2>3 DEF TypesOn
  <2> QED BY <1>1, <1>2, <1>3, <1>4, <2>1, <2>2, <2>3, TypesNext
<1>5. CASE Answers([NoAnswer EXCEPT !.path = "hid", !.why = "failed"])
  <2>1. /\ w' = [w EXCEPT !.pc = "done"] /\ DOMAIN answer' = Report /\ answer'.verified = FALSE
        /\ answer'.why # "missed"
    BY <1>5 DEF Answers, Goes, NoAnswer, Report
  <2> QED BY <1>1, <1>2, <1>3, <2>1, TypesEnd
<1> QED BY <1>4, <1>5 DEF NativeType

\* A dump that shows what was sent is of now, and shows it in the field with the focus.
LEMMA GoodIsFocused ==
  ASSUME TextInv, TypesOn, NEW dump \in Dumps, NEW i, i # 0, i = Picked(w.snap, dump),
         Matched(dump[i].text, PriorOf(w.snap, dump, i))
  PROVE  focus # NoField /\ EndsWith(text[focus], call.sent)
<1>1. ScreenOK /\ SnapOK /\ CallOK
  BY DEF TextInv, TypesOn
<1>2. PICK n \in Nat : DOMAIN dump = 1..n /\ n = Len(dump)
  BY <1>1, DumpShows
<1>3. i \in 1..n
  <2> DEFINE Changed == {k \in Nodes(dump) : w.snap[k].text # dump[k].text}
  <2>1. Changed \in SUBSET (1..n)
    BY <1>2 DEF Nodes
  <2>2. Only(Changed) # 0 => Only(Changed) \in 1..n
    BY <2>1, OnlyOne
  <2>3. (i = 1 /\ Len(dump) = 1) \/ i = Only(Changed)
    BY DEF Picked
  <2> QED BY <1>2, <2>2, <2>3
<1>4. PICK t \in {Ascii, Accented} : t = call.sent
  BY <1>1 DEF CallOK
<1>5. \A s \in Shown : ~EndsWith(s, t) /\ EndsWith(s \o t, t)
  BY ShownIsNotSent
<1>6. PriorOf(w.snap, dump, i) \in Shown
  <2>1. <<>> \in Shown
    BY DEF Shown, Starts
  <2>2. CASE Len(w.snap) = Len(dump)
    BY <1>1, <1>2, <1>3, <2>1, <2>2 DEF PriorOf, SnapOK
  <2>3. CASE Len(w.snap) # Len(dump)
    BY <2>1, <2>3 DEF PriorOf
  <2> QED BY <2>2, <2>3
<1>7. EndsWith(dump[i].text, t)
  BY <1>4, <1>5, <1>6 DEF Matched
<1>8. dump[i].text \notin Shown
  BY <1>5, <1>7
<1>9. PICK x \in Fields : dump[i].text = text[x]
  BY <1>1, <1>2, <1>3, <1>8, DumpShows DEF Shown
<1>10. x = focus
  BY <1>8, <1>9 DEF TypesOn, Shown
<1> QED BY <1>4, <1>7, <1>9, <1>10 DEF Fields, NoField

LEMMA NativeReadKeeps == TextInv /\ NativeRead => TextInv'
<1> SUFFICES ASSUME TextInv, NativeRead
             PROVE  TextInv'
  OBVIOUS
<1> USE DEF fixed, screen
<1>1. w.pc = "nread" /\ w.pc \in Typing /\ ScreenOK /\ LocalsOK
  BY DEF NativeRead, TextInv, Typing
<1>2. UNCHANGED <<field, platform, call, text, focus, mounted, tag, answer, events, before>>
  BY DEF NativeRead
<1>3. text' = [x \in Fields |-> text'[x]]
  BY <1>1, <1>2 DEF ScreenOK
<1>4. CASE w' = [w EXCEPT !.pc = IF w.polls = 2 THEN "nverdict" ELSE "nread", !.polls = @ + 1]
  <2>1. /\ w'.pc \in {"nread", "nverdict"} /\ DOMAIN w' = Locals /\ w'.native = w.native /\ w'.snap = w.snap
        /\ w'.retried = w.retried /\ w'.cleared = w.cleared /\ w'.landed = w.landed
    BY <1>1, <1>4 DEF LocalsOK, Locals
  <2>2. w'.cleared \in BOOLEAN /\ w'.landed.known \in BOOLEAN /\ w'.pc \in Typing
    BY <1>1, <2>1 DEF LocalsOK, Typing
  <2> QED BY <1>1, <1>2, <1>3, <2>1, <2>2, TypesNext DEF TypesOn
<1>5. ASSUME NEW dump \in Dumps, w' = NativeSeen(dump)
      PROVE  TextInv'
  <2>1. PICK i : i = Picked(w.snap, dump)
    OBVIOUS
  <2>2. PICK good \in BOOLEAN : good <=> i # 0 /\ Matched(dump[i].text, PriorOf(w.snap, dump, i))
    OBVIOUS
  <2>3. CASE i # 0 /\ dump[i].secure
    <3>1. w' = [w EXCEPT !.pc = "nverdict", !.masked = TRUE, !.landed = Unknown]
      BY <1>5, <2>1, <2>3 DEF NativeSeen
    <3>2. /\ w'.pc \in Typing /\ w'.pc = "nverdict" /\ DOMAIN w' = Locals /\ w'.native = w.native
          /\ w'.snap = w.snap /\ w'.retried = w.retried /\ w'.cleared \in BOOLEAN
          /\ w'.landed.known \in BOOLEAN /\ ~w'.landed.known
      BY <1>1, <3>1 DEF LocalsOK, Locals, Typing, Unknown
    <3> QED BY <1>1, <1>2, <1>3, <3>2, TypesNext DEF TypesOn
  <2>4. CASE ~(i # 0 /\ dump[i].secure)
    <3>1. /\ w'.pc \in {"nread", "nverdict"} /\ DOMAIN w' = Locals /\ w'.native = w.native
          /\ w'.snap = w.snap /\ w'.retried = w.retried /\ (w'.cleared <=> good) /\ w'.cleared \in BOOLEAN
          /\ w'.landed = IF i = 0 THEN w.landed ELSE Read(dump[i].text)
      BY <1>1, <1>5, <2>1, <2>2, <2>4 DEF NativeSeen, LocalsOK, Locals
    <3>2. w'.landed.known \in BOOLEAN /\ w'.pc \in Typing
      <4>1. w.landed.known \in BOOLEAN /\ Read(dump[i].text).known \in BOOLEAN
        BY <1>1 DEF LocalsOK, Read
      <4>2. w'.landed = w.landed \/ w'.landed = Read(dump[i].text)
        BY <3>1
      <4> QED BY <3>1, <4>1, <4>2 DEF Typing
    <3>3. ASSUME TypesOn, w'.cleared
          PROVE  focus # NoField /\ EndsWith(text[focus], call.sent)
      BY <2>1, <2>2, <3>1, <3>3, GoodIsFocused
    <3> QED BY <1>1, <1>2, <1>3, <3>1, <3>2, <3>3, TypesNext DEF TypesOn
  <2> QED BY <2>3, <2>4
<1> QED BY <1>4, <1>5 DEF NativeRead

LEMMA NativeVerdictKeeps == TextInv /\ NativeVerdict => TextInv'
<1> SUFFICES ASSUME TextInv, NativeVerdict
             PROVE  TextInv'
  OBVIOUS
<1> USE DEF fixed, screen
<1>1. w.pc \in Typing /\ ScreenOK /\ LocalsOK
  BY DEF NativeVerdict, TextInv, Typing
<1>2. UNCHANGED <<field, platform, call, text, focus, mounted, tag, events, before>>
  BY DEF NativeVerdict
<1>3. /\ w' = [w EXCEPT !.pc = "done"] /\ DOMAIN answer' = Report /\ answer'.why # "missed"
      /\ (answer'.verified <=> w.landed.known /\ w.cleared) /\ answer'.verified \in BOOLEAN
  BY <1>1 DEF NativeVerdict, Answers, Goes, NoAnswer, Report, LocalsOK
<1>4. text' = [x \in Fields |-> text'[x]]
  BY <1>1, <1>2 DEF ScreenOK
<1> QED BY <1>1, <1>2, <1>3, <1>4, TypesEnd

-----------------------------------------------------------------------------
(* The screen moves on its own, and what the call does is not calm any more. *)

LEMMA ScreenMoves == TextInv /\ (FocusMoves \/ Mounts \/ Remounts) => TextInv'
<1> SUFFICES ASSUME TextInv, FocusMoves \/ Mounts \/ Remounts
             PROVE  TextInv'
  OBVIOUS
<1> USE DEF FocusMoves, Mounts, Remounts, Untouched, fixed
<1>1. /\ events' = events + 1 /\ w.pc # "done" /\ UNCHANGED <<field, platform, call, w, answer, before>>
  BY DEF Running
<1>2. ScreenOK'
  <2>1. text' = [x \in Fields |-> text'[x]]
    BY DEF TextInv, ScreenOK
  <2>2. focus' \in mounted' \union {NoField} /\ mounted' \in {Fields, {"g"}}
    BY DEF TextInv, ScreenOK, Fields
  <2>3. tag' \in Nat \ {0} /\ events' \in Nat /\ before'.events \in Nat /\ before'.events <= events'
    BY <1>1 DEF TextInv, ScreenOK
  <2> QED BY <2>1, <2>2, <2>3 DEF ScreenOK
<1>3. ~Calm'
  BY <1>1 DEF TextInv, ScreenOK, Calm
<1>4. CallOK' /\ LocalsOK'
  BY <1>1 DEF TextInv, CallOK, LocalsOK
<1>5. Untyped => Untyped'
  BY DEF TextInv, ScreenOK, Untyped, Starts, Fields
<1>6. LooksOK'
  BY <1>1, <1>3, <1>5 DEF TextInv, LooksOK
<1>7. ActsOK' /\ TypesOK' /\ OtherOK'
  BY <1>1, <1>3 DEF TextInv, ActsOK, TypesOK, OtherOK
<1>8. OnlyTheField' /\ VerifiedHeld'
  BY <1>3 DEF OnlyTheField, OthersKept, MissUntouched, VerifiedHeld
<1> QED BY <1>2, <1>4, <1>6, <1>7, <1>8 DEF TextInv

LEMMA TextStutters == TextInv /\ UNCHANGED vars => TextInv'
<1> SUFFICES ASSUME TextInv, UNCHANGED vars
             PROVE  TextInv'
  OBVIOUS
<1> USE DEF vars
<1>1. ScreenOK' /\ CallOK' /\ LocalsOK'
  BY DEF TextInv, ScreenOK, CallOK, LocalsOK
<1>2. LooksOK' /\ OtherOK'
  BY DEF TextInv, LooksOK, Untyped, OtherOK, Calm
<1>3. ActsOK'
  BY DEF TextInv, ActsOK, ActsOn, Aimed, Reached, Hid, ReadsOK, SnapOK, Calm
<1>4. TypesOK'
  BY DEF TextInv, TypesOK, TypesOn, Aimed, Reached, Hid, SnapOK, Calm
<1>5. OnlyTheField'
  BY DEF TextInv, OnlyTheField, OthersKept, MissUntouched, Done, Calm
<1>6. VerifiedHeld'
  BY DEF TextInv, VerifiedHeld, Reached, Wanted, Done, Calm
<1> QED BY <1>1, <1>2, <1>3, <1>4, <1>5, <1>6 DEF TextInv

LEMMA TextSteps == TextInv /\ [Next]_vars => TextInv'
BY TextStutters, BeginsKeeps, FindKeeps, MeansOtherKeeps, FocusKeeps, PriorKeeps, ClearsKeep, WritesKeep, RestoreKeeps,
   ReadKeeps, JudgeKeeps, NativeBeforeKeeps, NativeClearKeeps, NativeTypeKeeps, NativeReadKeeps,
   NativeVerdictKeeps, ScreenMoves DEF Next

\* The inductive invariant of one call of input_text.
THEOREM TextInvariant == Spec => []TextInv
BY Starting, TextSteps, PTL DEF Spec

\* input_text: a text reported verified is in the field, give or take the
\* decoration the field adds, if nobody else touched the screen (textEntry.ts).
THEOREM VerifiedIsHeld == Spec => []VerifiedHeld
<1>1. TextInv => VerifiedHeld
  BY DEF TextInv
<1> QED BY <1>1, TextInvariant, PTL

\* input_text writes into no field but the one it names, and an answer that
\* found none has written nothing (textEntry.ts, inputTarget.ts).
THEOREM OthersAreKept == Spec => []OnlyTheField
<1>1. TextInv => OnlyTheField
  BY DEF TextInv
<1> QED BY <1>1, TextInvariant, PTL

(*************************************************************************)
(* The script in the app.                                                *)
(*************************************************************************)

HookFields == {"step", "outer", "inner", "rule", "log", "flipped"}
HookSteps  == {"idle", "open", "sent", "shadow", "mock", "unread", "reading", "done"}
Row        == [what : {"request", "mock", "response", "error", "body"}, layer : {"xhr", "fetch", "mock"}]

Count(log, what) == Cardinality({i \in DOMAIN log : log[i].what = what})
Begun(log)  == Count(log, "request")
Ended(log)  == Count(log, "response") + Count(log, "error")
Bodies(log) == Count(log, "body")
OnlyBegun(log) == /\ Len(log) = 1 /\ log[1].what = "request"
                  /\ Begun(log) = 1 /\ Ended(log) = 0 /\ Bodies(log) = 0
MockTold(log)  == /\ Len(log) = 3 /\ log[1].what = "request" /\ log[2].what = "mock"
                  /\ log[3].what \in {"response", "error"}

RequestTypes(q) ==
    /\ q = [i \in HookFields |-> q[i]] /\ q.step \in HookSteps /\ q.rule \in Hook!Rules
    /\ q.log \in Seq(Row) /\ q.outer \in BOOLEAN /\ q.inner \in BOOLEAN /\ q.flipped \in BOOLEAN
    /\ ~(q.outer /\ q.inner)

\* What a request that was sent, and not muted or unmuted on its way, has told: all of
\* it or nothing, by the layer that took it.
RequestOK(q) ==
    /\ RequestTypes(q)
    /\ q.step \in {"idle", "open"} => q.log = <<>> /\ q.rule = "none" /\ ~q.outer
    /\ q.step = "idle" => ~q.inner
    /\ q.step = "sent" =>
          /\ q.rule = "none" /\ Begun(q.log) <= 1 /\ Ended(q.log) = 0 /\ Bodies(q.log) = 0
          /\ ~q.flipped => Begun(q.log) = IF (q.inner \/ q.outer) /\ ~muted THEN 1 ELSE 0
    /\ q.step = "reading" =>
          /\ q.rule = "none" /\ q.inner /\ Begun(q.log) <= 1 /\ Ended(q.log) <= 1 /\ Bodies(q.log) = 0
          /\ ~q.flipped => Begun(q.log) = Ended(q.log) /\ Ended(q.log) = IF muted THEN 0 ELSE 1
    /\ q.step \in {"shadow", "mock", "unread"} => q.rule # "none" /\ OnlyBegun(q.log)
    /\ q.step = "mock" => q.rule # "tamper"
    /\ q.step = "done" =>
          /\ Begun(q.log) <= 1 /\ Ended(q.log) <= 1 /\ (Bodies(q.log) > 0 => q.flipped \/ Ended(q.log) = 1)
          /\ ~q.flipped => Ended(q.log) = Begun(q.log)
          /\ q.rule # "none" => MockTold(q.log)

HookParts == /\ muted \in BOOLEAN /\ requests = [r \in Req |-> requests[r]]
             /\ \A r \in Req : RequestOK(requests[r])

-----------------------------------------------------------------------------
(* What a report adds to a log.                                            *)

LEMMA CountIs ==
    ASSUME NEW log \in Seq(Row), NEW what
    PROVE  /\ Count(log, what) \in Nat /\ Len(log) \in Nat /\ DOMAIN log = 1..Len(log)
           /\ IsFiniteSet({i \in DOMAIN log : log[i].what = what})
           /\ log = <<>> => Count(log, what) = 0
<1>1. Len(log) \in Nat /\ DOMAIN log = 1..Len(log)
  BY LenProperties
<1>2. IsFiniteSet({i \in DOMAIN log : log[i].what = what})
  <2>1. {i \in DOMAIN log : log[i].what = what} \subseteq 1..Len(log)
    BY <1>1
  <2>2. IsFiniteSet(1..Len(log))
    BY <1>1, FS_Interval
  <2> QED BY <2>1, <2>2, FS_Subset
<1>3. log = <<>> => {i \in DOMAIN log : log[i].what = what} = {}
  <2>1. log = <<>> => Len(log) = 0
    BY EmptySeq
  <2> QED BY <1>1, <2>1
<1> QED BY <1>1, <1>2, <1>3, FS_CardinalityType, FS_EmptySet DEF Count

LEMMA AppendCounts ==
    ASSUME NEW log \in Seq(Row), NEW row \in Row, NEW what
    PROVE  Count(Append(log, row), what) = Count(log, what) + IF row.what = what THEN 1 ELSE 0
<1>1. PICK new : new = Append(log, row)
  OBVIOUS
<1>2. PICK n : n = Len(log)
  OBVIOUS
<1>3. /\ new \in Seq(Row) /\ Len(new) = n + 1 /\ new[n + 1] = row /\ n \in Nat
      /\ \A i \in 1..n : new[i] = log[i]
  BY <1>1, <1>2, AppendProperties, LenProperties
<1>4. DOMAIN new = 1..(n + 1) /\ DOMAIN log = 1..n
  BY <1>2, <1>3, LenProperties
<1> DEFINE was == {i \in DOMAIN log : log[i].what = what}
           is  == {i \in DOMAIN new : new[i].what = what}
<1>5. IsFiniteSet(was) /\ n + 1 \notin was /\ Cardinality(was) \in Nat
  <2>1. n + 1 \notin was
    BY <1>3, <1>4
  <2>2. IsFiniteSet(was)
    BY CountIs
  <2> QED BY <2>1, <2>2, FS_CardinalityType
<1>6. \A i \in 1..(n + 1) : i \in 1..n \/ i = n + 1
  BY <1>3
<1>7. CASE row.what = what
  <2>1. is = was \cup {n + 1}
    BY <1>3, <1>4, <1>6, <1>7
  <2>2. Cardinality(is) = Cardinality(was) + 1
    BY <1>5, <2>1, FS_AddElement
  <2> QED BY <1>1, <1>7, <2>2 DEF Count
<1>8. CASE row.what # what
  <2>1. is = was
    BY <1>3, <1>4, <1>6, <1>8
  <2>2. Count(new, what) = Count(log, what) /\ Count(log, what) \in Nat
    BY <1>5, <2>1 DEF Count
  <2> HIDE DEF was, is
  <2> QED BY <1>1, <1>8, <2>2
<1> QED BY <1>7, <1>8

\* new is log with what said last.
Says(new, log, what) ==
    /\ new \in Seq(Row) /\ Len(new) = Len(log) + 1 /\ new[Len(new)].what = what
    /\ \A i \in 1..Len(log) : new[i] = log[i]
    /\ Begun(new) = Begun(log) + IF what = "request" THEN 1 ELSE 0
    /\ Ended(new) = Ended(log) + IF what \in {"response", "error"} THEN 1 ELSE 0
    /\ Bodies(new) = Bodies(log) + IF what = "body" THEN 1 ELSE 0

LEMMA EmitSays ==
    ASSUME NEW log \in Seq(Row), NEW what \in {"request", "mock", "response", "error", "body"},
           NEW layer \in {"xhr", "fetch", "mock"}, NEW mocked \in BOOLEAN
    PROVE  LET new == Hook!Emit(log, what, layer, mocked)
           IN  IF muted /\ ~mocked THEN new = log ELSE Says(new, log, what)
<1>1. PICK row : row = [what |-> what, layer |-> layer]
  OBVIOUS
<1>2. row \in Row /\ row.what = what
  BY <1>1 DEF Row
<1>3. PICK new : new = Append(log, row)
  OBVIOUS
<1>4. /\ new \in Seq(Row) /\ Len(new) = Len(log) + 1 /\ new[Len(log) + 1] = row
      /\ \A i \in 1..Len(log) : new[i] = log[i]
  BY <1>2, <1>3, AppendProperties
<1>5. \A x : Count(new, x) = Count(log, x) + IF what = x THEN 1 ELSE 0
  BY <1>2, <1>3, AppendCounts
<1>6. \A x : Count(log, x) \in Nat
  BY CountIs
<1>7. Begun(new) = Begun(log) + IF what = "request" THEN 1 ELSE 0
  BY <1>5 DEF Begun
<1>8. Bodies(new) = Bodies(log) + IF what = "body" THEN 1 ELSE 0
  BY <1>5 DEF Bodies
<1>9. Ended(new) = Ended(log) + IF what \in {"response", "error"} THEN 1 ELSE 0
  BY <1>5, <1>6 DEF Ended
<1>10. Says(new, log, what)
  BY <1>2, <1>4, <1>7, <1>8, <1>9 DEF Says
<1> QED BY <1>1, <1>3, <1>10 DEF Hook!Emit

LEMMA LogCounts ==
    ASSUME NEW log \in Seq(Row)
    PROVE  /\ Begun(log) \in Nat /\ Ended(log) \in Nat /\ Bodies(log) \in Nat /\ Len(log) \in Nat
           /\ log = <<>> => Begun(log) = 0 /\ Ended(log) = 0 /\ Bodies(log) = 0 /\ Len(log) = 0
<1>1. \A x : Count(log, x) \in Nat /\ (log = <<>> => Count(log, x) = 0)
  BY CountIs
<1>2. Len(log) \in Nat /\ (log = <<>> => Len(log) = 0)
  BY LenProperties, EmptySeq
<1> QED BY <1>1, <1>2 DEF Begun, Ended, Bodies

\* The first report of a request a rule answers.
LEMMA BeginsIt ==
    ASSUME NEW log \in Seq(Row), log = <<>>, NEW new, Says(new, log, "request")
    PROVE  OnlyBegun(new) /\ new \in Seq(Row)
<1>1. new \in Seq(Row) /\ Len(new) = Len(log) + 1 /\ new[Len(new)].what = "request" /\ Begun(new) = Begun(log) + 1
  BY DEF Says
<1>2. Ended(new) = Ended(log) + 0 /\ Bodies(new) = Bodies(log) + 0
  BY DEF Says
<1>3. Begun(log) = 0 /\ Ended(log) = 0 /\ Bodies(log) = 0 /\ Len(log) = 0
  BY LogCounts
<1>4. Len(new) = 1
  BY <1>1, <1>3
<1> QED BY <1>1, <1>2, <1>3, <1>4 DEF OnlyBegun

-----------------------------------------------------------------------------
(* The steps of one request.                                               *)

LEMMA RequestStep ==
    ASSUME HookParts, NEW r \in Req, NEW x, RequestOK(x), Hook!Becomes(r, x)
    PROVE  HookParts'
<1>1. requests' = [requests EXCEPT ![r] = x] /\ muted' = muted
  BY DEF Hook!Becomes
<1>2. /\ requests' = [q \in Req |-> requests'[q]]
      /\ \A q \in Req : requests'[q] = IF q = r THEN x ELSE requests[q]
  BY <1>1 DEF HookParts
<1>3. \A q \in Req : RequestOK(requests[q]) /\ RequestOK(x)
  BY DEF HookParts
<1>4. ASSUME NEW q \in Req
      PROVE  RequestOK(requests[q])'
  <2>1. PICK y : y = requests'[q]
    OBVIOUS
  <2>2. RequestOK(y)
    BY <1>2, <1>3, <2>1
  <2>3. RequestOK(y)'
    BY <1>1, <2>2 DEF RequestOK
  <2> QED BY <2>1, <2>3 DEF RequestOK
<1> QED BY <1>1, <1>2, <1>4 DEF HookParts

LEMMA SentIs ==
    ASSUME NEW q, RequestTypes(q), NEW rule \in Hook!Rules, NEW x, x = Hook!Sent(q, rule), q.rule = "none",
           q.inner => q.log = <<>>, ~q.inner => rule = "none",
           Begun(q.log) = IF q.outer /\ ~muted THEN 1 ELSE 0, Ended(q.log) = 0, Bodies(q.log) = 0
    PROVE  RequestOK(x)
<1>1. CASE ~q.inner
  <2>1. x = [q EXCEPT !.step = "sent"]
    BY <1>1 DEF Hook!Sent
  <2>2. /\ x = [i \in HookFields |-> x[i]] /\ x.step = "sent" /\ x.rule = "none" /\ x.log = q.log
        /\ x.inner = q.inner /\ x.outer = q.outer /\ x.flipped = q.flipped
    BY <2>1 DEF RequestTypes, HookFields
  <2> QED BY <1>1, <2>2 DEF RequestOK, RequestTypes, HookSteps
<1>2. CASE q.inner
  <2>1. PICK mocked \in BOOLEAN : mocked = (rule # "none")
    OBVIOUS
  <2>2. PICK log : log = Hook!Emit(q.log, "request", "xhr", mocked)
    OBVIOUS
  <2>3. PICK step : step = Hook!AfterMatch(rule)
    OBVIOUS
  <2>4. x = [q EXCEPT !.step = step, !.rule = rule, !.log = log]
    BY <1>2, <2>1, <2>2, <2>3 DEF Hook!Sent
  <2>5. /\ x = [i \in HookFields |-> x[i]] /\ x.step = step /\ x.rule = rule /\ x.log = log
        /\ x.inner = q.inner /\ x.outer = q.outer /\ x.flipped = q.flipped
    BY <2>4 DEF RequestTypes, HookFields
  <2>6. q.log = <<>> /\ q.log \in Seq(Row) /\ ~q.outer
    BY <1>2 DEF RequestTypes
  <2>7. IF muted /\ ~mocked THEN log = q.log ELSE Says(log, q.log, "request")
    BY <2>2, <2>6, EmitSays
  <2>8. CASE rule = "none"
    <3>1. step = "sent"
      BY <2>3, <2>8 DEF Hook!AfterMatch
    <3>2. Begun(q.log) = 0
      BY <2>6
    <3>3. /\ log \in Seq(Row) /\ Begun(log) = (IF ~muted THEN 1 ELSE 0) /\ Ended(log) = 0 /\ Bodies(log) = 0
      <4>1. CASE muted
        BY <2>1, <2>6, <2>7, <2>8, <3>2, <4>1
      <4>2. CASE ~muted
        BY <2>7, <3>2, <4>2 DEF Says
      <4> QED BY <4>1, <4>2
    <3> QED BY <1>2, <2>5, <2>8, <3>1, <3>3 DEF RequestOK, RequestTypes, HookSteps
  <2>9. CASE rule # "none"
    <3>1. step \in {"shadow", "mock"} /\ (step = "mock" => rule # "tamper")
      BY <2>3, <2>9 DEF Hook!AfterMatch, Hook!Rules
    <3>2. OnlyBegun(log) /\ log \in Seq(Row)
      BY <2>1, <2>6, <2>7, <2>9, BeginsIt
    <3> QED BY <1>2, <2>5, <2>9, <3>1, <3>2 DEF RequestOK, RequestTypes, HookSteps
  <2> QED BY <2>8, <2>9
<1> QED BY <1>1, <1>2 DEF RequestTypes

LEMMA RequestIs ==
    ASSUME HookParts, NEW r \in Req
    PROVE  RequestOK(requests[r]) /\ RequestTypes(requests[r])
BY DEF HookParts, RequestOK

LEMMA XhrOpenKeeps ==
    ASSUME HookParts, NEW r \in Req, Hook!XhrOpen(r)
    PROVE  HookParts'
<1>1. PICK q : q = requests[r]
  OBVIOUS
<1>2. PICK x : x = [q EXCEPT !.step = "open", !.inner = Hook!Active]
  OBVIOUS
<1>3. q.step = "idle" /\ Hook!Becomes(r, x) /\ RequestOK(q) /\ RequestTypes(q)
  BY <1>1, <1>2, RequestIs DEF Hook!XhrOpen
<1>4. /\ x = [i \in HookFields |-> x[i]] /\ x.step = "open" /\ x.rule = q.rule /\ x.log = q.log
      /\ x.inner \in BOOLEAN /\ x.outer = q.outer /\ x.flipped = q.flipped
  BY <1>2, <1>3 DEF RequestTypes, HookFields, Hook!Active
<1>5. RequestOK(x)
  BY <1>3, <1>4 DEF RequestOK, RequestTypes, HookSteps
<1> QED BY <1>3, <1>5, RequestStep

LEMMA XhrSendKeeps ==
    ASSUME HookParts, NEW r \in Req, NEW rule \in Hook!Rules, Hook!XhrSend(r, rule)
    PROVE  HookParts'
<1>1. PICK q : q = requests[r]
  OBVIOUS
<1>2. PICK x : x = Hook!Sent(q, rule)
  OBVIOUS
<1>3. q.step = "open" /\ (rule # "none" => q.inner) /\ Hook!Becomes(r, x) /\ RequestOK(q) /\ RequestTypes(q)
  BY <1>1, <1>2, RequestIs DEF Hook!XhrSend
<1>4. q.log = <<>> /\ q.rule = "none" /\ ~q.outer /\ q.log \in Seq(Row)
  BY <1>3 DEF RequestOK, RequestTypes
<1>5. Begun(q.log) = 0 /\ Ended(q.log) = 0 /\ Bodies(q.log) = 0
  BY <1>4, LogCounts
<1>6. Begun(q.log) = IF q.outer /\ ~muted THEN 1 ELSE 0
  BY <1>4, <1>5
<1>7. RequestOK(x)
  BY <1>2, <1>3, <1>4, <1>5, <1>6, SentIs
<1> QED BY <1>3, <1>7, RequestStep

\* A fetch that the fetch layer reports has begun, unless it is muted.
LEMMA FetchBegins ==
    ASSUME NEW log, NEW outer \in BOOLEAN, muted \in BOOLEAN,
           log = IF outer THEN Hook!Emit(<<>>, "request", "fetch", FALSE) ELSE <<>>
    PROVE  /\ log \in Seq(Row) /\ Begun(log) = (IF outer /\ ~muted THEN 1 ELSE 0)
           /\ Ended(log) = 0 /\ Bodies(log) = 0 /\ (~outer => log = <<>>)
<1>1. PICK none : none = <<>> /\ none \in Seq(Row)
  BY EmptySeq
<1>2. Begun(none) = 0 /\ Ended(none) = 0 /\ Bodies(none) = 0
  BY <1>1, LogCounts
<1>3. CASE outer /\ ~muted
  <2>1. Says(log, none, "request")
    <3>1. log = Hook!Emit(none, "request", "fetch", FALSE)
      BY <1>1, <1>3
    <3> QED BY <1>1, <1>3, <3>1, EmitSays
  <2>2. log \in Seq(Row) /\ Begun(log) = 1 /\ Ended(log) = 0 /\ Bodies(log) = 0
    BY <1>1, <2>1, BeginsIt DEF OnlyBegun
  <2> QED BY <1>3, <2>2
<1>4. CASE ~outer \/ muted
  <2>1. log = none
    BY <1>1, <1>4, EmitSays
  <2> QED BY <1>1, <1>2, <1>4, <2>1
<1> QED BY <1>3, <1>4

LEMMA RnFetchKeeps ==
    ASSUME HookParts, NEW r \in Req, NEW rule \in Hook!Rules, Hook!RnFetch(r, rule)
    PROVE  HookParts'
<1>1. PICK p : p = requests[r]
  OBVIOUS
<1>2. PICK outer \in BOOLEAN : outer = (fetch = "wrapped" /\ ~Hook!Active)
  OBVIOUS
<1>3. PICK inner \in BOOLEAN : inner = Hook!Active
  BY DEF Hook!Active
<1>4. RequestOK(p) /\ RequestTypes(p) /\ p.step = "idle"
  BY <1>1, RequestIs DEF Hook!RnFetch
<1>5. p.log = <<>> /\ p.rule = "none"
  BY <1>4 DEF RequestOK
<1>6. PICK log : log = IF outer THEN Hook!Emit(<<>>, "request", "fetch", FALSE) ELSE <<>>
  OBVIOUS
<1>7. PICK q : q = [p EXCEPT !.outer = outer, !.inner = inner, !.log = log]
  OBVIOUS
<1>8. PICK x : x = Hook!Sent(q, rule)
  OBVIOUS
<1>9. (rule # "none" => inner) /\ Hook!Becomes(r, x)
  <2>1. q = [p EXCEPT !.outer = outer, !.inner = Hook!Active,
                      !.log = IF outer THEN Hook!Emit(p.log, "request", "fetch", FALSE) ELSE p.log]
    BY <1>3, <1>5, <1>6, <1>7
  <2> QED BY <1>1, <1>2, <1>3, <1>8, <2>1 DEF Hook!RnFetch
<1>10. /\ q = [i \in HookFields |-> q[i]] /\ q.outer = outer /\ q.inner = inner /\ q.log = log
       /\ q.rule = "none" /\ q.step = "idle" /\ q.flipped = p.flipped
  BY <1>4, <1>5, <1>7 DEF RequestTypes, HookFields
<1>11. /\ log \in Seq(Row) /\ Begun(log) = (IF outer /\ ~muted THEN 1 ELSE 0)
       /\ Ended(log) = 0 /\ Bodies(log) = 0 /\ (~outer => log = <<>>)
  BY <1>6, FetchBegins DEF HookParts
<1>12. ~(outer /\ inner)
  BY <1>2, <1>3
<1>13. RequestTypes(q)
  BY <1>4, <1>10, <1>11, <1>12 DEF RequestTypes, HookSteps, Hook!Rules
<1>14. RequestOK(x)
  BY <1>8, <1>9, <1>10, <1>11, <1>12, <1>13, SentIs
<1> QED BY <1>9, <1>14, RequestStep

LEMMA PageFetchKeeps ==
    ASSUME HookParts, NEW r \in Req, NEW rule \in Hook!Rules, Hook!PageFetch(r, rule)
    PROVE  HookParts'
<1>1. PICK p : p = requests[r]
  OBVIOUS
<1>2. PICK outer \in BOOLEAN : outer = (fetch = "wrapped" /\ ~Hook!Active)
  OBVIOUS
<1>3. RequestOK(p) /\ RequestTypes(p) /\ p.step = "idle"
  BY <1>1, RequestIs DEF Hook!PageFetch
<1>4. p.log = <<>> /\ p.rule = "none" /\ ~p.inner /\ ~p.outer
  BY <1>3 DEF RequestOK
<1>5. CASE rule = "none"
  <2>1. PICK log : log = IF outer THEN Hook!Emit(<<>>, "request", "fetch", FALSE) ELSE <<>>
    OBVIOUS
  <2>2. PICK x : x = [p EXCEPT !.step = "sent", !.outer = outer, !.log = log]
    OBVIOUS
  <2>3. Hook!Becomes(r, x)
    <3>1. x = [p EXCEPT !.step = "sent", !.outer = outer,
                        !.log = IF outer THEN Hook!Emit(p.log, "request", "fetch", FALSE) ELSE p.log]
      BY <1>4, <2>1, <2>2
    <3> QED BY <1>1, <1>2, <1>5, <3>1 DEF Hook!PageFetch
  <2>4. /\ x = [i \in HookFields |-> x[i]] /\ x.outer = outer /\ x.inner = p.inner /\ x.log = log
        /\ x.rule = "none" /\ x.step = "sent" /\ x.flipped = p.flipped
    BY <1>3, <1>4, <2>2 DEF RequestTypes, HookFields
  <2>5. /\ log \in Seq(Row) /\ Begun(log) = (IF outer /\ ~muted THEN 1 ELSE 0)
        /\ Ended(log) = 0 /\ Bodies(log) = 0
    BY <2>1, FetchBegins DEF HookParts
  <2>6. RequestOK(x)
    BY <1>3, <1>4, <2>4, <2>5 DEF RequestOK, RequestTypes, HookSteps, Hook!Rules
  <2> QED BY <2>3, <2>6, RequestStep
<1>6. CASE rule # "none"
  <2>1. PICK log : log = Hook!Emit(p.log, "request", "mock", TRUE)
    OBVIOUS
  <2>2. PICK step : step = Hook!AfterMatch(rule)
    OBVIOUS
  <2>3. PICK x : x = [p EXCEPT !.step = step, !.rule = rule, !.log = log]
    OBVIOUS
  <2>4. Hook!Becomes(r, x)
    BY <1>1, <1>6, <2>1, <2>2, <2>3 DEF Hook!PageFetch
  <2>5. step \in {"shadow", "mock"} /\ (step = "mock" => rule # "tamper")
    BY <1>6, <2>2 DEF Hook!AfterMatch, Hook!Rules
  <2>6. OnlyBegun(log) /\ log \in Seq(Row)
    <3>1. p.log \in Seq(Row)
      BY <1>3 DEF RequestTypes
    <3>2. Says(log, p.log, "request")
      BY <2>1, <3>1, EmitSays
    <3> QED BY <1>4, <3>1, <3>2, BeginsIt
  <2>7. /\ x = [i \in HookFields |-> x[i]] /\ x.outer = p.outer /\ x.inner = p.inner /\ x.log = log
        /\ x.rule = rule /\ x.step = step /\ x.flipped = p.flipped
    BY <1>3, <2>3 DEF RequestTypes, HookFields
  <2>8. RequestOK(x)
    BY <1>3, <1>6, <2>5, <2>6, <2>7 DEF RequestOK, RequestTypes, HookSteps
  <2> QED BY <2>4, <2>8, RequestStep
<1> QED BY <1>5, <1>6

LEMMA ShadowFetchKeeps ==
    ASSUME HookParts, NEW r \in Req, Hook!ShadowFetch(r)
    PROVE  HookParts'
<1>1. PICK q : q = requests[r]
  OBVIOUS
<1>2. RequestOK(q) /\ RequestTypes(q) /\ q.step = "shadow"
  BY <1>1, RequestIs DEF Hook!ShadowFetch
<1>3. PICK x : /\ Hook!Becomes(r, x)
               /\ \/ \E rule \in {"replace", "fail"} : x = [q EXCEPT !.step = "mock", !.rule = rule]
                  \/ x = [q EXCEPT !.step = "unread"]
  BY <1>1 DEF Hook!ShadowFetch
<1>4. /\ x = [i \in HookFields |-> x[i]] /\ x.outer = q.outer /\ x.inner = q.inner /\ x.log = q.log
      /\ x.flipped = q.flipped
      /\ x.step \in {"mock", "unread"} /\ x.rule \in Hook!Rules /\ x.rule # "none" /\ (x.step = "mock" => x.rule # "tamper")
  BY <1>2, <1>3 DEF RequestOK, RequestTypes, HookFields, Hook!Rules
<1>5. RequestOK(x)
  BY <1>2, <1>4 DEF RequestOK, RequestTypes, HookSteps
<1> QED BY <1>3, <1>5, RequestStep

LEMMA DeliverMockKeeps ==
    ASSUME HookParts, NEW r \in Req, Hook!DeliverMock(r)
    PROVE  HookParts'
<1>1. PICK q : q = requests[r]
  OBVIOUS
<1>2. RequestOK(q) /\ RequestTypes(q) /\ q.step = "mock"
  BY <1>1, RequestIs DEF Hook!DeliverMock
<1>3. PICK used : used = Hook!Emit(q.log, "mock", "mock", TRUE)
  OBVIOUS
<1>4. PICK end \in {"response", "error"} : end = IF q.rule = "fail" THEN "error" ELSE "response"
  OBVIOUS
<1>5. PICK log : log = Hook!Emit(used, end, "mock", TRUE)
  OBVIOUS
<1>6. PICK x : x = [q EXCEPT !.step = "done", !.log = log]
  OBVIOUS
<1>7. Hook!Becomes(r, x)
  BY <1>1, <1>3, <1>4, <1>5, <1>6 DEF Hook!DeliverMock
<1>8. q.log \in Seq(Row) /\ OnlyBegun(q.log) /\ q.rule # "none"
  BY <1>2 DEF RequestOK, RequestTypes
<1>9. Says(used, q.log, "mock") /\ used \in Seq(Row)
  <2>1. Says(used, q.log, "mock")
    BY <1>3, <1>8, EmitSays
  <2> QED BY <2>1 DEF Says
<1>10. Says(log, used, end)
  BY <1>4, <1>5, <1>9, EmitSays
<1>11. Len(used) = 2 /\ used[1].what = "request" /\ used[2].what = "mock"
  BY <1>8, <1>9 DEF Says, OnlyBegun
<1>12. MockTold(log) /\ log \in Seq(Row)
  <2>1. Len(log) = 3 /\ log[1] = used[1] /\ log[2] = used[2] /\ log[Len(log)].what = end
    BY <1>10, <1>11 DEF Says
  <2> QED BY <1>4, <1>10, <1>11, <2>1 DEF MockTold, Says
<1>13. Begun(log) = 1 /\ Ended(log) = 1 /\ Bodies(log) = 0
  <2>1. Begun(used) = 1 /\ Ended(used) = 0 /\ Bodies(used) = 0
    BY <1>8, <1>9 DEF Says, OnlyBegun
  <2> QED BY <1>4, <1>10, <2>1 DEF Says
<1>14. /\ x = [i \in HookFields |-> x[i]] /\ x.outer = q.outer /\ x.inner = q.inner /\ x.log = log
       /\ x.flipped = q.flipped /\ x.step = "done" /\ x.rule = q.rule
  BY <1>2, <1>6 DEF RequestTypes, HookFields
<1>15. RequestOK(x)
  BY <1>2, <1>12, <1>13, <1>14 DEF RequestOK, RequestTypes, HookSteps
<1> QED BY <1>7, <1>15, RequestStep

LEMMA FinishKeeps ==
    ASSUME HookParts, NEW r \in Req, NEW kind \in {"response", "error"}, NEW blob \in BOOLEAN,
           Hook!Finish(r, kind, blob)
    PROVE  HookParts'
<1>1. PICK q : q = requests[r]
  OBVIOUS
<1>2. /\ RequestOK(q) /\ RequestTypes(q) /\ q.step = "sent" /\ (blob => q.inner) /\ muted \in BOOLEAN
  BY <1>1, RequestIs DEF Hook!Finish, HookParts
<1>3. PICK log : log = IF q.inner THEN Hook!Emit(q.log, kind, "xhr", FALSE)
                       ELSE IF q.outer THEN Hook!Emit(q.log, kind, "fetch", FALSE) ELSE q.log
  OBVIOUS
<1>4. PICK step : step = IF blob THEN "reading" ELSE "done"
  OBVIOUS
<1>5. PICK x : x = [q EXCEPT !.step = step, !.log = log]
  OBVIOUS
<1>6. Hook!Becomes(r, x)
  BY <1>1, <1>3, <1>4, <1>5 DEF Hook!Finish, Hook!Reported
<1>7. /\ q.log \in Seq(Row) /\ q.inner \in BOOLEAN /\ q.outer \in BOOLEAN /\ q.rule = "none"
      /\ Begun(q.log) <= 1 /\ Ended(q.log) = 0 /\ Bodies(q.log) = 0
      /\ ~q.flipped => Begun(q.log) = IF (q.inner \/ q.outer) /\ ~muted THEN 1 ELSE 0
  BY <1>2 DEF RequestOK, RequestTypes
<1>8. /\ log \in Seq(Row) /\ Begun(log) = Begun(q.log) /\ Bodies(log) = 0
      /\ Ended(log) = IF (q.inner \/ q.outer) /\ ~muted THEN 1 ELSE 0
  <2>1. CASE (q.inner \/ q.outer) /\ ~muted
    <3>1. Says(log, q.log, kind)
      BY <1>3, <1>7, <2>1, EmitSays
    <3>2. Begun(q.log) \in Nat
      BY <1>7, LogCounts
    <3> QED BY <1>7, <2>1, <3>1, <3>2 DEF Says
  <2>2. CASE ~(q.inner \/ q.outer) \/ muted
    <3>1. log = q.log
      BY <1>3, <1>7, <2>2, EmitSays
    <3> QED BY <1>2, <1>7, <2>2, <3>1
  <2> QED BY <1>2, <1>7, <2>1, <2>2
<1>9. /\ x = [i \in HookFields |-> x[i]] /\ x.outer = q.outer /\ x.inner = q.inner /\ x.log = log
      /\ x.flipped = q.flipped /\ x.step = step /\ x.rule = "none"
  BY <1>2, <1>5, <1>7 DEF RequestTypes, HookFields
<1>10. RequestOK(x)
  BY <1>2, <1>4, <1>7, <1>8, <1>9 DEF RequestOK, RequestTypes, HookSteps
<1> QED BY <1>6, <1>10, RequestStep

LEMMA ReadBlobTextKeeps ==
    ASSUME HookParts, NEW r \in Req, Hook!ReadBlobText(r)
    PROVE  HookParts'
<1>1. PICK q : q = requests[r]
  OBVIOUS
<1>2. RequestOK(q) /\ RequestTypes(q) /\ q.step = "reading" /\ muted \in BOOLEAN
  BY <1>1, RequestIs DEF Hook!ReadBlobText, HookParts
<1>3. PICK log, x : /\ Hook!Becomes(r, x) /\ x = [q EXCEPT !.step = "done", !.log = log]
                    /\ log = Hook!Emit(q.log, "body", "xhr", FALSE) \/ log = q.log
  <2>1. CASE Hook!Becomes(r, [q EXCEPT !.step = "done", !.log = Hook!Emit(q.log, "body", "xhr", FALSE)])
    BY <2>1
  <2>2. CASE Hook!Becomes(r, [q EXCEPT !.step = "done"])
    <3>1. [q EXCEPT !.step = "done"] = [q EXCEPT !.step = "done", !.log = q.log]
      BY <1>2 DEF RequestTypes, HookFields
    <3> QED BY <2>2, <3>1
  <2> QED BY <1>1, <2>1, <2>2 DEF Hook!ReadBlobText
<1>4. /\ q.log \in Seq(Row) /\ q.rule = "none" /\ Begun(q.log) <= 1 /\ Ended(q.log) <= 1 /\ Bodies(q.log) = 0
      /\ ~q.flipped => Begun(q.log) = Ended(q.log) /\ Ended(q.log) = IF muted THEN 0 ELSE 1
  BY <1>2 DEF RequestOK, RequestTypes
<1>5. Begun(q.log) \in Nat /\ Ended(q.log) \in Nat
  BY <1>4, LogCounts
<1>6. /\ log \in Seq(Row) /\ Begun(log) = Begun(q.log) /\ Ended(log) = Ended(q.log)
      /\ Bodies(log) = 0 \/ ~muted
  <2>1. CASE log = q.log
    BY <1>4, <2>1
  <2>2. CASE log # q.log
    <3>1. Says(log, q.log, "body") /\ ~muted
      BY <1>3, <1>4, <2>2, EmitSays
    <3> QED BY <1>5, <3>1 DEF Says
  <2> QED BY <2>1, <2>2
<1>7. /\ x = [i \in HookFields |-> x[i]] /\ x.outer = q.outer /\ x.inner = q.inner /\ x.log = log
      /\ x.flipped = q.flipped /\ x.step = "done" /\ x.rule = "none"
  BY <1>2, <1>3, <1>4 DEF RequestTypes, HookFields
<1>8. RequestOK(x)
  BY <1>2, <1>4, <1>6, <1>7 DEF RequestOK, RequestTypes, HookSteps
<1> QED BY <1>3, <1>8, RequestStep

LEMMA MuteKeeps ==
    ASSUME HookParts, Hook!Mute
    PROVE  HookParts'
<1>1. /\ muted' = ~muted /\ requests' = [r \in Req |-> requests'[r]]
      /\ \A r \in Req : requests'[r] =
            [requests[r] EXCEPT !.flipped = requests[r].flipped \/ requests[r].step \notin {"idle", "done"}]
  BY DEF Hook!Mute
<1>2. ASSUME NEW r \in Req
      PROVE  RequestOK(requests[r])'
  <2>1. PICK q : q = requests[r]
    OBVIOUS
  <2>2. PICK flipped \in BOOLEAN : flipped = (q.flipped \/ q.step \notin {"idle", "done"})
    OBVIOUS
  <2>3. PICK x : x = [q EXCEPT !.flipped = flipped]
    OBVIOUS
  <2>4. requests'[r] = x
    BY <1>1, <2>1, <2>2, <2>3
  <2>5. RequestOK(q) /\ RequestTypes(q)
    BY <2>1, RequestIs
  <2>6. /\ x = [i \in HookFields |-> x[i]] /\ x.outer = q.outer /\ x.inner = q.inner /\ x.log = q.log
        /\ x.flipped = flipped /\ x.step = q.step /\ x.rule = q.rule
    BY <2>3, <2>5 DEF RequestTypes, HookFields
  <2>7. x.step \notin {"idle", "done"} => x.flipped
    BY <2>2, <2>6
  <2>8. x.step \in {"idle", "done"} => x.flipped = q.flipped
    BY <2>2, <2>5, <2>6 DEF RequestTypes
  <2>9. RequestTypes(x)
    BY <2>2, <2>5, <2>6 DEF RequestTypes
  <2>10. RequestOK(x)'
    BY <2>5, <2>6, <2>7, <2>8, <2>9 DEF RequestOK
  <2> QED BY <2>4, <2>10 DEF RequestOK, RequestTypes
<1>3. muted' \in BOOLEAN
  BY <1>1
<1> QED BY <1>1, <1>2, <1>3 DEF HookParts

LEMMA RequestsStand ==
    ASSUME HookParts, UNCHANGED <<muted, requests>>
    PROVE  HookParts'
BY DEF HookParts, RequestOK, RequestTypes

-----------------------------------------------------------------------------
LEMMA HookStarts == Hook!Init => HookParts
<1> SUFFICES ASSUME Hook!Init
             PROVE  HookParts
  OBVIOUS
<1>1. PICK x : x = Hook!Idle
  OBVIOUS
<1>2. /\ x = [i \in HookFields |-> x[i]] /\ x.outer = FALSE /\ x.inner = FALSE /\ x.log = <<>>
      /\ x.flipped = FALSE /\ x.step = "idle" /\ x.rule = "none"
  BY <1>1 DEF Hook!Idle, HookFields
<1>3. <<>> \in Seq(Row)
  BY EmptySeq
<1>4. RequestOK(x)
  BY <1>2, <1>3 DEF RequestOK, RequestTypes, HookSteps, Hook!Rules
<1> QED BY <1>1, <1>4 DEF Hook!Init, HookParts

LEMMA RequestSteps == HookParts /\ Hook!Next => HookParts'
<1> SUFFICES ASSUME HookParts, Hook!Next
             PROVE  HookParts'
  OBVIOUS
<1>1. CASE Hook!BundleDefines \/ Hook!Retry
  BY <1>1, RequestsStand DEF Hook!BundleDefines, Hook!Retry
<1>2. CASE Hook!Mute
  BY <1>2, MuteKeeps
<1>3. ASSUME NEW r \in Req, Hook!XhrOpen(r) \/ Hook!ShadowFetch(r) \/ Hook!DeliverMock(r) \/ Hook!ReadBlobText(r)
      PROVE  HookParts'
  BY <1>3, XhrOpenKeeps, ShadowFetchKeeps, DeliverMockKeeps, ReadBlobTextKeeps
<1>4. ASSUME NEW r \in Req, NEW rule \in Hook!Rules,
             Hook!XhrSend(r, rule) \/ Hook!RnFetch(r, rule) \/ Hook!PageFetch(r, rule)
      PROVE  HookParts'
  BY <1>4, XhrSendKeeps, RnFetchKeeps, PageFetchKeeps
<1>5. ASSUME NEW r \in Req, NEW kind \in {"response", "error"}, NEW blob \in BOOLEAN, Hook!Finish(r, kind, blob)
      PROVE  HookParts'
  BY <1>5, FinishKeeps
<1> QED BY <1>1, <1>2, <1>3, <1>4, <1>5 DEF Hook!Next

\* What the properties count is what is counted here.
LEMMA WhatIsTold ==
    ASSUME NEW q, RequestOK(q)
    PROVE  /\ q.step = "done" /\ q.rule # "none" =>
                \E end \in {"response", "error"} : Hook!Whats(q) = <<"request", "mock", end>>
           /\ Hook!Told(q, "request") <= 1 /\ Hook!Ends(q) <= 1
           /\ Hook!Told(q, "body") > 0 => q.flipped \/ Hook!Ends(q) = 1
           /\ q.step = "done" /\ ~q.flipped => Hook!Ends(q) = Hook!Told(q, "request")
<1>1. \A what : Hook!Told(q, what) = Count(q.log, what)
  BY DEF Hook!Told, Count, Hook!Cardinality, Cardinality
<1>2. Hook!Told(q, "request") = Begun(q.log) /\ Hook!Ends(q) = Ended(q.log) /\ Hook!Told(q, "body") = Bodies(q.log)
  BY <1>1 DEF Hook!Ends, Begun, Ended, Bodies
<1>3. q.log \in Seq(Row)
  BY DEF RequestOK, RequestTypes
<1>4. /\ Begun(q.log) <= 1 /\ Ended(q.log) <= 1
      /\ Bodies(q.log) > 0 => q.flipped \/ Ended(q.log) = 1
      /\ q.step = "done" /\ ~q.flipped => Ended(q.log) = Begun(q.log)
  <2>1. CASE q.step \in {"idle", "open"}
    <3>1. Begun(q.log) = 0 /\ Ended(q.log) = 0 /\ Bodies(q.log) = 0
      BY <1>3, <2>1, LogCounts DEF RequestOK
    <3> QED BY <2>1, <3>1
  <2>2. CASE q.step \in {"shadow", "mock", "unread"}
    <3>1. Begun(q.log) = 1 /\ Ended(q.log) = 0 /\ Bodies(q.log) = 0
      BY <2>2 DEF RequestOK, OnlyBegun
    <3> QED BY <2>2, <3>1
  <2>3. CASE q.step \in {"sent", "reading"}
    <3>1. Begun(q.log) <= 1 /\ Ended(q.log) <= 1 /\ Bodies(q.log) = 0
      BY <2>3 DEF RequestOK
    <3> QED BY <2>3, <3>1
  <2>4. CASE q.step = "done"
    BY <2>4 DEF RequestOK
  <2> QED BY <2>1, <2>2, <2>3, <2>4 DEF RequestOK, RequestTypes, HookSteps
<1>5. ASSUME q.step = "done" /\ q.rule # "none"
      PROVE  \E end \in {"response", "error"} : Hook!Whats(q) = <<"request", "mock", end>>
  <2>1. MockTold(q.log)
    BY <1>5 DEF RequestOK
  <2>2. PICK end \in {"response", "error"} : end = q.log[3].what
    BY <2>1 DEF MockTold
  <2>3. DOMAIN q.log = 1..3
    BY <1>3, <2>1, LenProperties DEF MockTold
  <2>4. Hook!Whats(q) = [i \in 1..3 |-> q.log[i].what]
    BY <2>3 DEF Hook!Whats
  <2>5. [i \in 1..3 |-> q.log[i].what] = <<"request", "mock", end>>
    BY <2>1, <2>2 DEF MockTold
  <2> QED BY <2>4, <2>5
<1> QED BY <1>2, <1>4, <1>5

HookInv == part = "hook" => HookParts

\* The inductive invariant of the script in the app.
THEOREM HookInvariant == WireSpec => []HookInv
<1>1. WireInit => HookInv
  BY HookStarts DEF WireInit, HookInv
<1>2. HookInv /\ [WireNext]_allVars => HookInv'
  <2> SUFFICES ASSUME HookInv, [WireNext]_allVars
               PROVE  HookInv'
    OBVIOUS
  <2>1. CASE part = "hook" /\ part' = part /\ Hook!Next
    BY <2>1, RequestSteps DEF HookInv
  <2>2. CASE part' = part /\ (part # "hook" \/ UNCHANGED hookVars)
    BY <2>2, RequestsStand DEF HookInv, hookVars
  <2> QED BY <2>1, <2>2 DEF WireNext, allVars
<1> QED BY <1>1, <1>2, PTL DEF WireSpec

\* The app's script tells a request once, and one a mock rule answered whole, its use
\* before its end, whatever layer takes it, whenever the patch lands and the SDK mutes
\* (networkInterceptor.ts).
THEOREM RequestsAreTold == WireSpec => []InterceptorTells
<1>1. HookInv => InterceptorTells
  BY WhatIsTold DEF HookInv, HookParts, InterceptorTells, Hook!MockedIsTold, Hook!ToldOnce
<1> QED BY <1>1, HookInvariant, PTL

-----------------------------------------------------------------------------
(* The console buffers. *)

LogEntry   == [seq : Nat, device : Device, epoch : Nat]
ReadFields == {"step", "of", "count", "run", "rows", "evicted", "reason"}

\* An entry that is held or shown is the one its number was given to.
KnownTo(log, e) == e.seq \in DOMAIN log /\ e = log[e.seq]

LogTypes ==
    /\ logged \in Seq(LogEntry) /\ nextSeq = Len(logged) + 1
    /\ epoch \in [Device -> Nat] /\ dropped \in [Device -> Nat]
    /\ buf \in [Device -> Seq(LogEntry)]
    /\ cleared \in SUBSET DOMAIN logged
    /\ logRead = [f \in ReadFields |-> logRead[f]] /\ logRead.of \subseteq Device

Numbered == \A i \in DOMAIN logged : logged[i].seq = i

\* What a device's buffer holds is the device's, in the order it was logged, and newer than
\* anything of the device that was cleared.
HeldInOrder(d) ==
    /\ Len(buf[d]) <= LogSize
    /\ \A k \in DOMAIN buf[d] : KnownTo(logged, buf[d][k]) /\ buf[d][k].device = d
    /\ \A k, m \in DOMAIN buf[d] : k < m => buf[d][k].seq < buf[d][m].seq
    /\ \A k \in DOMAIN buf[d] : \A j \in cleared : logged[j].device = d => j < buf[d][k].seq

\* The entries evicted since the last clear: logged after it and not held.
Evicted(d) == {i \in DOMAIN logged :
    /\ logged[i].device = d /\ i \notin cleared /\ i \notin Logs!Numbers(buf[d])
    /\ \A j \in cleared : logged[j].device = d => j < i}

\* They are counted, they are older than what is held, and something is held if any were.
EvictedCounted(d) ==
    /\ dropped[d] = Cardinality(Evicted(d))
    /\ \A i \in Evicted(d) : \A k \in DOMAIN buf[d] : i < buf[d][k].seq
    /\ Evicted(d) # {} => buf[d] # <<>>

LogParts ==
    /\ LogTypes
    /\ Numbered
    /\ \A d \in Device : HeldInOrder(d) /\ EvictedCounted(d)
    /\ logRead.step \in {"none", "refreshing", "diagnosing", "answered"}
    /\ \A row \in logRead.rows : KnownTo(logged, row)
LogInv == part = "logs" => LogParts

\* A bounded buffer after its newest entry: what it held, but for the oldest if it was full,
\* and the entry.
Rolled(S, s, e, t, o) ==
    /\ (o = 1) <=> (Len(s) = LogSize)
    /\ t \in Seq(S) /\ Len(t) = Len(s) + 1 - o /\ Len(t) <= LogSize /\ Len(t) >= 1
    /\ t[Len(t)] = e
    /\ \A k \in 1..(Len(s) - o) : t[k] = s[k + o]

LEMMA BoundedAppend ==
  ASSUME NEW S, NEW s \in Seq(S), NEW e \in S, Len(s) <= LogSize
  PROVE  \E o \in {0, 1} : Rolled(S, s, e, Logs!Bounded(Append(s, e), LogSize), o)
<1> USE DEF Rolled
<1> DEFINE a == Append(s, e)
<1>1. /\ a \in Seq(S) /\ Len(a) = Len(s) + 1 /\ Len(s) \in Nat /\ a[Len(s) + 1] = e
      /\ \A k \in 1..Len(s) : a[k] = s[k]
  BY AppendProperties, LenProperties
<1> HIDE DEF a
<1>2. LogSize \in Nat /\ LogSize >= 1
  BY LogsAssumption
<1>3. CASE Len(s) < LogSize
  <2>1. Logs!Bounded(a, LogSize) = a
    BY <1>1, <1>2, <1>3 DEF Logs!Bounded
  <2> QED BY <2>1, <1>1, <1>2, <1>3 DEF a
<1>4. CASE Len(s) = LogSize
  <2> DEFINE t == SubSeq(a, 2, Len(a))
  <2>1. Logs!Bounded(a, LogSize) = t
    BY <1>1, <1>2, <1>4 DEF Logs!Bounded
  <2>2. /\ t \in Seq(S) /\ Len(t) = Len(s)
        /\ \A k \in 1..Len(s) : t[k] = a[k + 1]
    BY <1>1, <1>2, <1>4, SubSeqProperties
  <2> HIDE DEF t
  <2> QED BY <2>1, <2>2, <1>1, <1>2, <1>4 DEF a
<1> QED BY <1>1, <1>2, <1>3, <1>4

\* The numbers a sequence of entries holds.
LEMMA NumbersAre ==
  ASSUME NEW s \in Seq(LogEntry)
  PROVE  \A n : n \in Logs!Numbers(s) <=> \E k \in DOMAIN s : s[k].seq = n
BY DEF Logs!Numbers, Logs!ToSet

LEMMA EvictedIsCounted ==
  ASSUME LogParts, NEW d \in Device
  PROVE  Evicted(d) = {i \in DOMAIN logged : logged[i].device = d /\
                    logged[i].seq \notin cleared \union Logs!Numbers(buf[d]) /\
                    \A j \in DOMAIN logged : logged[j].device = d /\ logged[j].seq \in cleared => j < i}
BY DEF Evicted, LogParts, LogTypes, Numbered

LEMMA LogsStart ==
  ASSUME Logs!Init
  PROVE  LogParts
<1> USE DEF Logs!Init
<1>1. logged = <<>> /\ DOMAIN logged = {} /\ cleared = {} /\ Len(logged) = 0
  OBVIOUS
<1>2. LogTypes
  <2>1. logged \in Seq(LogEntry) /\ nextSeq = Len(logged) + 1
    BY <1>1
  <2>2. epoch \in [Device -> Nat] /\ dropped \in [Device -> Nat] /\ buf \in [Device -> Seq(LogEntry)]
    OBVIOUS
  <2>3. logRead = [f \in ReadFields |-> logRead[f]] /\ logRead.of \subseteq Device
    BY DEF Logs!NoRead, ReadFields
  <2> QED BY <2>1, <2>2, <2>3, <1>1 DEF LogTypes
<1>3. ASSUME NEW d \in Device PROVE HeldInOrder(d) /\ EvictedCounted(d)
  <2>1. buf[d] = <<>> /\ dropped[d] = 0 /\ DOMAIN buf[d] = {} /\ Len(buf[d]) = 0
    OBVIOUS
  <2>2. Evicted(d) = {}
    BY <1>1 DEF Evicted
  <2>3. Cardinality(Evicted(d)) = 0
    BY <2>2, FS_EmptySet
  <2> QED BY <2>1, <2>2, <2>3, LogsAssumption DEF HeldInOrder, EvictedCounted
<1>4. logRead.step = "none" /\ logRead.rows = {}
  BY DEF Logs!NoRead
<1> QED BY <1>1, <1>2, <1>3, <1>4 DEF LogParts, Numbered

-----------------------------------------------------------------------------
\* An entry is added.
LEMMA AddKeepsLogs ==
  ASSUME LogParts, NEW d \in Device, Logs!Add(d)
  PROVE  LogParts'
<1> USE DEF LogParts
<1> DEFINE n == Len(logged) + 1
           entry == [seq |-> nextSeq, device |-> d, epoch |-> epoch[d]]
<1>1. /\ logged' = Append(logged, entry) /\ nextSeq' = nextSeq + 1
      /\ buf' = [buf EXCEPT ![d] = Logs!Bounded(Append(@, entry), LogSize)]
      /\ dropped' = [dropped EXCEPT ![d] = @ + (IF Len(buf[d]) = LogSize THEN 1 ELSE 0)]
      /\ UNCHANGED <<epoch, cleared, logRead, logReads>>
  BY DEF Logs!Add, Logs!NextSeq
<1>2. entry \in LogEntry /\ entry.seq = n /\ entry.device = d /\ n \in Nat
  BY DEF LogTypes, LogEntry
<1>3. /\ logged' \in Seq(LogEntry) /\ Len(logged') = n /\ Len(logged) \in Nat /\ logged'[n] = entry
      /\ DOMAIN logged = 1..Len(logged) /\ DOMAIN logged' = 1..n
      /\ \A i \in DOMAIN logged : logged'[i] = logged[i] /\ i \in DOMAIN logged' /\ i < n /\ i \in Nat
      /\ \A i \in DOMAIN logged' : i \in DOMAIN logged \/ i = n
  BY <1>1, <1>2, AppendProperties, LenProperties DEF LogTypes
<1>10. KnownTo(logged', entry)
  <2>1. n \in DOMAIN logged' /\ logged'[n] = entry /\ entry.seq = n
    BY <1>2, <1>3
  <2> HIDE DEF entry, n
  <2> QED BY <2>1 DEF KnownTo
<1>4. LogTypes'
  <2>1. epoch' \in [Device -> Nat] /\ logRead' = [f \in ReadFields |-> logRead'[f]] /\ logRead'.of \subseteq Device
    BY <1>1 DEF LogTypes
  <2>2. dropped' \in [Device -> Nat]
    BY <1>1 DEF LogTypes
  <2>3. Logs!Bounded(Append(buf[d], entry), LogSize) \in Seq(LogEntry)
    <3>1. buf[d] \in Seq(LogEntry) /\ Len(buf[d]) <= LogSize
      BY DEF LogTypes, HeldInOrder
    <3> HIDE DEF entry
    <3> QED BY <3>1, <1>2, BoundedAppend DEF Rolled
  <2>4. buf' \in [Device -> Seq(LogEntry)]
    BY <1>1, <2>3 DEF LogTypes
  <2>5. cleared' \in SUBSET DOMAIN logged'
    BY <1>1, <1>3 DEF LogTypes
  <2> QED BY <2>1, <2>2, <2>4, <2>5, <1>1, <1>2, <1>3 DEF LogTypes
<1>5. Numbered'
  BY <1>2, <1>3 DEF Numbered
<1>6. \A row \in logRead'.rows : KnownTo(logged', row)
  BY <1>1, <1>3 DEF KnownTo
<1> HIDE DEF entry, n
<1>7. ASSUME NEW e \in Device, e # d PROVE (HeldInOrder(e) /\ EvictedCounted(e))'
  <2>1. buf'[e] = buf[e] /\ dropped'[e] = dropped[e]
    BY <1>1, <1>7 DEF LogTypes
  <2>2. \A j \in cleared : logged'[j] = logged[j]
    BY <1>3 DEF LogTypes
  <2>3. HeldInOrder(e)'
    <3>1. \A k \in DOMAIN buf'[e] : KnownTo(logged', buf'[e][k]) /\ buf'[e][k].device = e
      BY <2>1, <1>3 DEF HeldInOrder, KnownTo
    <3>2. Len(buf'[e]) <= LogSize /\ \A k, m \in DOMAIN buf'[e] : k < m => buf'[e][k].seq < buf'[e][m].seq
      BY <2>1 DEF HeldInOrder
    <3>3. \A k \in DOMAIN buf'[e] : \A j \in cleared' : logged'[j].device = e => j < buf'[e][k].seq
      <4>1. HeldInOrder(e)
        OBVIOUS
      <4>2. \A k \in DOMAIN buf[e] : \A j \in cleared : logged[j].device = e => j < buf[e][k].seq
        BY <4>1 DEF HeldInOrder
      <4> QED BY <4>2, <2>1, <2>2, <1>1
    <3> QED BY <3>1, <3>2, <3>3 DEF HeldInOrder
  <2>4. Evicted(e)' = Evicted(e)
    BY <2>1, <2>2, <1>1, <1>2, <1>3, <1>7 DEF Evicted
  <2> QED BY <2>1, <2>3, <2>4 DEF EvictedCounted
<1>8. (HeldInOrder(d) /\ EvictedCounted(d))'
  <2> DEFINE s == buf[d]
             t == buf'[d]
  <2>1. s \in Seq(LogEntry) /\ Len(s) <= LogSize /\ Len(s) \in Nat /\ DOMAIN s = 1..Len(s)
    BY LenProperties DEF LogTypes, HeldInOrder
  <2>2. t = Logs!Bounded(Append(s, entry), LogSize)
    BY <1>1 DEF LogTypes
  <2>3. PICK o \in {0, 1} :
          /\ (o = 1) <=> (Len(s) = LogSize)
          /\ t \in Seq(LogEntry) /\ Len(t) = Len(s) + 1 - o /\ Len(t) <= LogSize /\ Len(t) >= 1
          /\ t[Len(t)] = entry
          /\ \A k \in 1..(Len(s) - o) : t[k] = s[k + o]
    <3>1. PICK o \in {0, 1} : Rolled(LogEntry, s, entry, t, o)
      <4> HIDE DEF s
      <4>1. \E o \in {0, 1} : Rolled(LogEntry, s, entry, Logs!Bounded(Append(s, entry), LogSize), o)
        BY <2>1, <1>2, BoundedAppend
      <4> QED BY <4>1, <2>2
    <3> QED BY <3>1 DEF Rolled
  <2>4. DOMAIN t = 1..Len(t) /\ Len(t) \in Nat
    BY <2>3, LenProperties
  <2>5. dropped'[d] = dropped[d] + o
    BY <1>1, <2>1, <2>3 DEF LogTypes
  <2>6. \A k \in DOMAIN s : s[k].seq \in DOMAIN logged /\ s[k] = logged[s[k].seq] /\ s[k].device = d
    BY DEF HeldInOrder, KnownTo
  <2>7. \A k, m \in DOMAIN s : k < m => s[k].seq < s[m].seq
    BY DEF HeldInOrder
  <2>8. \A k \in DOMAIN s : \A j \in cleared : logged[j].device = d => j < s[k].seq
    BY DEF HeldInOrder
  <2>9. \A j \in cleared : logged'[j] = logged[j] /\ j < n
    BY <1>3 DEF LogTypes
  <2>10. \A k \in DOMAIN t : k = Len(t) \/ (k < Len(t) /\ k \in 1..(Len(s) - o) /\ k + o \in DOMAIN s /\ t[k] = s[k + o])
    <3> SUFFICES ASSUME NEW k \in DOMAIN t, k # Len(t)
                 PROVE  k < Len(t) /\ k \in 1..(Len(s) - o) /\ k + o \in DOMAIN s /\ t[k] = s[k + o]
      OBVIOUS
    <3>1. k \in Nat /\ k >= 1 /\ k < Len(t) /\ Len(t) = Len(s) + 1 - o /\ Len(s) \in Nat /\ (o = 0 \/ o = 1)
      BY <2>1, <2>3, <2>4
    <3>2. k \in 1..(Len(s) - o) /\ k + o \in 1..Len(s)
      BY <3>1
    <3> QED BY <3>1, <3>2, <2>1, <2>3
  <2>11. \A i \in Evicted(d) : \A k \in DOMAIN s : i < s[k].seq
    BY DEF EvictedCounted
  <2> HIDE DEF s, t
  <2>12. \A k \in DOMAIN t : KnownTo(logged', t[k]) /\ t[k].device = d
    <3> SUFFICES ASSUME NEW k \in DOMAIN t PROVE KnownTo(logged', t[k]) /\ t[k].device = d
      OBVIOUS
    <3>1. CASE k = Len(t)
      <4>1. t[k] = entry
        BY <3>1, <2>3
      <4> QED BY <4>1, <1>10, <1>2
    <3>2. CASE k + o \in DOMAIN s /\ t[k] = s[k + o]
      BY <3>2, <2>6, <1>3 DEF KnownTo
    <3> QED BY <3>1, <3>2, <2>10
  <2>13. \A k, m \in DOMAIN t : k < m => t[k].seq < t[m].seq
    <3> SUFFICES ASSUME NEW k \in DOMAIN t, NEW m \in DOMAIN t, k < m PROVE t[k].seq < t[m].seq
      OBVIOUS
    <3>1. k \in Nat /\ m \in Nat /\ o \in Nat /\ k # Len(t)
      BY <2>4, <2>3
    <3>2. k + o \in DOMAIN s /\ t[k] = s[k + o]
      BY <3>1, <2>10
    <3>3. CASE m = Len(t)
      BY <3>3, <3>2, <2>6, <2>3, <1>2, <1>3
    <3>4. CASE m + o \in DOMAIN s /\ t[m] = s[m + o]
      BY <3>1, <3>2, <3>4, <2>7
    <3> QED BY <3>3, <3>4, <2>10
  <2>14. \A k \in DOMAIN t : \A j \in cleared' : logged'[j].device = d => j < t[k].seq
    <3> SUFFICES ASSUME NEW k \in DOMAIN t, NEW j \in cleared, logged[j].device = d PROVE j < t[k].seq
      BY <1>1, <2>9
    <3>1. CASE k = Len(t)
      BY <3>1, <2>3, <2>9, <1>2
    <3>2. CASE k + o \in DOMAIN s /\ t[k] = s[k + o]
      BY <3>2, <2>8
    <3> QED BY <3>1, <3>2, <2>10
  <2>15. HeldInOrder(d)'
    BY <2>3, <2>12, <2>13, <2>14 DEF HeldInOrder, t
  \* the numbers held now
  <2>16. \A i : i \in Logs!Numbers(s) <=> \E k \in DOMAIN s : s[k].seq = i
    BY <2>1, NumbersAre
  <2>17. \A i : i \in Logs!Numbers(t) <=> \E k \in DOMAIN t : t[k].seq = i
    BY <2>3, NumbersAre
  <2>18. n \in Logs!Numbers(t)
    BY <2>17, <2>3, <2>4, <1>2
  <2>19. \A i : i \in Evicted(d)' <=> (i \in DOMAIN logged /\ logged[i].device = d /\ i \notin cleared
                    /\ i \notin Logs!Numbers(t) /\ \A j \in cleared : logged[j].device = d => j < i)
    BY <2>9, <2>18, <1>1, <1>2, <1>3 DEF Evicted, t
  <2>20. \A i : i \in Evicted(d) <=> (i \in DOMAIN logged /\ logged[i].device = d /\ i \notin cleared
                    /\ i \notin Logs!Numbers(s) /\ \A j \in cleared : logged[j].device = d => j < i)
    BY DEF Evicted, s
  <2>21. n \notin DOMAIN logged
    BY <1>3
  <2>22. IsFiniteSet(Evicted(d))
    <3>1. IsFiniteSet(DOMAIN logged) /\ Evicted(d) \subseteq DOMAIN logged
      BY <1>3, FS_Interval DEF Evicted
    <3> QED BY <3>1, FS_Subset
  <2>23. t # <<>>
    BY <2>3
  <2>24. CASE o = 0
    <3>1. \A k \in DOMAIN s : k \in DOMAIN t /\ t[k] = s[k]
      BY <2>1, <2>3, <2>4, <2>24
    <3>2. \A i : i \in DOMAIN logged => (i \in Logs!Numbers(t) <=> i \in Logs!Numbers(s))
      <4>1. \A k \in DOMAIN t : (k \in DOMAIN s /\ t[k] = s[k]) \/ t[k].seq = n
        BY <2>1, <2>10, <2>3, <2>24, <1>2
      <4> QED BY <4>1, <3>1, <2>16, <2>17, <2>21
    <3>3. Evicted(d)' = Evicted(d)
      BY <3>2, <2>19, <2>20
    <3>4. \A i \in Evicted(d) : i < n
      BY <1>3 DEF Evicted
    <3>5. \A i \in Evicted(d) : \A k \in DOMAIN t : i < t[k].seq
      <4>1. \A k \in DOMAIN t : (k \in DOMAIN s /\ t[k] = s[k]) \/ t[k].seq = n
        BY <2>1, <2>10, <2>3, <2>24, <1>2
      <4> QED BY <4>1, <3>4, <2>11
    <3>6. dropped'[d] = Cardinality(Evicted(d)')
      BY <3>3, <2>5, <2>24 DEF EvictedCounted, LogTypes
    <3> QED BY <3>3, <3>5, <3>6, <2>15, <2>23 DEF EvictedCounted, t
  <2>25. CASE o = 1
    <3> DEFINE out == s[1].seq
    <3>1. 1 \in DOMAIN s
      BY <2>1, <2>3, <2>25, LogsAssumption
    <3>2. out \in DOMAIN logged /\ logged[out].device = d /\ out \notin cleared
          /\ out \in Logs!Numbers(s) /\ \A j \in cleared : logged[j].device = d => j < out
      <4>1. out \in Nat
        BY <3>1, <2>6, <1>3
      <4> QED BY <4>1, <3>1, <2>6, <2>8, <2>16
    <3>3. \A k \in DOMAIN s : k = 1 \/ out < s[k].seq
      BY <3>1, <2>1, <2>7
    <3>4. \A k \in DOMAIN t : k = Len(t) \/ out < t[k].seq
      <4> SUFFICES ASSUME NEW k \in DOMAIN t, k # Len(t) PROVE out < t[k].seq
        OBVIOUS
      <4>1. k + 1 \in DOMAIN s /\ t[k] = s[k + 1] /\ k + 1 # 1
        BY <2>10, <2>4, <2>25
      <4> QED BY <4>1, <3>3
    <3>5. out < n /\ out \in Nat
      BY <3>2, <1>3
    <3>6. \A k \in DOMAIN t : out < t[k].seq
      BY <3>4, <3>5, <2>3, <1>2
    <3>7. out \notin Logs!Numbers(t)
      BY <3>5, <3>6, <2>17
    <3>8. \A i : i \in DOMAIN logged /\ i # out => (i \in Logs!Numbers(t) <=> i \in Logs!Numbers(s))
      <4>1. \A k \in DOMAIN t : (\E m \in DOMAIN s : t[k] = s[m]) \/ t[k].seq = n
        BY <2>10, <2>3, <1>2
      <4>2. \A m \in DOMAIN s : m = 1 \/ \E k \in DOMAIN t : t[k] = s[m]
        <5> SUFFICES ASSUME NEW m \in DOMAIN s, m # 1 PROVE \E k \in DOMAIN t : t[k] = s[m]
          OBVIOUS
        <5>1. m - 1 \in 1..(Len(s) - o) /\ m - 1 \in DOMAIN t /\ (m - 1) + o = m
          BY <2>1, <2>3, <2>4, <2>25
        <5>2. t[m - 1] = s[m]
          BY <5>1, <2>3
        <5> QED BY <5>1, <5>2
      <4> QED BY <4>1, <4>2, <2>16, <2>17, <2>21
    <3> HIDE DEF out
    <3>9. Evicted(d)' = Evicted(d) \union {out}
      BY <3>2, <3>7, <3>8, <2>19, <2>20
    <3>10. out \notin Evicted(d)
      BY <3>2, <2>20
    <3>11. Cardinality(Evicted(d)') = Cardinality(Evicted(d)) + 1
      BY <3>9, <3>10, <2>22, FS_AddElement
    <3>12. dropped'[d] = Cardinality(Evicted(d)')
      BY <3>11, <2>5, <2>25 DEF EvictedCounted
    <3>13. \A i \in Evicted(d) : i < n
      BY <1>3 DEF Evicted
    <3>14. \A i \in Evicted(d) : \A k \in DOMAIN t : i < t[k].seq
      <4>1. \A k \in DOMAIN t : (\E m \in DOMAIN s : t[k] = s[m]) \/ t[k].seq = n
        BY <2>10, <2>3, <1>2
      <4> QED BY <4>1, <3>13, <2>11
    <3>15. \A i \in Evicted(d)' : \A k \in DOMAIN t : i < t[k].seq
      BY <3>9, <3>6, <3>14
    <3> QED BY <3>12, <3>15, <2>15, <2>23 DEF EvictedCounted, t
  <2> QED BY <2>3, <2>24, <2>25
<1>9. logRead'.step \in {"none", "refreshing", "diagnosing", "answered"}
  BY <1>1
<1> QED BY <1>4, <1>5, <1>6, <1>7, <1>8, <1>9

-----------------------------------------------------------------------------
\* The other steps.

LEMMA BumpKeepsLogs ==
  ASSUME LogParts, NEW d \in Device, Logs!BumpEpoch(d)
  PROVE  LogParts'
<1> USE DEF LogParts
<1>1. epoch' = [epoch EXCEPT ![d] = @ + 1] /\ UNCHANGED <<buf, dropped, nextSeq, logged, cleared, logRead>>
  BY DEF Logs!BumpEpoch
<1>2. LogTypes'
  <2>1. epoch' \in [Device -> Nat]
    BY <1>1 DEF LogTypes
  <2> QED BY <2>1, <1>1 DEF LogTypes
<1>3. \A e \in Device : (HeldInOrder(e) /\ EvictedCounted(e))'
  BY <1>1 DEF HeldInOrder, EvictedCounted, Evicted
<1> QED BY <1>1, <1>2, <1>3 DEF Numbered

\* clear_logs: nothing held and nothing evicted is left, of the devices it is of.
LEMMA ClearKeepsLogs ==
  ASSUME LogParts, NEW of \in SUBSET Device, Logs!ClearLogs(of)
  PROVE  LogParts'
<1> USE DEF LogParts
<1>1. /\ buf' = [d \in Device |-> IF d \in of THEN <<>> ELSE buf[d]]
      /\ dropped' = [d \in Device |-> IF d \in of THEN 0 ELSE dropped[d]]
      /\ cleared' = cleared \union UNION {Logs!Numbers(buf[d]) : d \in of}
      /\ UNCHANGED <<nextSeq, epoch, logged, logRead>>
  BY DEF Logs!ClearLogs
<1>2. \A n : n \in cleared' <=> n \in cleared \/ \E d \in of : \E k \in DOMAIN buf[d] : buf[d][k].seq = n
  <2>1. \A d \in of : buf[d] \in Seq(LogEntry)
    BY DEF LogTypes
  <2>2. \A d \in of : \A n : n \in Logs!Numbers(buf[d]) <=> \E k \in DOMAIN buf[d] : buf[d][k].seq = n
    BY <2>1, NumbersAre
  <2>3. \A n : n \in cleared' <=> n \in cleared \/ \E d \in of : n \in Logs!Numbers(buf[d])
    BY <1>1
  <2> QED BY <2>2, <2>3
<1>3. \A d \in Device : \A k \in DOMAIN buf[d] :
         buf[d][k].seq \in DOMAIN logged /\ logged[buf[d][k].seq].device = d /\ buf[d][k].device = d
  BY DEF HeldInOrder, KnownTo
<1>4. LogTypes'
  <2>1. buf' \in [Device -> Seq(LogEntry)] /\ dropped' \in [Device -> Nat]
    BY <1>1 DEF LogTypes
  <2>2. cleared' \subseteq DOMAIN logged
    BY <1>2, <1>3 DEF LogTypes
  <2> QED BY <2>1, <2>2, <1>1 DEF LogTypes
\* of another device, nothing is cleared
<1>5. \A d \in Device \ of : \A j \in cleared' : logged[j].device = d => j \in cleared
  BY <1>2, <1>3
<1>6. ASSUME NEW d \in Device \ of PROVE (HeldInOrder(d) /\ EvictedCounted(d))'
  <2>1. buf'[d] = buf[d] /\ dropped'[d] = dropped[d] /\ logged' = logged /\ cleared \subseteq cleared'
    BY <1>1, <1>2
  <2>2. HeldInOrder(d) /\ EvictedCounted(d)
    OBVIOUS
  <2>3. HeldInOrder(d)'
    BY <2>1, <2>2, <1>5 DEF HeldInOrder
  <2>4. Evicted(d)' = Evicted(d)
    <3>1. \A i \in DOMAIN logged : logged[i].device = d => (i \in cleared' <=> i \in cleared)
      BY <1>5, <2>1
    <3>2. \A i \in DOMAIN logged : (\A j \in cleared' : logged[j].device = d => j < i)
                                    <=> (\A j \in cleared : logged[j].device = d => j < i)
      BY <1>5, <2>1
    <3> QED BY <3>1, <3>2, <2>1 DEF Evicted
  <2> QED BY <2>1, <2>2, <2>3, <2>4 DEF EvictedCounted
<1>7. ASSUME NEW d \in of PROVE (HeldInOrder(d) /\ EvictedCounted(d))'
  <2>1. buf'[d] = <<>> /\ dropped'[d] = 0 /\ logged' = logged /\ Len(buf'[d]) = 0 /\ DOMAIN buf'[d] = {}
    BY <1>1
  <2>2. HeldInOrder(d)'
    BY <2>1, LogsAssumption DEF HeldInOrder
  <2>3. HeldInOrder(d) /\ EvictedCounted(d) /\ buf[d] \in Seq(LogEntry)
    BY DEF LogTypes
  <2>4. ASSUME NEW i \in Evicted(d)' PROVE FALSE
    <3>1. /\ i \in DOMAIN logged /\ logged[i].device = d /\ i \notin cleared'
          /\ \A j \in cleared' : logged[j].device = d => j < i
      BY <2>1, <2>4 DEF Evicted
    <3>2. i \notin cleared /\ (\A j \in cleared : logged[j].device = d => j < i)
      BY <3>1, <1>2
    <3>3. i \notin Logs!Numbers(buf[d])
      BY <3>1, <1>1
    <3>4. i \in Evicted(d)
      BY <3>1, <3>2, <3>3 DEF Evicted
    <3>5. PICK k \in DOMAIN buf[d] : TRUE
      BY <3>4, <2>3, EmptySeq, LenProperties DEF EvictedCounted
    <3>6. i < buf[d][k].seq
      BY <3>4, <2>3 DEF EvictedCounted
    <3>7. buf[d][k].seq \in cleared' /\ logged[buf[d][k].seq].device = d
      BY <1>2, <1>3
    <3>8. buf[d][k].seq < i
      BY <3>1, <3>7
    <3>9. i \in Nat /\ buf[d][k].seq \in Nat
      BY <3>1, <1>3, LenProperties DEF LogTypes
    <3> QED BY <3>6, <3>8, <3>9
  <2>5. Evicted(d)' = {}
    BY <2>4
  <2>6. Cardinality(Evicted(d)') = 0
    BY <2>5, FS_EmptySet
  <2> QED BY <2>1, <2>2, <2>5, <2>6 DEF EvictedCounted
<1> QED BY <1>1, <1>4, <1>6, <1>7 DEF Numbered

\* What a read shows was held when it was read.
LEMMA RowsAreKnown ==
  ASSUME LogParts, NEW run, NEW reason
  PROVE  \A row \in Logs!Answer(run, reason).rows : KnownTo(logged, row)
<1> USE DEF LogParts
<1>1. Logs!Answer(run, reason).rows = Logs!Get(logRead.of, logRead.count, run)
  <2>1. logRead = [f \in ReadFields |-> logRead[f]]
    BY DEF LogTypes
  <2> QED BY <2>1 DEF Logs!Answer, ReadFields
<1>2. \A row \in Logs!Get(logRead.of, logRead.count, run) : row \in Logs!Held(logRead.of)
  BY DEF Logs!Get, Logs!LastOf, Logs!ResolveLogBuffer
<1>3. \A row \in Logs!Held(logRead.of) : KnownTo(logged, row)
  BY DEF Logs!Held, Logs!ToSet, HeldInOrder, LogTypes
<1> QED BY <1>1, <1>2, <1>3

\* A read changes no buffer: it is in order if its own record is.
LEMMA ReadKeepsLogs ==
  ASSUME LogParts, UNCHANGED <<buf, dropped, nextSeq, epoch, logged, cleared>>,
         logRead' = [f \in ReadFields |-> logRead'[f]], logRead'.of \subseteq Device,
         logRead'.step \in {"none", "refreshing", "diagnosing", "answered"},
         \A row \in logRead'.rows : KnownTo(logged, row)
  PROVE  LogParts'
<1> USE DEF LogParts
<1>1. LogTypes' /\ Numbered'
  BY DEF LogTypes, Numbered
<1>2. \A d \in Device : (HeldInOrder(d) /\ EvictedCounted(d))'
  BY DEF HeldInOrder, EvictedCounted, Evicted
<1>3. \A row \in logRead'.rows : KnownTo(logged', row)
  OBVIOUS
<1> QED BY <1>1, <1>2, <1>3

IsAnswer(r, run, reason, other) ==
    r = Logs!Answer(run, reason) \/ r = [Logs!Answer(run, reason) EXCEPT !.reason = other]

LEMMA AnswerIsARead ==
  ASSUME LogParts, NEW run, NEW reason, NEW other, NEW r, IsAnswer(r, run, reason, other)
  PROVE  /\ r = [f \in ReadFields |-> r[f]] /\ r.of = logRead.of
         /\ r.step = "answered" /\ r.rows = Logs!Answer(run, reason).rows
<1>1. logRead = [f \in ReadFields |-> logRead[f]]
  BY DEF LogParts, LogTypes
<1> QED BY <1>1 DEF IsAnswer, Logs!Answer, ReadFields

LEMMA ReadsKeepLogs ==
  ASSUME LogParts,
         \/ \E of \in {{d} : d \in Device} \union {Device} : \E count \in 1..LogSize : Logs!GetLogs(of, count)
         \/ Logs!ReadBuffer \/ Logs!DiagnoseEmptyLogs
  PROVE  LogParts'
<1>1. UNCHANGED <<buf, dropped, nextSeq, epoch, logged, cleared>>
  BY DEF Logs!GetLogs, Logs!ReadBuffer, Logs!DiagnoseEmptyLogs, Logs!buffers
<1>2. logRead = [f \in ReadFields |-> logRead[f]] /\ logRead.of \subseteq Device
      /\ \A row \in logRead.rows : KnownTo(logged, row)
  BY DEF LogParts, LogTypes
<1>3. CASE \E of \in {{d} : d \in Device} \union {Device} : \E count \in 1..LogSize : Logs!GetLogs(of, count)
  <2>1. PICK of \in {{d} : d \in Device} \union {Device} : \E count \in 1..LogSize : Logs!GetLogs(of, count)
    BY <1>3
  <2>2. PICK count : Logs!GetLogs(of, count)
    BY <2>1
  <2>3. PICK current \in BOOLEAN :
          logRead' = [Logs!NoRead EXCEPT !.step = "refreshing", !.of = of, !.count = count,
                                         !.run = IF current THEN 1 ELSE 0]
    BY <2>2 DEF Logs!GetLogs
  <2>4. logRead' = [f \in ReadFields |-> logRead'[f]]
    BY <2>3 DEF Logs!NoRead, ReadFields
  <2>5. logRead'.of = of /\ logRead'.step = "refreshing" /\ logRead'.rows = {}
    BY <2>3 DEF Logs!NoRead
  <2>6. of \subseteq Device
    OBVIOUS
  <2> QED BY <2>4, <2>5, <2>6, <1>1, ReadKeepsLogs
<1>4. ASSUME NEW r, logRead' = r, NEW run, NEW reason, NEW other,
             IsAnswer(r, run, reason, other)
      PROVE  LogParts'
  <2>1. /\ r = [f \in ReadFields |-> r[f]] /\ r.of = logRead.of
        /\ r.step = "answered" /\ r.rows = Logs!Answer(run, reason).rows
    BY <1>4, AnswerIsARead
  <2>2. \A row \in r.rows : KnownTo(logged, row)
    BY <2>1, RowsAreKnown
  <2>3. logRead'.of \subseteq Device /\ logRead'.step = "answered"
    BY <2>1, <1>2, <1>4
  <2>4. logRead' = [f \in ReadFields |-> logRead'[f]]
    BY <2>1, <1>4
  <2>5. \A row \in logRead'.rows : KnownTo(logged, row)
    BY <2>2, <1>4
  <2> QED BY <2>3, <2>4, <2>5, <1>1, ReadKeepsLogs
<1>5. ASSUME NEW r, logRead' = r, NEW step \in {"diagnosing", "answered"}, NEW reason,
             r = [logRead EXCEPT !.step = step] \/ r = [logRead EXCEPT !.step = step, !.reason = reason]
      PROVE  LogParts'
  <2>1. r = [f \in ReadFields |-> r[f]] /\ r.of = logRead.of /\ r.step = step /\ r.rows = logRead.rows
    BY <1>2, <1>5 DEF ReadFields
  <2>2. logRead' = [f \in ReadFields |-> logRead'[f]]
    BY <2>1, <1>5
  <2>3. logRead'.of \subseteq Device /\ logRead'.rows = logRead.rows
        /\ logRead'.step \in {"none", "refreshing", "diagnosing", "answered"}
    BY <2>1, <1>2, <1>5
  <2>4. \A row \in logRead'.rows : KnownTo(logged, row)
    BY <2>3, <1>2
  <2> QED BY <2>2, <2>3, <2>4, <1>1, ReadKeepsLogs
<1>6. CASE Logs!ReadBuffer
  <2>1. CASE logRead' = [logRead EXCEPT !.step = "diagnosing"]
    BY <2>1, <1>5
  <2>2. CASE \E run : \/ logRead' = Logs!Answer(run, "none")
                     \/ logRead' = [Logs!Answer(run, "none") EXCEPT !.reason = "filtered_out"]
    BY <2>2, <1>4 DEF IsAnswer
  <2>3. \/ logRead' = [logRead EXCEPT !.step = "diagnosing"]
        \/ \E run : \/ logRead' = Logs!Answer(run, "none")
                   \/ logRead' = [Logs!Answer(run, "none") EXCEPT !.reason = "filtered_out"]
    BY <1>6 DEF Logs!ReadBuffer
  <2> QED BY <2>1, <2>2, <2>3
<1>7. CASE Logs!DiagnoseEmptyLogs
  <2>1. PICK reason : logRead' = IF reason = "pipeline_recovered" THEN Logs!Answer(0, reason)
                                 ELSE [logRead EXCEPT !.step = "answered", !.reason = reason]
    BY <1>7 DEF Logs!DiagnoseEmptyLogs
  <2>2. logRead' = Logs!Answer(0, reason) \/ logRead' = [logRead EXCEPT !.step = "answered", !.reason = reason]
    BY <2>1
  <2> QED BY <2>2, <1>4, <1>5 DEF IsAnswer
<1> QED BY <1>3, <1>6, <1>7

LEMMA LogStep ==
  ASSUME LogParts, Logs!Next
  PROVE  LogParts'
<1>1. ASSUME NEW d \in Device, Logs!Add(d) \/ Logs!BumpEpoch(d) PROVE LogParts'
  BY <1>1, AddKeepsLogs, BumpKeepsLogs
<1>2. ASSUME NEW of \in {{d} : d \in Device} \union {Device}, Logs!ClearLogs(of) PROVE LogParts'
  <2>1. of \subseteq Device
    OBVIOUS
  <2> QED BY <2>1, <1>2, ClearKeepsLogs
<1> QED BY <1>1, <1>2, ReadsKeepLogs DEF Logs!Next

LEMMA UnmovedLogs ==
  ASSUME LogParts, UNCHANGED logVars
  PROVE  LogParts'
BY ReadKeepsLogs DEF LogParts, LogTypes, logVars

\* What a read may say of the buffers.
LEMMA LogsAreToldTrue ==
  ASSUME LogParts
  PROVE  Logs!IdsNameOne /\ Logs!SilenceIsComplete
<1> USE DEF LogParts
<1>1. \A i, j \in DOMAIN logged : i # j => logged[i].seq # logged[j].seq
  BY DEF Numbered
<1>2. ASSUME NEW row \in logRead.rows, NEW d \in Logs!FindLogEvent(row.seq)
      PROVE  d = row.device /\ row \in Logs!ToSet(buf[d])
  <2>1. d \in Device /\ buf[d] \in Seq(LogEntry) /\ row.seq \in Logs!Numbers(buf[d])
    BY DEF Logs!FindLogEvent, LogTypes
  <2>2. PICK k \in DOMAIN buf[d] : buf[d][k].seq = row.seq
    BY <2>1, NumbersAre
  <2>3. row = logged[row.seq]
    BY DEF KnownTo
  <2>4. buf[d][k] = logged[buf[d][k].seq] /\ buf[d][k].device = d
    BY <2>1 DEF HeldInOrder, KnownTo
  <2>5. buf[d][k] = row
    BY <2>2, <2>3, <2>4
  <2> QED BY <2>4, <2>5 DEF Logs!ToSet
<1>3. Logs!IdsNameOne
  BY <1>1, <1>2 DEF Logs!IdsNameOne
<1>4. ASSUME NEW d \in Device
      PROVE  dropped[d] = Cardinality({i \in DOMAIN logged : logged[i].device = d /\
                    logged[i].seq \notin cleared \union Logs!Numbers(buf[d]) /\
                    \A j \in DOMAIN logged : logged[j].device = d /\ logged[j].seq \in cleared => j < i})
  BY EvictedIsCounted DEF EvictedCounted
<1>5. Logs!SilenceIsComplete
  BY <1>4 DEF Logs!SilenceIsComplete, Logs!Cardinality, Cardinality
<1> QED BY <1>3, <1>5

-----------------------------------------------------------------------------
(* The native logs. *)

EventNo    == 1..MaxWritten
DeviceRow  == [kind : {"message", "crash"}, level : Native!Levels]
NativeCall == [step : {"idle", "fetching", "escalating"}, since : Nat, floor : Native!Levels]

NativeTypes ==
    /\ written \in Seq(DeviceRow) /\ Len(written) <= MaxWritten
    /\ seenEvents \in Seq(EventNo) /\ Len(seenEvents) <= SeenSize
    /\ lastTs \in Nat /\ widened \in BOOLEAN
    /\ given \in [EventNo -> Nat]
    /\ nativeCall \in [Caller -> NativeCall]

\* The watermark is the time of something the device wrote.
WatermarkIsWritten == lastTs = 0 \/ \E i \in DOMAIN written : lastTs = Native!Stamp(i)

\* What was given an id was written, up to the watermark; what is remembered was given one.
GivenWasWritten ==
    /\ \A i \in EventNo : given[i] > 0 => i \in DOMAIN written /\ Native!Stamp(i) <= lastTs
    /\ \A k \in DOMAIN seenEvents : given[seenEvents[k]] > 0
    /\ \A k, m \in DOMAIN seenEvents : k # m => seenEvents[k] # seenEvents[m]

Remembered(i) == \E k \in DOMAIN seenEvents : seenEvents[k] = i

\* All of the watermark's tick is remembered, while no read brought back more than that;
\* and all there is, while no more was written than is remembered.
LastTickRemembered ==
    /\ ~widened =>
        /\ \A k, m \in DOMAIN seenEvents :
              k < m => Native!Stamp(seenEvents[k]) <= Native!Stamp(seenEvents[m])
        /\ \A i \in EventNo : given[i] > 0 /\ Native!Stamp(i) = lastTs => Remembered(i)
    /\ Len(written) <= SeenSize => \A i \in EventNo : given[i] > 0 => Remembered(i)

NativeParts ==
    /\ NativeTypes /\ WatermarkIsWritten /\ GivenWasWritten /\ LastTickRemembered
    /\ Native!TakenOnce /\ Native!NoCrashPassed
NativeInv == part = "native" => NativeParts

\* The tick an event is of, and the events of a tick.
LEMMA TickIs ==
  ASSUME NEW i \in Nat \ {0}
  PROVE  /\ Native!Stamp(i) \in Nat \ {0}
         /\ PerStamp * (Native!Stamp(i) - 1) <= i - 1 /\ i - 1 < PerStamp * (Native!Stamp(i) - 1) + PerStamp
         /\ PerStamp * (Native!Stamp(i) - 1) \in Nat
<1> DEFINE n == i - 1
           q == n \div PerStamp
<1>1. n \in Nat /\ PerStamp \in Nat \ {0}
  BY NativeAssumption
<1>2. q \in Nat
  <2> HIDE DEF n
  <2> QED BY <1>1
<1>3. PerStamp * q <= n /\ n < PerStamp * q + PerStamp /\ PerStamp * q \in Nat
  <2> HIDE DEF n
  <2> QED BY <1>1, <1>2
<1>4. Native!Stamp(i) = q + 1
  BY DEF Native!Stamp
<1> HIDE DEF q
<1>5. Native!Stamp(i) - 1 = q
  BY <1>2, <1>4
<1> QED BY <1>2, <1>3, <1>4, <1>5

LEMMA TicksFollow ==
  ASSUME NEW i \in Nat \ {0}, NEW j \in Nat \ {0}, i <= j
  PROVE  Native!Stamp(i) <= Native!Stamp(j)
<1>1. PICK a \in Nat : Native!Stamp(i) - 1 = a /\ PerStamp * a \in Nat /\ PerStamp * a <= i - 1
  BY TickIs
<1>2. PICK b \in Nat : Native!Stamp(j) - 1 = b /\ PerStamp * b \in Nat /\ j - 1 < PerStamp * b + PerStamp
  BY TickIs
<1>3. PerStamp \in Nat
  BY NativeAssumption
<1>4. b < a => PerStamp * b + PerStamp <= PerStamp * a
  BY <1>3
<1>5. ~(b < a)
  BY <1>1, <1>2, <1>3, <1>4
<1>6. Native!Stamp(i) \in Nat /\ Native!Stamp(j) \in Nat
  BY TickIs
<1> QED BY <1>1, <1>2, <1>5, <1>6

\* No more events are of one tick than the device writes in one.
LEMMA TickHolds ==
  ASSUME NEW s, NEW n \in Nat, NEW a \in Nat, NEW t,
         \A k \in a..(a + n) : s[k] \in Nat \ {0} /\ Native!Stamp(s[k]) = t,
         \A k, m \in a..(a + n) : k # m => s[k] # s[m]
  PROVE  n < PerStamp
<1> DEFINE base == PerStamp * (t - 1)
           Places == a..(a + n)
           Tick == base..(base + PerStamp - 1)
           f == [k \in Places |-> s[k] - 1]
<1>1. PerStamp \in Nat \ {0}
  BY NativeAssumption
<1>2. a \in Places
  OBVIOUS
<1>3. base \in Nat
  <2>1. s[a] \in Nat \ {0} /\ Native!Stamp(s[a]) = t
    BY <1>2
  <2> QED BY <2>1, TickIs
<1>4. \A k \in Places : s[k] \in Nat /\ s[k] - 1 \in Tick
  <2> SUFFICES ASSUME NEW k \in Places PROVE s[k] \in Nat /\ s[k] - 1 \in Tick
    OBVIOUS
  <2>1. s[k] \in Nat \ {0} /\ Native!Stamp(s[k]) = t
    OBVIOUS
  <2>2. base <= s[k] - 1 /\ s[k] - 1 < base + PerStamp
    BY <2>1, TickIs
  <2> HIDE DEF base
  <2> QED BY <2>1, <2>2, <1>1, <1>3
<1> HIDE DEF base
<1>5. IsFiniteSet(Tick) /\ Cardinality(Tick) = PerStamp
  <2>1. base \in Int /\ base + PerStamp - 1 \in Int
    BY <1>1, <1>3
  <2> QED BY <2>1, <1>1, <1>3, FS_Interval
<1>6. IsFiniteSet(Places) /\ Cardinality(Places) = n + 1
  <2>1. a \in Int /\ a + n \in Int
    OBVIOUS
  <2> QED BY <2>1, FS_Interval
<1>7. f \in [Places -> Tick]
  BY <1>4
<1>8. \A k, m \in Places : k # m => f[k] # f[m]
  BY <1>4
<1> HIDE DEF f, Places, Tick
<1>9. ~(Cardinality(Tick) < Cardinality(Places))
  BY <1>5, <1>6, <1>7, <1>8, FS_PigeonHole
<1> QED BY <1>1, <1>5, <1>6, <1>9

LEMMA LeastBound ==
  ASSUME NEW S, S \subseteq Nat, S # {}, NEW b \in Nat, \A x \in S : x <= b
  PROVE  Native!Max(S) \in S /\ \A x \in S : x <= Native!Max(S)
<1> DEFINE U == {n \in Nat : \A x \in S : x <= n}
<1>1. b \in U /\ U \subseteq Nat
  OBVIOUS
<1>2. PICK n \in U : \A m \in U : <<m, n>> \notin OpToRel(<, Nat)
  <2> HIDE DEF U
  <2> QED BY <1>1, NatLessThanWellFounded, WFMin
<1>3. \A m \in U : ~(m < n)
  BY <1>2 DEF OpToRel
<1>4. n \in S
  <2> SUFFICES ASSUME n \notin S PROVE FALSE
    OBVIOUS
  <2>1. n \in Nat /\ \A x \in S : x \in Nat /\ x <= n
    OBVIOUS
  <2>2. \A x \in S : x < n
    BY <2>1
  <2>5. PICK x \in S : TRUE
    OBVIOUS
  <2>6. x \in Nat /\ x < n
    BY <2>1, <2>2
  <2>3. n # 0 /\ n - 1 \in Nat
    BY <2>1, <2>6
  <2>4. n - 1 \in U
    BY <2>1, <2>2, <2>3
  <2> HIDE DEF U
  <2> QED BY <2>1, <2>3, <2>4, <1>3
<1>5. \A x \in S : x \in Nat /\ x <= n
  OBVIOUS
<1> QED BY <1>4, <1>5 DEF Native!Max

\* The events of a set are listed as they were written, each of them.
LEMMA EventsListed ==
  ASSUME NEW S, S \subseteq Nat, IsFiniteSet(S)
  PROVE  /\ Cardinality(S) \in Nat
         /\ Native!InOrder(S) \in [1..Cardinality(S) -> S]
         /\ \A t \in S : \E i \in 1..Cardinality(S) : Native!InOrder(S)[i] = t
         /\ \A i, j \in 1..Cardinality(S) : i < j => Native!InOrder(S)[i] < Native!InOrder(S)[j]
<1> DEFINE n == Cardinality(S)
           Upto(t) == {u \in S : u <= t}
           rank == [t \in S |-> Cardinality(Upto(t))]
<1>1. n \in Nat
  BY FS_CardinalityType
<1>2. ASSUME NEW t \in S
      PROVE  IsFiniteSet(Upto(t)) /\ Cardinality(Upto(t)) \in 1..n
  <2>1. IsFiniteSet(Upto(t)) /\ Cardinality(Upto(t)) <= n
    BY FS_Subset
  <2>2. t \in Upto(t)
    BY <1>2
  <2>3. Cardinality(Upto(t)) # 0
    BY <2>1, <2>2, FS_EmptySet
  <2>4. Cardinality(Upto(t)) \in Nat
    BY <2>1, FS_CardinalityType
  <2> QED BY <1>1, <2>1, <2>3, <2>4
<1>3. ASSUME NEW t \in S, NEW u \in S, t < u
      PROVE  rank[t] < rank[u]
  <2>1. t \in Nat /\ u \in Nat
    OBVIOUS
  <2>2. ASSUME NEW v \in S, v <= t
        PROVE  v <= u
    BY <1>3, <2>1, <2>2
  <2>5. Upto(t) \in SUBSET Upto(u)
    BY <2>2
  <2>3. u \in Upto(u) /\ u \notin Upto(t)
    BY <1>3, <2>1
  <2> HIDE DEF Upto
  <2>4. Cardinality(Upto(t)) <= Cardinality(Upto(u)) /\ Cardinality(Upto(t)) # Cardinality(Upto(u))
    BY <1>2, <2>5, <2>3, FS_Subset
  <2> QED BY <1>1, <1>2, <2>4
<1>4. rank \in Injection(S, 1..n)
  <2>1. rank \in [S -> 1..n]
    BY <1>2
  <2>2. \A t, u \in S : t # u => t < u \/ u < t
    OBVIOUS
  <2>3. \A t \in S : rank[t] \in Nat
    BY <1>1, <2>1
  <2> HIDE DEF rank, Upto
  <2>4. IsInjective(rank)
    BY <1>3, <2>1, <2>2, <2>3 DEF IsInjective
  <2> QED BY <2>1, <2>4 DEF Injection
<1>5. IsFiniteSet(1..n) /\ Cardinality(1..n) = n
  BY <1>1, FS_Interval
<1>6. rank \in Surjection(S, 1..n)
  <2> HIDE DEF rank, n
  <2> QED BY <1>4, <1>5, FS_Injection DEF n
<1> DEFINE f == [i \in 1..n |-> CHOOSE t \in S : rank[t] = i]
           Sorted(s) == \A i, j \in DOMAIN s : i < j => s[i] < s[j]
<1> HIDE DEF rank
<1>7. ASSUME NEW i \in 1..n
      PROVE  f[i] \in S /\ rank[f[i]] = i
  BY <1>6 DEF Surjection
<1>8. f \in [1..n -> S] /\ Sorted(f)
  <2>1. f \in [1..n -> S]
    BY <1>7
  <2>2. ASSUME NEW i \in 1..n, NEW j \in 1..n, i < j
        PROVE  f[i] < f[j]
    <3> HIDE DEF f
    <3>1. f[i] \in S /\ f[j] \in S /\ rank[f[i]] = i /\ rank[f[j]] = j
      BY <1>7
    <3>4. f[i] \in Nat /\ f[j] \in Nat
      BY <3>1
    <3>2. ~(f[j] < f[i])
      BY <1>1, <1>3, <2>2, <3>1, <3>4
    <3>3. f[j] # f[i]
      BY <1>1, <2>2, <3>1
    <3> QED BY <3>2, <3>3, <3>4
  <2> HIDE DEF f
  <2> QED BY <2>1, <2>2
<1>9. Native!InOrder(S) \in [1..n -> S] /\ Sorted(Native!InOrder(S))
  <2> HIDE DEF f
  <2> QED BY <1>8 DEF Native!InOrder, Native!Cardinality, Cardinality, Native!IsFiniteSet, IsFiniteSet
<1>10. Native!InOrder(S) \in Injection(1..n, S)
  <2> DEFINE s == Native!InOrder(S)
  <2>1. s \in [1..n -> S] /\ \A i, j \in 1..n : i < j => s[i] < s[j]
    BY <1>9
  <2> HIDE DEF s
  <2>2. ASSUME NEW i \in 1..n, NEW j \in 1..n, s[i] = s[j]
        PROVE  i = j
    <3>1. s[i] \in Nat /\ s[j] \in Nat
      BY <2>1
    <3>2. ~(i < j) /\ ~(j < i)
      BY <2>1, <2>2, <3>1
    <3> QED BY <1>1, <3>2
  <2> QED BY <2>1, <2>2 DEF Injection, IsInjective, s
<1>11. Native!InOrder(S) \in Surjection(1..n, S)
  BY <1>5, <1>10, FS_Injection
<1> QED BY <1>1, <1>9, <1>11 DEF Surjection

-----------------------------------------------------------------------------
\* A bounded list keeps its newest.
Shifted(T, s, n, t, o) ==
    /\ t \in Seq(T) /\ Len(t) = Len(s) - o /\ Len(t) <= n
    /\ \A k \in 1..Len(t) : t[k] = s[k + o]
    /\ o = 0 \/ Len(t) = n
    /\ Len(s) <= n => o = 0

LEMMA LatestKeeps ==
  ASSUME NEW T, NEW s \in Seq(T), NEW n \in Nat
  PROVE  \E o \in Nat : o <= Len(s) /\ Shifted(T, s, n, Native!Latest(s, n), o)
<1> USE DEF Shifted
<1>1. Len(s) \in Nat
  BY LenProperties
<1>2. CASE Len(s) <= n
  <2>1. Native!Latest(s, n) = s
    BY <1>1, <1>2 DEF Native!Latest
  <2>2. 0 \in Nat /\ 0 <= Len(s) /\ Shifted(T, s, n, Native!Latest(s, n), 0)
    BY <2>1, <1>1, <1>2
  <2> QED BY <2>2
<1>3. CASE Len(s) > n
  <2> DEFINE t == SubSeq(s, Len(s) - n + 1, Len(s))
             o == Len(s) - n
  <2>1. Native!Latest(s, n) = t
    BY <1>1, <1>3 DEF Native!Latest
  <2>2. t \in Seq(T) /\ Len(t) = n /\ \A k \in 1..n : t[k] = s[k + o]
    BY <1>1, <1>3, SubSeqProperties
  <2> HIDE DEF t
  <2>3. o \in Nat /\ o <= Len(s) /\ Shifted(T, s, n, t, o)
    BY <1>1, <1>3, <2>2
  <2> QED BY <2>1, <2>3
<1> QED BY <1>1, <1>2, <1>3

\* What a read takes in: events the device wrote in the window, that are not remembered.
LEMMA TakenIn ==
  ASSUME NativeTypes, NEW since, NEW floor
  PROVE  /\ Native!Unseen(since, floor) \subseteq DOMAIN written /\ DOMAIN written \subseteq EventNo
         /\ IsFiniteSet(Native!Unseen(since, floor))
         /\ \A i \in Native!Unseen(since, floor) : Native!Stamp(i) >= since /\ ~Remembered(i)
         /\ \A i \in DOMAIN written : written[i].kind = "crash" /\ Native!Stamp(i) >= since
                  => i \in Native!Unseen(since, floor) \/ Remembered(i)
<1>1. DOMAIN written = 1..Len(written) /\ Len(written) \in Nat /\ Len(written) <= MaxWritten /\ MaxWritten \in Nat
  BY LenProperties, NativeAssumption DEF NativeTypes
<1>2. DOMAIN written \subseteq EventNo
  BY <1>1 DEF EventNo
<1>3. Native!Unseen(since, floor) \subseteq DOMAIN written
  BY DEF Native!Unseen, Native!Relevant, Native!Drafts
<1>4. IsFiniteSet(Native!Unseen(since, floor))
  <2>1. IsFiniteSet(DOMAIN written)
    BY <1>1, FS_Interval
  <2> QED BY <2>1, <1>3, FS_Subset
<1>5. \A i : Remembered(i) <=> i \in Native!ToSet(seenEvents)
  BY DEF Remembered, Native!ToSet
<1>6. \A i \in Native!Unseen(since, floor) : Native!Stamp(i) >= since /\ ~Remembered(i)
  BY <1>5 DEF Native!Unseen, Native!Relevant, Native!Drafts
<1>7. \A i \in DOMAIN written : written[i].kind = "crash" /\ Native!Stamp(i) >= since
         => i \in Native!Unseen(since, floor) \/ Remembered(i)
  BY <1>5 DEF Native!Unseen, Native!Relevant, Native!Drafts, Native!IsRelevant
<1> QED BY <1>2, <1>3, <1>4, <1>6, <1>7

\* The list a read makes: what is remembered, then what is new, each once and nothing else.
Extended(full, S) ==
    /\ full \in Seq(EventNo)
    /\ Len(full) = Len(seenEvents) + Cardinality(S) /\ Cardinality(S) \in Nat
    /\ \A k \in 1..Len(full) : \/ k <= Len(seenEvents) /\ full[k] = seenEvents[k]
                               \/ k > Len(seenEvents) /\ full[k] \in S
    /\ \A k, m \in 1..Len(full) : Len(seenEvents) < k /\ k < m => full[k] < full[m]
    /\ \A k \in DOMAIN seenEvents : k \in 1..Len(full) /\ full[k] = seenEvents[k]
    /\ \A i \in S : \E k \in 1..Len(full) : full[k] = i

LEMMA ListIsExtended ==
  ASSUME NativeTypes, NEW S, S \subseteq EventNo, IsFiniteSet(S)
  PROVE  Extended(seenEvents \o Native!InOrder(S), S)
<1> DEFINE new == Native!InOrder(S)
           full == seenEvents \o new
           a == Len(seenEvents)
           n == Cardinality(S)
<1>1. seenEvents \in Seq(EventNo) /\ a \in Nat /\ DOMAIN seenEvents = 1..a
  BY LenProperties DEF NativeTypes
<1>2. S \subseteq Nat
  BY NativeAssumption DEF EventNo
<1>3. /\ n \in Nat /\ new \in [1..n -> S]
      /\ \A t \in S : \E i \in 1..n : new[i] = t
      /\ \A i, j \in 1..n : i < j => new[i] < new[j]
  BY <1>2, EventsListed
<1> HIDE DEF new, n
<1>4. new \in Seq(EventNo) /\ Len(new) = n
  <2>1. new \in [1..n -> EventNo]
    BY <1>3
  <2>2. new \in Seq(EventNo)
    BY <1>3, <2>1, IsASeq
  <2> QED BY <2>1, <2>2, <1>3, LenProperties
<1>5. /\ full \in Seq(EventNo) /\ Len(full) = a + n
      /\ \A k \in 1..(a + n) : full[k] = IF k <= a THEN seenEvents[k] ELSE new[k - a]
  BY <1>1, <1>4, ConcatProperties
<1> HIDE DEF full
<1>6. \A k \in 1..(a + n) : \/ k <= a /\ full[k] = seenEvents[k]
                            \/ k > a /\ k - a \in 1..n /\ full[k] = new[k - a]
  BY <1>1, <1>3, <1>5
<1>7. ASSUME NEW k \in 1..(a + n), NEW m \in 1..(a + n), a < k, k < m PROVE full[k] < full[m]
  <2>1. k - a \in 1..n /\ m - a \in 1..n /\ k - a < m - a
    BY <1>1, <1>3, <1>7
  <2>2. full[k] = new[k - a] /\ full[m] = new[m - a]
    BY <1>1, <1>5, <1>7
  <2> QED BY <2>1, <2>2, <1>3
<1>8. \A k \in DOMAIN seenEvents : k \in 1..(a + n) /\ full[k] = seenEvents[k]
  BY <1>1, <1>3, <1>5
<1>9. ASSUME NEW i \in S PROVE \E k \in 1..(a + n) : full[k] = i
  <2>1. PICK j \in 1..n : new[j] = i
    BY <1>3
  <2>2. a + j \in 1..(a + n) /\ ~(a + j <= a) /\ (a + j) - a = j
    BY <1>1, <1>3
  <2>3. full[a + j] = i
    BY <2>1, <2>2, <1>5
  <2> QED BY <2>2, <2>3
<1>10. \A k \in 1..(a + n) : \/ k <= a /\ full[k] = seenEvents[k]
                             \/ k > a /\ full[k] \in S
  BY <1>3, <1>6
<1> QED BY <1>3, <1>5, <1>7, <1>8, <1>9, <1>10 DEF Extended, full, new, n

\* A read's events are taken in.
LEMMA IngestKeeps ==
  ASSUME NativeParts, NEW since \in Nat, NEW floor, Native!Ingest(since, floor),
         UNCHANGED written, nativeCall' \in [Caller -> NativeCall]
  PROVE  NativeParts'
<1> USE DEF NativeParts
<1> DEFINE S == Native!Unseen(since, floor)
           full == seenEvents \o Native!InOrder(S)
           a == Len(seenEvents)
           D == Len(written)
<1>1. /\ seenEvents' = Native!Latest(full, SeenSize)
      /\ given' = [i \in DOMAIN given |-> given[i] + (IF i \in S THEN 1 ELSE 0)]
      /\ lastTs' = Native!Max({Native!Stamp(i) : i \in S} \union {lastTs})
      /\ widened' = (widened \/ since < lastTs)
      /\ leftOut' = leftOut \union {i \in DOMAIN written : /\ lastTs <= Native!Stamp(i)
                                        /\ Native!Stamp(i) < since /\ Native!Stamp(i) < lastTs'}
  BY DEF Native!Ingest, Native!Watermark
<1>2. /\ S \subseteq DOMAIN written /\ DOMAIN written \subseteq EventNo /\ IsFiniteSet(S)
      /\ \A i \in S : Native!Stamp(i) >= since /\ ~Remembered(i)
      /\ \A i \in DOMAIN written : written[i].kind = "crash" /\ Native!Stamp(i) >= since
                 => i \in S \/ Remembered(i)
  BY TakenIn
<1>3. Extended(full, S)
  BY <1>2, ListIsExtended
<1> HIDE DEF S, full
<1>4. /\ seenEvents \in Seq(EventNo) /\ a \in Nat /\ a <= SeenSize /\ DOMAIN seenEvents = 1..a
      /\ D \in Nat /\ DOMAIN written = 1..D /\ D <= MaxWritten
      /\ SeenSize \in Nat \ {0} /\ PerStamp \in Nat \ {0} /\ PerStamp <= SeenSize /\ MaxWritten \in Nat
      /\ lastTs \in Nat /\ EventNo \subseteq Nat \ {0} /\ given \in [EventNo -> Nat]
  BY NativeAssumption, LenProperties DEF NativeTypes, EventNo
<1>5. \A i \in EventNo : Native!Stamp(i) \in Nat \ {0}
  BY <1>4, TickIs
<1>6. \A i \in EventNo : given'[i] = IF i \in S THEN given[i] + 1 ELSE given[i]
  BY <1>1, <1>4
<1>24. ~widened' => ~widened /\ since >= lastTs
  <2>1. ~widened' => ~widened /\ ~(since < lastTs)
    BY <1>1
  <2> QED BY <2>1, <1>4
\* the watermark
<1>7. /\ lastTs' \in Nat /\ lastTs <= lastTs' /\ \A i \in S : Native!Stamp(i) <= lastTs'
      /\ lastTs' = lastTs \/ \E i \in S : lastTs' = Native!Stamp(i)
  <2> DEFINE T == {Native!Stamp(i) : i \in S} \union {lastTs}
  <2>1. T \subseteq Nat /\ T # {} /\ lastTs \in T /\ \A i \in S : Native!Stamp(i) \in T
    BY <1>2, <1>4, <1>5
  <2>2. \A i \in S : Native!Stamp(i) <= Native!Stamp(D + 1)
    <3>1. \A i \in S : i \in Nat \ {0} /\ D + 1 \in Nat \ {0} /\ i <= D + 1
      BY <1>2, <1>4
    <3> QED BY <3>1, TicksFollow
  <2>3. Native!Stamp(D + 1) \in Nat
    <3>1. D + 1 \in Nat \ {0}
      BY <1>4
    <3> QED BY <3>1, TickIs
  <2>4. PICK b \in Nat : b = Native!Stamp(D + 1) + lastTs
    BY <2>3, <1>4
  <2>5. \A x \in T : x <= b
    <3>1. \A i \in S : Native!Stamp(i) \in Nat /\ Native!Stamp(i) <= Native!Stamp(D + 1)
      BY <2>2, <1>2, <1>5
    <3> QED BY <3>1, <2>3, <2>4, <1>4
  <2>6. \A x \in T : x = lastTs \/ \E i \in S : x = Native!Stamp(i)
    OBVIOUS
  <2>8. lastTs' = Native!Max(T)
    BY <1>1
  <2> HIDE DEF T
  <2>7. Native!Max(T) \in T /\ \A x \in T : x <= Native!Max(T)
    BY <2>1, <2>5, LeastBound
  <2> QED BY <2>1, <2>6, <2>7, <2>8
\* the list
<1>8. PICK o \in Nat : o <= Len(full) /\ Shifted(EventNo, full, SeenSize, seenEvents', o)
  BY <1>1, <1>3, <1>4, LatestKeeps DEF Extended
<1>9. /\ full \in Seq(EventNo) /\ Len(full) \in Nat /\ Len(full) = a + Cardinality(S) /\ Cardinality(S) \in Nat
      /\ seenEvents' \in Seq(EventNo) /\ Len(seenEvents') = Len(full) - o /\ Len(seenEvents') <= SeenSize
      /\ DOMAIN seenEvents' = 1..Len(seenEvents') /\ Len(seenEvents') \in Nat
      /\ o = 0 \/ Len(seenEvents') = SeenSize
      /\ Len(full) <= SeenSize => o = 0
      /\ \A k \in 1..Len(seenEvents') : seenEvents'[k] = full[k + o] /\ k + o \in 1..Len(full)
  BY <1>3, <1>4, <1>8, LenProperties DEF Extended, Shifted
<1>10. \A k \in 1..Len(full) : /\ full[k] \in EventNo
                               /\ \/ k <= a /\ k \in DOMAIN seenEvents /\ full[k] = seenEvents[k]
                                  \/ k > a /\ full[k] \in S
  BY <1>2, <1>3, <1>4, <1>9 DEF Extended
<1>11. \A k, m \in 1..Len(full) : k < m => full[k] # full[m]
  <2> SUFFICES ASSUME NEW k \in 1..Len(full), NEW m \in 1..Len(full), k < m PROVE full[k] # full[m]
    OBVIOUS
  <2>1. CASE k > a
    <3>1. full[k] < full[m] /\ full[k] \in Nat /\ full[m] \in Nat
      BY <2>1, <1>3, <1>4, <1>10 DEF Extended
    <3> QED BY <3>1
  <2>2. CASE k <= a /\ m <= a
    <3>1. k \in DOMAIN seenEvents /\ m \in DOMAIN seenEvents /\ k # m
          /\ full[k] = seenEvents[k] /\ full[m] = seenEvents[m]
      BY <2>2, <1>4, <1>9, <1>10
    <3> QED BY <3>1 DEF GivenWasWritten
  <2>3. CASE k <= a /\ m > a
    <3>1. k \in DOMAIN seenEvents /\ full[k] = seenEvents[k] /\ full[m] \in S
      BY <2>3, <1>4, <1>9, <1>10
    <3> QED BY <3>1, <1>2 DEF Remembered
  <2>4. k > a \/ (k <= a /\ m <= a) \/ (k <= a /\ m > a)
    <3>1. Len(full) \in Nat /\ a \in Nat
      BY <1>4, <1>9
    <3> HIDE DEF a
    <3> QED BY <3>1
  <2> QED BY <2>1, <2>2, <2>3, <2>4
<1>12. \A i \in EventNo : given'[i] > 0 => given[i] > 0 \/ i \in S
  BY <1>6
<1>13. \A k \in 1..Len(full) : given'[full[k]] > 0
  <2> SUFFICES ASSUME NEW k \in 1..Len(full) PROVE given'[full[k]] > 0
    OBVIOUS
  <2>1. given[full[k]] \in Nat
    BY <1>4, <1>10
  <2>2. CASE k \in DOMAIN seenEvents /\ full[k] = seenEvents[k]
    BY <2>1, <2>2, <1>6, <1>10 DEF GivenWasWritten
  <2>3. CASE full[k] \in S
    BY <2>1, <2>3, <1>6, <1>10
  <2> QED BY <2>2, <2>3, <1>10
<1>14. NativeTypes'
  <2>1. given' \in [EventNo -> Nat]
    BY <1>1, <1>4
  <2>2. widened' \in BOOLEAN
    BY <1>1 DEF NativeTypes
  <2>3. written' \in Seq(DeviceRow) /\ Len(written') <= MaxWritten
    BY DEF NativeTypes
  <2> QED BY <2>1, <2>2, <2>3, <1>7, <1>9 DEF NativeTypes
<1>15. WatermarkIsWritten'
  BY <1>2, <1>7 DEF WatermarkIsWritten
<1>16. GivenWasWritten'
  <2>1. ASSUME NEW i \in EventNo, given'[i] > 0 PROVE i \in DOMAIN written /\ Native!Stamp(i) <= lastTs'
    <3>1. CASE i \in S
      BY <3>1, <1>2, <1>7
    <3>2. CASE given[i] > 0
      <4>1. i \in DOMAIN written /\ Native!Stamp(i) <= lastTs
        BY <3>2 DEF GivenWasWritten
      <4> QED BY <4>1, <1>4, <1>5, <1>7
    <3> QED BY <2>1, <3>1, <3>2, <1>12
  <2>2. \A k \in DOMAIN seenEvents' : given'[seenEvents'[k]] > 0
    BY <1>9, <1>13
  <2>3. \A k, m \in DOMAIN seenEvents' : k # m => seenEvents'[k] # seenEvents'[m]
    <3> SUFFICES ASSUME NEW k \in DOMAIN seenEvents', NEW m \in DOMAIN seenEvents', k < m
                 PROVE  seenEvents'[k] # seenEvents'[m]
      BY <1>9
    <3>1. k \in Nat /\ m \in Nat /\ o \in Nat
          /\ k + o \in 1..Len(full) /\ seenEvents'[k] = full[k + o]
          /\ m + o \in 1..Len(full) /\ seenEvents'[m] = full[m + o]
      BY <1>9
    <3>2. PICK x \in 1..Len(full), y \in 1..Len(full) : x = k + o /\ y = m + o /\ x < y
      BY <3>1
    <3> QED BY <3>1, <3>2, <1>11
  <2> QED BY <2>1, <2>2, <2>3 DEF GivenWasWritten
\* an event is taken again only if it was forgotten
<1>17. Native!TakenOnce'
  <2> SUFFICES ASSUME widened' => D <= SeenSize, NEW i \in EventNo PROVE given'[i] <= 1
    BY <1>1, <1>4 DEF Native!TakenOnce
  <2>1. given[i] \in Nat /\ given[i] <= 1
    <3>1. widened => D <= SeenSize
      BY <1>1
    <3> QED BY <3>1, <1>4 DEF Native!TakenOnce
  <2>2. CASE i \notin S
    BY <2>1, <2>2, <1>6
  <2>3. CASE i \in S
    <3>1. ~Remembered(i) /\ Native!Stamp(i) >= since
      BY <2>3, <1>2
    <3>2. CASE D <= SeenSize
      <4>1. ~(given[i] > 0)
        BY <3>1, <3>2 DEF LastTickRemembered
      <4> QED BY <4>1, <2>1, <1>6
    <3>3. CASE ~widened'
      <4>1. ~widened /\ since >= lastTs
        BY <3>3, <1>24
      <4>2. given[i] > 0 => Native!Stamp(i) = lastTs
        BY <4>1, <3>1, <1>4, <1>5 DEF GivenWasWritten
      <4>3. ~(given[i] > 0)
        BY <4>1, <4>2, <3>1 DEF LastTickRemembered
      <4> QED BY <4>3, <2>1, <1>6
    <3> QED BY <3>2, <3>3
  <2> QED BY <2>2, <2>3
<1>18. Native!NoCrashPassed'
  <2> SUFFICES ASSUME NEW i \in DOMAIN written, written[i].kind = "crash", Native!Stamp(i) < lastTs'
               PROVE  given'[i] > 0 \/ i \in leftOut'
    BY DEF Native!NoCrashPassed
  <2>1. i \in EventNo /\ given[i] \in Nat /\ Native!Stamp(i) \in Nat
    BY <1>2, <1>4, <1>5
  <2>2. CASE Native!Stamp(i) < lastTs
    <3>1. given[i] > 0 \/ i \in leftOut
      BY <2>2 DEF Native!NoCrashPassed
    <3> QED BY <3>1, <2>1, <1>1, <1>6
  <2>3. CASE Native!Stamp(i) >= lastTs /\ Native!Stamp(i) < since
    BY <2>1, <2>3, <1>1, <1>4
  <2>4. CASE Native!Stamp(i) >= since
    <3>1. i \in S \/ Remembered(i)
      BY <2>4, <1>2
    <3>2. Remembered(i) => given[i] > 0
      BY DEF Remembered, GivenWasWritten
    <3> QED BY <3>1, <3>2, <2>1, <1>6
  <2> QED BY <2>1, <2>2, <2>3, <2>4, <1>4
\* what is remembered
<1>19. \A i \in EventNo : Remembered(i) \/ i \in S => \E k \in 1..Len(full) : full[k] = i
  BY <1>3 DEF Remembered, Extended
<1>20. D <= SeenSize => \A i \in EventNo : given'[i] > 0 => Remembered(i)'
  <2> SUFFICES ASSUME D <= SeenSize, NEW i \in EventNo, given'[i] > 0 PROVE Remembered(i)'
    OBVIOUS
  <2>1. given[i] > 0 => Remembered(i)
    BY DEF LastTickRemembered
  <2>2. PICK k \in 1..Len(full) : full[k] = i
    BY <2>1, <1>12, <1>19
  <2>3. Len(full) <= D
    <3> DEFINE Places == 1..Len(full)
               All == DOMAIN written
               f == [j \in Places |-> full[j]]
    <3>1. IsFiniteSet(Places) /\ Cardinality(Places) = Len(full) /\ IsFiniteSet(All) /\ Cardinality(All) = D
      <4>1. IsFiniteSet(1..Len(full)) /\ Cardinality(1..Len(full)) = Len(full)
        <5>1. PICK n \in Nat : n = Len(full)
          BY <1>9
        <5>2. IsFiniteSet(1..n) /\ Cardinality(1..n) = n
          <6>1. 1 \in Int /\ n \in Int
            OBVIOUS
          <6> HIDE DEF Places, All, f
          <6>2. IsFiniteSet(1..n) /\ Cardinality(1..n) = IF 1 > n THEN 0 ELSE n - 1 + 1
            BY <6>1, FS_Interval
          <6> QED BY <6>2
        <5> QED BY <5>1, <5>2
      <4>2. IsFiniteSet(1..D) /\ Cardinality(1..D) = D
        <5>1. D \in Nat /\ 1 \in Int /\ D \in Int
          BY <1>4
        <5> HIDE DEF D
        <5> QED BY <5>1, FS_Interval
      <4> QED BY <4>1, <4>2, <1>4
    <3>2. \A j \in Places : full[j] \in All
      <4> SUFFICES ASSUME NEW j \in Places PROVE full[j] \in All
        OBVIOUS
      <4>1. CASE full[j] \in S
        BY <4>1, <1>2
      <4>2. CASE j \in DOMAIN seenEvents /\ full[j] = seenEvents[j]
        BY <4>2, <1>10 DEF GivenWasWritten
      <4> QED BY <4>1, <4>2, <1>10
    <3>3. f \in [Places -> All]
      BY <3>2
    <3>4. \A j, m \in Places : j # m => f[j] # f[m]
      <4>1. \A j, m \in Places : j # m => j < m \/ m < j
        BY <1>9
      <4> QED BY <4>1, <1>11
    <3> HIDE DEF f, Places, All
    <3>5. ~(Cardinality(All) < Cardinality(Places))
      BY <3>1, <3>3, <3>4, FS_PigeonHole
    <3> QED BY <3>1, <3>5, <1>4, <1>9
  <2>4. o = 0
    BY <2>3, <1>4, <1>9
  <2>5. k \in DOMAIN seenEvents' /\ seenEvents'[k] = i
    BY <2>2, <2>4, <1>9
  <2> QED BY <2>5 DEF Remembered
<1>21. ASSUME ~widened'
       PROVE  /\ \A k, m \in 1..Len(full) : k < m => Native!Stamp(full[k]) <= Native!Stamp(full[m])
              /\ \A k \in 1..Len(full) : Native!Stamp(full[k]) <= lastTs'
  <2>1. ~widened /\ since >= lastTs
    BY <1>21, <1>24
  <2>2. \A k \in DOMAIN seenEvents : seenEvents[k] \in EventNo /\ Native!Stamp(seenEvents[k]) <= lastTs
    <3>1. \A k \in DOMAIN seenEvents : seenEvents[k] \in EventNo
      BY <1>4
    <3>2. GivenWasWritten
      OBVIOUS
    <3> QED BY <3>1, <3>2 DEF GivenWasWritten
  <2>3. \A k \in 1..Len(full) : Native!Stamp(full[k]) <= lastTs'
    <3> SUFFICES ASSUME NEW k \in 1..Len(full) PROVE Native!Stamp(full[k]) <= lastTs'
      OBVIOUS
    <3>1. CASE full[k] \in S
      BY <3>1, <1>7
    <3>2. CASE k \in DOMAIN seenEvents /\ full[k] = seenEvents[k]
      <4>1. Native!Stamp(full[k]) \in Nat /\ Native!Stamp(full[k]) <= lastTs
        BY <3>2, <2>2, <1>5
      <4> QED BY <4>1, <1>4, <1>7
    <3> QED BY <3>1, <3>2, <1>10
  <2>4. ASSUME NEW k \in 1..Len(full), NEW m \in 1..Len(full), k < m
        PROVE  Native!Stamp(full[k]) <= Native!Stamp(full[m])
    <3>1. CASE k > a
      <4>1. full[k] < full[m] /\ full[k] \in Nat \ {0} /\ full[m] \in Nat \ {0}
        BY <3>1, <2>4, <1>3, <1>4, <1>10 DEF Extended
      <4> QED BY <4>1, TicksFollow
    <3>2. CASE k <= a /\ m <= a
      <4>1. k \in DOMAIN seenEvents /\ m \in DOMAIN seenEvents /\ full[k] = seenEvents[k] /\ full[m] = seenEvents[m]
        BY <3>2, <1>4, <1>9, <1>10
      <4> QED BY <4>1, <2>1, <2>4 DEF LastTickRemembered
    <3>3. CASE k <= a /\ m > a
      <4>1. k \in DOMAIN seenEvents /\ full[k] = seenEvents[k] /\ full[m] \in S
        BY <3>3, <1>4, <1>9, <1>10
      <4>2. Native!Stamp(full[k]) <= lastTs /\ since <= Native!Stamp(full[m])
        BY <4>1, <2>2, <1>2
      <4>3. Native!Stamp(full[k]) \in Nat /\ Native!Stamp(full[m]) \in Nat
        BY <1>5, <1>10
      <4> QED BY <4>2, <4>3, <2>1, <1>4
    <3> QED BY <3>1, <3>2, <3>3, <1>4, <1>9
  <2> QED BY <2>3, <2>4
<1>22. ASSUME ~widened', NEW i \in EventNo, given'[i] > 0, Native!Stamp(i) = lastTs' PROVE Remembered(i)'
  <2>1. ~widened
    BY <1>22, <1>1
  <2>2. i \in S \/ Remembered(i)
    <3>1. CASE given[i] > 0
      <4>1. Native!Stamp(i) <= lastTs
        BY <3>1 DEF GivenWasWritten
      <4>2. Native!Stamp(i) = lastTs
        BY <4>1, <1>4, <1>5, <1>7, <1>22
      <4> QED BY <4>2, <3>1, <2>1 DEF LastTickRemembered
    <3> QED BY <3>1, <1>12, <1>22
  <2>3. PICK p \in 1..Len(full) : full[p] = i
    BY <2>2, <1>19
  <2>4. CASE p <= o
    \* it and all that are kept would be of one tick
    <3>1. Len(seenEvents') = SeenSize /\ Len(full) = o + SeenSize
      BY <2>3, <2>4, <1>9
    <3>2. p \in Nat /\ p + SeenSize \in 1..Len(full)
      <4>1. Len(full) = o + SeenSize /\ o \in Nat /\ SeenSize \in Nat /\ p \in Nat /\ p >= 1 /\ p <= o
        BY <2>3, <2>4, <3>1, <1>4, <1>9
      <4> QED BY <4>1
    <3>3. \A k \in p..(p + SeenSize) : k \in 1..Len(full) /\ (k = p \/ p < k)
      <4>1. Len(full) \in Nat /\ SeenSize \in Nat /\ p \in Nat /\ p >= 1 /\ p + SeenSize <= Len(full)
        BY <2>3, <3>2, <1>4, <1>9
      <4> QED BY <4>1
    <3>4. \A k \in p..(p + SeenSize) : full[k] \in Nat \ {0} /\ Native!Stamp(full[k]) = lastTs'
      <4> SUFFICES ASSUME NEW k \in p..(p + SeenSize)
                   PROVE  full[k] \in Nat \ {0} /\ Native!Stamp(full[k]) = lastTs'
        OBVIOUS
      <4>1. k \in 1..Len(full) /\ full[k] \in EventNo
        BY <3>3, <1>10
      <4>2. Native!Stamp(full[p]) <= Native!Stamp(full[k]) \/ k = p
        BY <4>1, <3>3, <1>21, <1>22
      <4>3. Native!Stamp(full[k]) <= lastTs' /\ Native!Stamp(full[k]) \in Nat
        BY <4>1, <1>5, <1>21, <1>22
      <4>4. Native!Stamp(full[p]) = lastTs' /\ lastTs' \in Nat
        BY <2>3, <1>7, <1>22
      <4>5. Native!Stamp(full[k]) = lastTs'
        <5>1. CASE k = p
          BY <5>1, <4>4
        <5>2. CASE Native!Stamp(full[p]) <= Native!Stamp(full[k])
          BY <5>2, <4>3, <4>4
        <5> QED BY <5>1, <5>2, <4>2
      <4> QED BY <4>1, <4>5, <1>4
    <3>5. \A k, m \in p..(p + SeenSize) : k # m => full[k] # full[m]
      <4>1. \A k, m \in p..(p + SeenSize) : k # m => k < m \/ m < k
        BY <3>2, <1>4
      <4> QED BY <4>1, <3>3, <1>11
    <3>6. SeenSize \in Nat /\ p \in Nat
      BY <3>2, <1>4
    <3>7. SeenSize < PerStamp
      BY <3>4, <3>5, <3>6, TickHolds
    <3> QED BY <3>7, <1>4
  <2>5. CASE p > o
    <3>1. p - o \in 1..Len(seenEvents') /\ (p - o) + o = p
      BY <2>3, <2>5, <1>9
    <3>2. seenEvents'[p - o] = i
      BY <3>1, <2>3, <1>9
    <3> QED BY <3>1, <3>2, <1>9 DEF Remembered
  <2> QED BY <2>3, <2>4, <2>5, <1>9
<1>23. LastTickRemembered'
  <2>1. ASSUME ~widened', NEW k \in DOMAIN seenEvents', NEW m \in DOMAIN seenEvents', k < m
        PROVE  Native!Stamp(seenEvents'[k]) <= Native!Stamp(seenEvents'[m])
    <3>1. k + o \in 1..Len(full) /\ m + o \in 1..Len(full) /\ k + o < m + o
          /\ seenEvents'[k] = full[k + o] /\ seenEvents'[m] = full[m + o]
      <4>2. DOMAIN seenEvents' = 1..Len(seenEvents') /\ Len(seenEvents') \in Nat
        BY <1>9
      <4>3. \A j \in 1..Len(seenEvents') : seenEvents'[j] = full[j + o] /\ j + o \in 1..Len(full)
        BY <1>9
      <4>1. k \in 1..Len(seenEvents') /\ m \in 1..Len(seenEvents') /\ k \in Nat /\ m \in Nat /\ o \in Nat
        BY <4>2
      <4> QED BY <4>1, <4>3, <2>1
    <3>2. PICK x \in 1..Len(full), y \in 1..Len(full) : x = k + o /\ y = m + o
      BY <3>1
    <3>3. Native!Stamp(full[x]) <= Native!Stamp(full[y])
      BY <3>1, <3>2, <2>1, <1>21
    <3> QED BY <3>1, <3>2, <3>3
  <2>2. ~widened' => \A k, m \in DOMAIN seenEvents' :
              k < m => Native!Stamp(seenEvents'[k]) <= Native!Stamp(seenEvents'[m])
    BY <2>1
  <2>3. ~widened' => \A i \in EventNo : given'[i] > 0 /\ Native!Stamp(i) = lastTs' => Remembered(i)'
    BY <1>22
  <2>4. Len(written') <= SeenSize => \A i \in EventNo : given'[i] > 0 => Remembered(i)'
    BY <1>20
  <2> QED BY <2>2, <2>3, <2>4 DEF LastTickRemembered
<1> QED BY <1>14, <1>15, <1>16, <1>17, <1>18, <1>23

\* What a step leaves as it was: the device may write, the events may be cleared.
Kept == UNCHANGED <<seenEvents, lastTs, given, widened, leftOut>>

LEMMA NativeStart ==
  ASSUME Native!Init
  PROVE  NativeParts
<1>1. written = <<>> /\ DOMAIN written = {} /\ Len(written) = 0 /\ seenEvents = <<>>
      /\ DOMAIN seenEvents = {} /\ Len(seenEvents) = 0 /\ lastTs = 0 /\ widened = FALSE
      /\ given = [i \in EventNo |-> 0] /\ nativeCall = [c \in Caller |-> Native!Quiet]
  BY DEF EventNo, Native!Init
<1>2. Native!Quiet \in NativeCall
  BY DEF Native!Quiet, NativeCall, Native!Levels
<1>3. NativeTypes
  <2>1. written \in Seq(DeviceRow) /\ seenEvents \in Seq(EventNo)
    BY <1>1
  <2>2. Len(written) <= MaxWritten /\ Len(seenEvents) <= SeenSize
    BY <1>1, NativeAssumption
  <2>3. given \in [EventNo -> Nat]
    BY <1>1
  <2>4. nativeCall \in [Caller -> NativeCall]
    BY <1>1, <1>2
  <2> QED BY <1>1, <2>1, <2>2, <2>3, <2>4 DEF NativeTypes
<1>4. \A i \in EventNo : given[i] = 0
  BY <1>1
<1>8. \A i \in EventNo : ~(given[i] > 0)
  BY <1>4
<1>5. WatermarkIsWritten /\ GivenWasWritten
  BY <1>1, <1>8 DEF WatermarkIsWritten, GivenWasWritten
<1>6. LastTickRemembered
  BY <1>1, <1>8 DEF LastTickRemembered
<1>7. Native!TakenOnce /\ Native!NoCrashPassed
  BY <1>1, <1>4 DEF Native!TakenOnce, Native!NoCrashPassed, EventNo
<1> QED BY <1>3, <1>5, <1>6, <1>7 DEF NativeParts

\* The calls are calls.
CallsAsk == nativeCall' \in [Caller -> NativeCall]

LEMMA CallChanges ==
  ASSUME NativeParts, NEW c \in Caller, NEW q \in NativeCall,
         nativeCall' = [nativeCall EXCEPT ![c] = q]
  PROVE  CallsAsk
BY DEF NativeParts, NativeTypes, CallsAsk

LEMMA CallEnds ==
  ASSUME NativeParts, NEW c \in Caller, Native!Ended(c)
  PROVE  CallsAsk
<1>1. Native!Quiet \in NativeCall
  BY DEF Native!Quiet, NativeCall, Native!Levels
<1> QED BY <1>1, CallChanges DEF Native!Ended

LEMMA KeptIsKept ==
  ASSUME NativeParts, Kept, UNCHANGED written, CallsAsk
  PROVE  NativeParts'
<1> USE DEF NativeParts, Kept, CallsAsk
<1>1. NativeTypes'
  BY DEF NativeTypes
<1>2. WatermarkIsWritten' /\ GivenWasWritten'
  BY DEF WatermarkIsWritten, GivenWasWritten
<1>3. LastTickRemembered'
  BY DEF LastTickRemembered, Remembered
<1>4. Native!TakenOnce' /\ Native!NoCrashPassed'
  BY DEF Native!TakenOnce, Native!NoCrashPassed
<1> QED BY <1>1, <1>2, <1>3, <1>4

LEMMA WritingKeeps ==
  ASSUME NativeParts, Native!DeviceWrites
  PROVE  NativeParts'
<1> USE DEF NativeParts
<1>1. PICK row \in DeviceRow : written' = Append(written, row)
  BY DEF Native!DeviceWrites, DeviceRow
<1>2. Len(written) < MaxWritten /\ UNCHANGED <<seenEvents, lastTs, given, widened, leftOut, nativeCall>>
  BY DEF Native!DeviceWrites, Native!buffer
<1> DEFINE n == Len(written)
<1>3. /\ n \in Nat /\ MaxWritten \in Nat /\ SeenSize \in Nat /\ DOMAIN written = 1..n
      /\ written' \in Seq(DeviceRow) /\ Len(written') = n + 1 /\ DOMAIN written' = 1..(n + 1)
      /\ \A i \in 1..n : written'[i] = written[i]
      /\ EventNo \subseteq Nat \ {0} /\ DOMAIN written \subseteq DOMAIN written'
  BY <1>1, AppendProperties, LenProperties, NativeAssumption DEF NativeTypes, EventNo
<1> HIDE DEF n
<1>4. NativeTypes'
  BY <1>2, <1>3 DEF NativeTypes, n
<1>5. WatermarkIsWritten'
  <2>1. lastTs = 0 \/ \E i \in DOMAIN written' : lastTs = Native!Stamp(i)
    BY <1>3 DEF WatermarkIsWritten
  <2> QED BY <2>1, <1>2 DEF WatermarkIsWritten
<1>6. GivenWasWritten'
  BY <1>2, <1>3 DEF GivenWasWritten
<1>7. Len(written') <= SeenSize => n <= SeenSize
  BY <1>3
<1>8. LastTickRemembered'
  <2>1. LastTickRemembered
    OBVIOUS
  <2> QED BY <2>1, <1>2, <1>7 DEF LastTickRemembered, Remembered, n
<1>9. Native!TakenOnce'
  <2>1. (widened' => Len(written') <= SeenSize) => (widened => Len(written) <= SeenSize)
    BY <1>2, <1>7 DEF n
  <2>2. Native!TakenOnce
    OBVIOUS
  <2> QED BY <2>1, <2>2, <1>2 DEF Native!TakenOnce
<1>10. Native!NoCrashPassed'
  <2> SUFFICES ASSUME NEW i \in DOMAIN written', written'[i].kind = "crash", Native!Stamp(i) < lastTs
               PROVE  given[i] > 0 \/ i \in leftOut
    BY <1>2 DEF Native!NoCrashPassed
  <2>1. CASE i \in 1..n
    BY <2>1, <1>3 DEF Native!NoCrashPassed
  <2>2. CASE i = n + 1
    <3>1. i \in Nat \ {0} /\ Native!Stamp(i) \in Nat \ {0}
      <4>1. i \in Nat \ {0}
        BY <2>2, <1>3
      <4> QED BY <4>1, TickIs
    <3>2. lastTs # 0 /\ lastTs \in Nat
      BY <3>1 DEF NativeTypes
    <3>3. PICK j \in DOMAIN written : lastTs = Native!Stamp(j)
      BY <3>2 DEF WatermarkIsWritten
    <3>4. j \in Nat \ {0} /\ j <= i
      BY <2>2, <1>3
    <3>5. lastTs <= Native!Stamp(i)
      BY <3>1, <3>3, <3>4, TicksFollow
    <3> QED BY <3>1, <3>2, <3>5
  <2> QED BY <2>1, <2>2, <1>3
<1> QED BY <1>4, <1>5, <1>6, <1>8, <1>9, <1>10

LEMMA NativeStep ==
  ASSUME NativeParts, Native!Next
  PROVE  NativeParts'
<1>1. \A c \in Caller : nativeCall[c] \in NativeCall /\ nativeCall[c].since \in Nat /\ lastTs \in Nat
  BY DEF NativeParts, NativeTypes, NativeCall
<1>2. UNCHANGED nativeCall => CallsAsk
  BY DEF NativeParts, NativeTypes, CallsAsk
<1>3. CASE Native!IdentityRecorded \/ Native!CooldownEnds \/ Native!Clear
  <2>1. Kept /\ UNCHANGED <<written, nativeCall>>
    BY <1>3 DEF Native!IdentityRecorded, Native!CooldownEnds, Native!Clear, Native!buffer, Kept
  <2> QED BY <2>1, <1>2, KeptIsKept
<1>4. ASSUME NEW c \in Caller, NEW q \in NativeCall, Native!Begins(c, q) PROVE NativeParts'
  <2>1. CallsAsk
    BY <1>4, CallChanges DEF Native!Begins
  <2>2. Kept /\ UNCHANGED written
    BY <1>4 DEF Native!Begins, Native!buffer, Kept
  <2> QED BY <2>1, <2>2, KeptIsKept
<1>5. ASSUME NEW c \in Caller, Native!Escalate(c) PROVE NativeParts'
  <2> DEFINE q == [step |-> "escalating", since |-> lastTs, floor |-> 2]
  <2>1. q \in NativeCall
    BY <1>1 DEF NativeCall, Native!Levels
  <2>2. Native!Begins(c, q)
    BY <1>5 DEF Native!Escalate
  <2> HIDE DEF q
  <2> QED BY <2>1, <2>2, <1>4
<1>6. ASSUME NEW c \in Caller, NEW floor \in Native!Levels, Native!GetNativeLogs(c, floor)
      PROVE  NativeParts'
  <2>0. PICK since \in {lastTs} \union 0..Native!Stamp(Len(written)) :
           Native!Begins(c, [step |-> "fetching", since |-> since, floor |-> floor])
    BY <1>6 DEF Native!GetNativeLogs
  <2> DEFINE q == [step |-> "fetching", since |-> since, floor |-> floor]
  <2>1. q \in NativeCall
    <3>1. since \in Nat
      BY <1>1, <2>0
    <3> QED BY <3>1 DEF NativeCall
  <2>2. Native!Begins(c, q)
    BY <2>0
  <2> HIDE DEF q
  <2> QED BY <2>1, <2>2, <1>4
<1>7. ASSUME NEW c \in Caller, Native!CollectNativeEvents(c) \/ Native!AnswerCrash(c) PROVE NativeParts'
  <2>1. Native!Ended(c) /\ Native!Ingest(nativeCall[c].since, nativeCall[c].floor) /\ UNCHANGED written
    BY <1>7 DEF Native!CollectNativeEvents, Native!AnswerCrash
  <2>2. CallsAsk
    BY <2>1, CallEnds
  <2> QED BY <2>1, <2>2, <1>1, IngestKeeps DEF CallsAsk
<1>8. ASSUME NEW c \in Caller, Native!FetchFails(c) PROVE NativeParts'
  <2>1. Native!Ended(c) /\ Kept /\ UNCHANGED written
    BY <1>8 DEF Native!FetchFails, Native!buffer, Kept
  <2> QED BY <2>1, CallEnds, KeptIsKept
<1> QED BY <1>3, <1>5, <1>6, <1>7, <1>8, WritingKeeps DEF Native!Next

LEMMA UnmovedNative ==
  ASSUME NativeParts, UNCHANGED nativeVars
  PROVE  NativeParts'
<1>1. Kept /\ UNCHANGED <<written, nativeCall>>
  BY DEF nativeVars, Kept
<1>2. CallsAsk
  BY <1>1 DEF NativeParts, NativeTypes, CallsAsk
<1> QED BY <1>1, <1>2, KeptIsKept

-----------------------------------------------------------------------------
\* The inductive invariants of the console buffers and of the native logs.
THEOREM LogInvariant == WireSpec => [](LogInv /\ NativeInv)
<1>1. WireInit => LogInv /\ NativeInv
  BY LogsStart, NativeStart DEF WireInit, LogInv, NativeInv
<1>2. LogInv /\ [WireNext]_allVars => LogInv'
  <2> SUFFICES ASSUME LogInv, [WireNext]_allVars
               PROVE  LogInv'
    OBVIOUS
  <2>1. CASE part = "logs" /\ part' = part /\ Logs!Next
    BY <2>1, LogStep DEF LogInv
  <2>2. CASE part' = part /\ (part # "logs" \/ UNCHANGED logVars)
    BY <2>2, UnmovedLogs DEF LogInv
  <2> QED BY <2>1, <2>2 DEF WireNext, allVars
<1>3. NativeInv /\ [WireNext]_allVars => NativeInv'
  <2> SUFFICES ASSUME NativeInv, [WireNext]_allVars
               PROVE  NativeInv'
    OBVIOUS
  <2>1. CASE part = "native" /\ part' = part /\ Native!Next
    BY <2>1, NativeStep DEF NativeInv
  <2>2. CASE part' = part /\ (part # "native" \/ UNCHANGED nativeVars)
    BY <2>2, UnmovedNative DEF NativeInv
  <2> QED BY <2>1, <2>2 DEF WireNext, allVars
<1> QED BY <1>1, <1>2, <1>3, PTL DEF WireSpec

\* An id of the console names one entry; a read that says nothing was evicted has all since
\* the clear; no native event is answered twice; and no crash is passed by, whatever floors
\* the reads have and however they overlap, but in a read told to begin after it (logs.ts,
\* logEvents.ts).
THEOREM LogsAreTold == WireSpec => []LogsTell
<1>1. LogInv /\ NativeInv => LogsTell
  BY LogsAreToldTrue DEF LogInv, NativeInv, NativeParts, LogsTell
<1> QED BY <1>1, LogInvariant, PTL
=============================================================================
