---------------------------- MODULE Reads_proof ----------------------------
(* The tap tool, and the tools that look at the screen through the fiber   *)
(* tree.                                                                   *)
(*                                                                         *)
(* Tap: one call presses at most once and never denies a press (TouchInv); *)
(* a touch that arrives after the answer arrives after "timed out"         *)
(* (DriftInv).  Both hold for every set of queries.                        *)
(*                                                                         *)
(* The reads: one walk is answered once (WalkInv), the agent's own moves   *)
(* are excused (MoveInv), the trail of screens joins up (RouteInv), and    *)
(* the frames answered are those on screen (SlotInv, LayoutInv,            *)
(* InspectInv).                                                            *)
EXTENDS Tap, MCReads, FiniteSetTheorems, NaturalsInduction, WellFoundedInduction, TLAPS

-----------------------------------------------------------------------------
(* Tap: what the counters and the answer say of each other.                *)

\* Nothing was pressed before the call verifies its touch.
QuietBefore == ~swallowed /\ pc \notin {"verify", "done"} => acked = 0

\* What is verified was touched, but for the unchecked iOS strategies.
VerifiesTouch ==
    pc = "verify" => acked > 0 \/ (ask.platform = "ios" /\ cur \in Elements)

AnsweredOnce == pc # "done" => answer = "none"

\* The inductive invariant.
TouchInv == /\ acked \in Nat
            /\ OneTouch
            /\ FailureUntouched
            /\ SuccessTouched
            /\ QuietBefore
            /\ VerifiesTouch
            /\ AnsweredOnce

-----------------------------------------------------------------------------

LEMMA TouchInit == Init => TouchInv
  BY DEF Init, TouchInv, OneTouch, FailureUntouched, SuccessTouched,
         QuietBefore, VerifiesTouch, AnsweredOnce, Failures

\* The steps that neither press nor verify: they keep the counters, they
\* never enter the verification, and they answer only with failures.
Inert == /\ UNCHANGED <<ask, acked, swallowed>>
         /\ pc \notin {"verify", "done"}
         /\ pc' # "verify"
         /\ (pc' = "done" => answer' \in Failures)
         /\ (pc' # "done" => answer' = answer)

LEMMA InertKeeps == TouchInv /\ Inert => TouchInv'
  BY DEF Inert, TouchInv, OneTouch, FailureUntouched, SuccessTouched,
         QuietBefore, VerifiesTouch, AnsweredOnce, Failures

\* Every step before the touch is inert.
LEMMA InertSteps ==
  Resolve \/ Connect \/ Guard \/ SkipStrategy \/ BeginLookup
  \/ BeginCoordinate \/ BeginReplay \/ EndLookup \/ CutLookup \/ Replay
  \/ EndReplay \/ FiberTouchThrows \/ TouchTimesOut \/ Conclude
  => Inert
<1>1. Resolve => Inert
  BY DEF Resolve, Inert, Answer, Failures, device, looks
<1>2. Connect => Inert
  BY DEF Connect, Inert, Answer, Failures, device, looks
<1>3. Guard => Inert
  BY DEF Guard, Inert, Answer, MoveOn, Failures, device, looks
<1>4. SkipStrategy => Inert
  BY DEF SkipStrategy, Inert, device, looks
<1>5. BeginLookup => Inert
  BY DEF BeginLookup, Inert, device, looks
<1>6. BeginCoordinate => Inert
  BY DEF BeginCoordinate, Inert, device, looks
<1>7. BeginReplay => Inert
  BY DEF BeginReplay, Inert, device, looks
<1>8. EndLookup => Inert
  BY DEF EndLookup, Inert, Answer, MoveOn, Failures, device, looks
<1>9. CutLookup => Inert
  BY DEF CutLookup, Inert, MoveOn, device, looks
<1>10. Replay => Inert
  BY DEF Replay, Inert, device, looks
<1>11. EndReplay => Inert
  BY DEF EndReplay, Inert, device, looks
<1>12. FiberTouchThrows => Inert
  BY DEF FiberTouchThrows, Inert, MoveOn, device, looks
<1>13. TouchTimesOut => Inert
  BY DEF TouchTimesOut, Inert, Answer, MoveOn, Failures, device, looks
<1>14. Conclude => Inert
  BY DEF Conclude, Inert, Answer, Failures, device, looks
<1> QED BY <1>1, <1>2, <1>3, <1>4, <1>5, <1>6, <1>7, <1>8, <1>9, <1>10,
          <1>11, <1>12, <1>13, <1>14

\* The steps of the driver and of the verification.
LEMMA TouchSteps ==
  TouchInv /\ (TouchDelivered \/ TouchFails \/ LateTouch \/ Verify
               \/ VerifyThrows) => TouchInv'
<1> SUFFICES ASSUME TouchInv,
                    TouchDelivered \/ TouchFails \/ LateTouch \/ Verify
                    \/ VerifyThrows
             PROVE  TouchInv'
  OBVIOUS
<1> USE DEF TouchInv, OneTouch, FailureUntouched, SuccessTouched,
            QuietBefore, VerifiesTouch, AnsweredOnce, Failures
<1>1. CASE TouchDelivered
  BY <1>1 DEF TouchDelivered, looks
<1>2. CASE TouchFails
  <2>1. CASE Unchecked(cur)
    BY <1>2, <2>1 DEF TouchFails, Unchecked
  <2>2. CASE ~Unchecked(cur)
    <3>1. Inert
      BY <1>2, <2>2 DEF TouchFails, NotTouched, NextReplay, Inert, Answer, MoveOn
    <3> QED BY <3>1, InertKeeps
  <2> QED BY <2>1, <2>2
<1>3. CASE LateTouch
  BY <1>3 DEF LateTouch, looks
<1>4. CASE Verify
  BY <1>4 DEF Verify, Answer, device, looks
<1>5. CASE VerifyThrows
  BY <1>5 DEF VerifyThrows, Answer, MoveOn, looks
<1> QED BY <1>1, <1>2, <1>3, <1>4, <1>5

LEMMA TouchNext == TouchInv /\ [Next]_vars => TouchInv'
<1> SUFFICES ASSUME TouchInv, [Next]_vars PROVE TouchInv'
  OBVIOUS
<1>1. CASE UNCHANGED vars
  BY <1>1 DEF vars, TouchInv, OneTouch, FailureUntouched, SuccessTouched,
              QuietBefore, VerifiesTouch, AnsweredOnce
<1>2. CASE Next
  BY <1>2, InertSteps, InertKeeps, TouchSteps DEF Next
<1> QED BY <1>1, <1>2

\* A call of the tap tool presses at most once, whatever the strategies, the
\* drivers and the timers do.
THEOREM TapOneTouch == Spec => []OneTouch
<1>1. Spec => []TouchInv
  BY TouchInit, TouchNext, PTL DEF Spec
<1>2. TouchInv => OneTouch
  BY DEF TouchInv
<1> QED BY <1>1, <1>2, PTL

\* No answer that denies a press follows an acknowledged one.
THEOREM TapFailureUntouched == Spec => []FailureUntouched
<1>1. Spec => []TouchInv
  BY TouchInit, TouchNext, PTL DEF Spec
<1>2. TouchInv => FailureUntouched
  BY DEF TouchInv
<1> QED BY <1>1, <1>2, PTL

\* Success is backed by an acknowledged touch, but for the iOS strategies that
\* drop the driver's result.
THEOREM TapSuccessTouched == Spec => []SuccessTouched
<1>1. Spec => []TouchInv
  BY TouchInit, TouchNext, PTL DEF Spec
<1>2. TouchInv => SuccessTouched
  BY DEF TouchInv
<1> QED BY <1>1, <1>2, PTL

\* What the caller is told agrees with what the device got, both ways.
THEOREM TapAnswerTrue == Spec => []AnswerTrue
<1>1. Spec => [](FailureUntouched /\ SuccessTouched)
  BY TapFailureUntouched, TapSuccessTouched, PTL
<1>2. FailureUntouched /\ SuccessTouched => AnswerTrue
  BY DEF AnswerTrue
<1> QED BY <1>1, <1>2, PTL

-----------------------------------------------------------------------------
(* Which strategies a call can have left.                                  *)

\* The filtered prefixes of a list, as far as position n.
Keeps(f, n, list, S, T) ==
    /\ f \in [0..n -> Seq(T \intersect S)]
    /\ \A i \in 0..n :
          /\ Len(f[i]) <= i
          /\ f[i] = IF i = 0 THEN <<>>
                    ELSE IF list[i] \in S THEN Append(f[i - 1], list[i]) ELSE f[i - 1]

LEMMA LeastNumber ==
  ASSUME NEW B, B \subseteq Nat, B # {}
  PROVE  \E n \in B : \A m \in B : n <= m
<1>1. PICK n \in B : \A m \in B : <<m, n>> \notin OpToRel(<, Nat)
  BY NatLessThanWellFounded, WFMin
<1>2. \A m \in B : ~(m < n)
  BY <1>1 DEF OpToRel
<1> QED BY <1>2

LEMMA KeepsExists ==
  ASSUME NEW T, NEW list \in Seq(T), NEW S
  PROVE  \A n \in 0..Len(list) : \E f : Keeps(f, n, list, S, T)
<1> DEFINE B == {n \in 0..Len(list) : ~\E f : Keeps(f, n, list, S, T)}
<1>1. SUFFICES ASSUME B # {} PROVE FALSE
  OBVIOUS
<1>2. B \subseteq Nat
  OBVIOUS
<1>3. PICK n \in B : \A m \in B : n <= m
  <2> HIDE DEF B
  <2> QED BY <1>1, <1>2, LeastNumber
<1>4. CASE n = 0
  <2> DEFINE f == [i \in 0..0 |-> <<>>]
  <2>1. Keeps(f, 0, list, S, T)
    BY DEF Keeps
  <2> QED BY <1>3, <1>4, <2>1
<1>5. CASE n # 0
  <2>1. n \in Nat /\ n \in 1..Len(list) /\ n - 1 \in 0..Len(list) /\ n - 1 \notin B
    BY <1>3, <1>5
  <2>2. PICK g : Keeps(g, n - 1, list, S, T)
    BY <2>1
  <2> DEFINE step == IF list[n] \in S THEN Append(g[n - 1], list[n]) ELSE g[n - 1]
             f == [i \in 0..n |-> IF i < n THEN g[i] ELSE step]
  <2>a. n - 1 \in 0..n - 1 /\ list[n] \in T
    BY <2>1
  <2>3. g[n - 1] \in Seq(T \intersect S) /\ Len(g[n - 1]) <= n - 1
    BY <2>a, <2>2 DEF Keeps
  <2>4. step \in Seq(T \intersect S) /\ Len(step) <= n
    BY <2>1, <2>3
  <2>5. Keeps(f, n, list, S, T)
    <3> HIDE DEF step
    <3>1. f \in [0..n -> Seq(T \intersect S)]
      BY <2>1, <2>2, <2>4 DEF Keeps
    <3>2. ASSUME NEW i \in 0..n
          PROVE  /\ Len(f[i]) <= i
                 /\ f[i] = IF i = 0 THEN <<>> ELSE IF list[i] \in S
                           THEN Append(f[i - 1], list[i]) ELSE f[i - 1]
      <4>1. CASE i < n
        <5>1. i \in 0..n - 1 /\ f[i] = g[i] /\ (i # 0 => f[i - 1] = g[i - 1])
          BY <4>1, <2>1
        <5> HIDE DEF f
        <5> QED BY <5>1, <2>2 DEF Keeps
      <4>2. CASE i = n
        <5>1. f[i] = step /\ f[i - 1] = g[i - 1] /\ i # 0
          BY <4>2, <2>1
        <5> QED BY <4>2, <5>1, <2>4 DEF step
      <4> QED BY <4>1, <4>2, <2>1
    <3> QED BY <3>1, <3>2 DEF Keeps
  <2> QED BY <2>5, <1>3
<1> QED BY <1>4, <1>5

\* Filtering goes from prefix to prefix.
LEMMA AmongIs ==
  ASSUME NEW T, NEW list \in Seq(T), NEW S
  PROVE  \E f : Keeps(f, Len(list), list, S, T) /\ Among(list, S) = f[Len(list)]
<1> DEFINE F(g) == [n \in 0..Len(list) |-> IF n = 0 THEN <<>>
            ELSE IF list[n] \in S THEN Append(g[n - 1], list[n]) ELSE g[n - 1]]
          c == CHOOSE g : g = F(g)
<1>0. Len(list) \in 0..Len(list)
  OBVIOUS
<1>1. PICK f : Keeps(f, Len(list), list, S, T)
  BY <1>0, KeepsExists
<1>2. f = F(f)
  BY <1>1 DEF Keeps
<1>3. c = F(c)
  BY <1>2
<1>4. Among(list, S) = c[Len(list)]
  BY DEF Among
<1>5. \A n \in 0..Len(list) : c[n] = f[n]
  <2> DEFINE B == {n \in 0..Len(list) : c[n] # f[n]}
  <2>1. SUFFICES ASSUME B # {} PROVE FALSE
    OBVIOUS
  <2>2. B \subseteq Nat
    OBVIOUS
  <2>3. PICK n \in B : \A m \in B : n <= m
    <3> HIDE DEF B
    <3> QED BY <2>1, <2>2, LeastNumber
  <2>4. ASSUME NEW g, g = F(g)
        PROVE  g[n] = IF n = 0 THEN <<>>
                      ELSE IF list[n] \in S THEN Append(g[n - 1], list[n]) ELSE g[n - 1]
    <3>1. F(g)[n] = IF n = 0 THEN <<>>
                    ELSE IF list[n] \in S THEN Append(g[n - 1], list[n]) ELSE g[n - 1]
      BY <2>3
    <3> HIDE DEF F
    <3> QED BY <2>4, <3>1
  <2> HIDE DEF c, F
  <2>5. n \in 0..Len(list) /\ (n # 0 => n - 1 \in 0..Len(list))
    BY <2>3
  <2>6. n # 0 => n - 1 \notin B
    BY <2>3, <2>5
  <2>7. n # 0 => c[n - 1] = f[n - 1]
    BY <2>5, <2>6
  <2>8. c[n] = f[n]
    BY <2>4, <2>7, <1>2, <1>3
  <2> QED BY <2>3, <2>8
<1>6. Among(list, S) = f[Len(list)]
  BY <1>0, <1>4, <1>5
<1> QED BY <1>1, <1>6

\* A filtered list holds members of the list that are in the set, and no more of
\* them.
LEMMA AmongKeeps ==
  ASSUME NEW T, NEW list \in Seq(T), NEW S
  PROVE  Among(list, S) \in Seq(T \intersect S) /\ Len(Among(list, S)) <= Len(list)
<1>1. PICK f : Keeps(f, Len(list), list, S, T) /\ Among(list, S) = f[Len(list)]
  BY AmongIs
<1>2. Len(list) \in 0..Len(list)
  OBVIOUS
<1> QED BY <1>1, <1>2 DEF Keeps

LEMMA ShortLists ==
  ASSUME NEW T
  PROVE  \A a, b, c \in T : /\ <<a>> \in Seq(T) /\ <<a, b>> \in Seq(T)
                            /\ <<a, b, c>> \in Seq(T)
  OBVIOUS

LEMMA StrategiesOf ==
  ASSUME NEW q \in Queries, q.kind \notin {"nothing", "native"}
  PROVE  IF q.kind = "coordinate" THEN Strategies(q) = <<"coordinate">>
                                  ELSE Strategies(q) \in Seq(Lookups)
<1>1. CASE q.kind = "coordinate"
  BY <1>1 DEF Strategies
<1>2. CASE q.kind # "coordinate" /\ q.strategy # "auto"
  <2>1. q.strategy \in Lookups /\ "ocr" \in Lookups
    BY <1>2 DEF Queries, Lookups, Elements
  <2>2. Strategies(q) \in {<<q.strategy, "ocr">>, <<q.strategy>>}
    BY <1>2 DEF Strategies
  <2>3. Strategies(q) \in Seq(Lookups)
    BY <2>1, <2>2, ShortLists
  <2> QED BY <1>2, <2>3
<1>3. CASE q.kind # "coordinate" /\ q.strategy = "auto"
  <2>1. {"fiber", "accessibility", "ocr"} \subseteq Lookups
    BY DEF Lookups, Elements
  <2>2. Strategies(q) \in {<<"fiber">>, <<"accessibility", "fiber">>,
                           <<"accessibility", "fiber", "ocr">>, <<"accessibility", "ocr">>}
    BY <1>3 DEF Strategies, Queries
  <2>3. Strategies(q) \in Seq(Lookups)
    BY <2>1, <2>2, ShortLists
  <2> QED BY <1>3, <2>3
<1> QED BY <1>1, <1>2, <1>3

-----------------------------------------------------------------------------
(* The touch that comes after the answer.                                  *)

\* The types, and which strategies can be under way.
TypeInv == /\ TypeOK
           /\ pc = "connect" => ask.kind \notin {"nothing", "native"}
           /\ pc \in {"lookup", "replay"} => cur \in Lookups
           /\ pc \in {"touch", "verify"} => cur \in Touching

\* A coordinate is tried by one strategy and nothing follows it.
Coordinates ==
    /\ ask.kind = "coordinate" => todo \in Seq({"coordinate"}) /\ Len(todo) <= 1
    /\ ask.kind # "coordinate" => todo \in Seq(Lookups) /\ cur # "coordinate"
    /\ pc \in {"start", "connect", "guard"} => cur \in {"none", "native"}
    /\ pc = "touch" /\ cur = "coordinate" => todo = <<>>

\* A touch command is left running by a call that has nothing left to try and
\* will say so, or has said so.
Adrift ==
    adrift => \/ pc = "done" /\ answer = "timedOut"
              \/ /\ pc = "loop" /\ todo = <<>>
                 /\ \E i \in DOMAIN attempted : attempted[i].outcome = "timeout"

DriftInv == TypeInv /\ Coordinates /\ Adrift

LEMMA StrategiesTyped ==
  ASSUME NEW q \in Queries, q.kind \notin {"nothing", "native"}
  PROVE  Strategies(q) \in Seq(Touching)
<1>1. Lookups \subseteq Touching /\ "coordinate" \in Touching
  BY DEF Touching
<1>2. Seq(Lookups) \subseteq Seq(Touching) /\ <<"coordinate">> \in Seq(Touching)
  BY <1>1
<1> QED BY <1>2, StrategiesOf

LEMMA AmongMembers ==
  ASSUME NEW T, NEW list \in Seq(T), NEW S
  PROVE  Among(list, S) \in Seq(T) /\ Len(Among(list, S)) <= Len(list)
<1>1. Seq(T \intersect S) \subseteq Seq(T)
  OBVIOUS
<1> QED BY <1>1, AmongKeeps

LEMMA TailTyped ==
  ASSUME NEW T, NEW s \in Seq(T), s # <<>>
  PROVE  Tail(s) \in Seq(T) /\ Head(s) \in T /\ Len(Tail(s)) = Len(s) - 1
  OBVIOUS

LEMMA TypeInit == Init => TypeInv
<1> SUFFICES ASSUME Init PROVE TypeInv
  OBVIOUS
<1>1. todo \in Seq(Touching) /\ again \in Seq(Elements) /\ attempted \in Seq(Attempts)
  BY DEF Init
<1> QED BY <1>1 DEF Init, TypeInv, TypeOK

LEMMA ReportTypes ==
  ASSUME attempted \in Seq(Attempts), NEW s \in Touching \union {"settle", "guard"},
         NEW o \in Outcomes, Report(Attempt(s, o))
  PROVE  attempted' \in Seq(Attempts)
<1>1. Attempt(s, o) \in Attempts
  BY DEF Attempt, Attempts
<1> QED BY <1>1 DEF Report

LEMMA TypeNext == TypeInv /\ [Next]_vars => TypeInv'
<1> SUFFICES ASSUME TypeInv, [Next]_vars PROVE TypeInv'
  OBVIOUS
<1> USE DEF TypeInv, TypeOK, Touching, Lookups, Elements, Failures, Outcomes,
            device, looks
<1>1. CASE Resolve
  BY <1>1 DEF Resolve, Answer, TimePasses
<1>2. CASE Connect
  <2>1. PICK m, driver \in BOOLEAN :
          LET kept == Among(Strategies(ask), Usable(m, driver))
              dropped == Among(Strategies(ask), Touching \ Usable(m, driver))
          IN /\ metro' = m
             /\ attempted' = [i \in DOMAIN dropped |-> Attempt(dropped[i], "skipped")]
             /\ todo' = kept
             /\ IF kept = <<>> THEN Answer("unavailable")
                               ELSE pc' = "guard" /\ UNCHANGED answer
    BY <1>2 DEF Connect
  <2>2. Strategies(ask) \in Seq(Touching)
    BY <1>2, StrategiesTyped, AsksAssumption DEF Connect
  <2> DEFINE dropped == Among(Strategies(ask), Touching \ Usable(m, driver))
  <2>3. todo' \in Seq(Touching) /\ dropped \in Seq(Touching)
    BY <2>1, <2>2, AmongMembers
  <2>4. attempted' \in Seq(Attempts)
    <3>1. attempted' = [i \in DOMAIN dropped |-> Attempt(dropped[i], "skipped")]
      BY <2>1
    <3> HIDE DEF dropped
    <3>2. \A i \in 1..Len(dropped) : Attempt(dropped[i], "skipped") \in Attempts
      BY <2>3 DEF Attempts, Attempt
    <3>3. DOMAIN dropped = 1..Len(dropped) /\ Len(dropped) \in Nat
      BY <2>3
    <3> HIDE DEF Attempts, Outcomes
    <3> QED BY <3>1, <3>2, <3>3
  <2> QED BY <1>2, <2>1, <2>3, <2>4 DEF Connect, Answer, TimePasses
<1>3. CASE Guard
  BY <1>3, ReportTypes DEF Guard, Answer, MoveOn, TimePasses
<1>4. CASE SkipStrategy
  BY <1>4, ReportTypes DEF SkipStrategy
<1>5. CASE BeginLookup
  BY <1>5 DEF BeginLookup
<1>6. CASE BeginCoordinate
  BY <1>6 DEF BeginCoordinate
<1>7. CASE BeginReplay
  <2>1. again' \in Seq(Elements) /\ todo' \in Seq(Touching)
    BY <1>7 DEF BeginReplay
  <2> QED BY <1>7, <2>1, ReportTypes DEF BeginReplay, TimePasses
<1>8. CASE EndLookup
  BY <1>8, ReportTypes DEF EndLookup, Answer, MoveOn, TimePasses
<1>9. CASE CutLookup
  BY <1>9, ReportTypes DEF CutLookup, MoveOn, TimePasses
<1>10. CASE Replay
  <2>1. again # <<>> /\ (again' = again \/ again' = Tail(again))
    BY <1>10 DEF Replay
  <2>2. again' \in Seq(Elements)
    <3>1. again \in Seq(Elements)
      OBVIOUS
    <3> HIDE DEF Elements, TypeInv, TypeOK
    <3> QED BY <2>1, <3>1, TailTyped
  <2>3. \A r : Leaves(Head(again), r) \subseteq Elements
    BY <2>1 DEF Leaves
  <2>4. seen' \subseteq Elements
    BY <1>10, <2>3 DEF Replay
  <2> QED BY <1>10, <2>2, <2>4 DEF Replay, TimePasses
<1>11. CASE EndReplay
  BY <1>11 DEF EndReplay
<1>12. CASE TouchDelivered
  <2>1. landed' \in Nat /\ acked' \in Nat
    BY <1>12 DEF TouchDelivered
  <2> QED BY <1>12, <2>1 DEF TouchDelivered, TimePasses
<1>13. CASE TouchFails
  <2>1. landed' \in Nat
    BY <1>13 DEF TouchFails
  <2>2. CASE Unchecked(cur)
    BY <1>13, <2>1, <2>2 DEF TouchFails, TimePasses
  <2>3. CASE NotTouched
    <3>1. again' \in Seq(Elements)
      <4>1. again' = again \/ (again # <<>> /\ again' = Tail(again))
        BY <2>3 DEF NotTouched, NextReplay
      <4>2. again \in Seq(Elements)
        OBVIOUS
      <4> QED BY <4>1, <4>2, TailTyped
    <3>2. attempted' \in Seq(Attempts)
      BY <1>13, <2>3, ReportTypes DEF TouchFails, NotTouched
    <3> QED BY <1>13, <2>1, <2>3, <3>1, <3>2
            DEF TouchFails, NotTouched, NextReplay, Answer, MoveOn, TimePasses
  <2> QED BY <1>13, <2>2, <2>3 DEF TouchFails
<1>14. CASE FiberTouchThrows
  BY <1>14 DEF FiberTouchThrows, MoveOn, TimePasses
<1>15. CASE TouchTimesOut
  BY <1>15, ReportTypes DEF TouchTimesOut, Answer, MoveOn, TimePasses
<1>16. CASE LateTouch
  <2>1. landed' \in Nat
    BY <1>16 DEF LateTouch
  <2> QED BY <1>16, <2>1 DEF LateTouch
<1>17. CASE Verify
  BY <1>17 DEF Verify, Answer, TimePasses
<1>18. CASE VerifyThrows
  BY <1>18 DEF VerifyThrows, Answer, MoveOn, TimePasses
<1>19. CASE Conclude
  BY <1>19 DEF Conclude, Answer
<1>20. CASE UNCHANGED vars
  BY <1>20 DEF vars
<1> QED BY <1>1, <1>2, <1>3, <1>4, <1>5, <1>6, <1>7, <1>8, <1>9,
          <1>10, <1>11, <1>12, <1>13, <1>14, <1>15, <1>16, <1>17, <1>18,
          <1>19, <1>20 DEF Next

LEMMA DriftInit == Init => DriftInv
<1> SUFFICES ASSUME Init PROVE DriftInv
  OBVIOUS
<1>1. todo \in Seq({"coordinate"}) /\ todo \in Seq(Lookups) /\ Len(todo) <= 1
  BY DEF Init
<1> QED BY <1>1, TypeInit DEF Init, DriftInv, Coordinates, Adrift

LEMMA CoordinatesNext == TypeInv /\ Coordinates /\ [Next]_vars => Coordinates'
<1> SUFFICES ASSUME TypeInv, Coordinates, [Next]_vars PROVE Coordinates'
  OBVIOUS
<1> USE DEF Coordinates, device, looks
<1>1. CASE Resolve
  BY <1>1 DEF Resolve, Answer
<1>2. CASE Connect
  <2>1. ask \in Queries /\ ask.kind \notin {"nothing", "native"}
    BY <1>2, AsksAssumption DEF Connect, TypeInv, TypeOK
  <2>2. PICK m, driver \in BOOLEAN : todo' = Among(Strategies(ask), Usable(m, driver))
    BY <1>2 DEF Connect
  <2>3. CASE ask.kind = "coordinate"
    <3>1. Strategies(ask) = <<"coordinate">> /\ <<"coordinate">> \in Seq({"coordinate"})
          /\ Len(<<"coordinate">>) = 1
      BY <2>1, <2>3, StrategiesOf
    <3>2. todo' \in Seq({"coordinate"}) /\ Len(todo') <= 1
      BY <2>2, <3>1, AmongMembers
    <3> QED BY <1>2, <2>3, <3>2 DEF Connect, Answer
  <2>4. CASE ask.kind # "coordinate"
    <3>1. todo' \in Seq(Lookups)
      BY <2>1, <2>2, <2>4, StrategiesOf, AmongMembers
    <3> QED BY <1>2, <2>4, <3>1 DEF Connect, Answer
  <2> QED BY <2>3, <2>4
<1>3. CASE Guard
  BY <1>3 DEF Guard, Answer, MoveOn
<1>4. CASE SkipStrategy
  BY <1>4 DEF SkipStrategy
<1>5. CASE BeginLookup
  <2>1. Head(todo) # "coordinate"
    BY <1>5 DEF BeginLookup, Lookups, Elements
  <2> QED BY <1>5, <2>1, TailTyped DEF BeginLookup
<1>6. CASE BeginCoordinate
  <2>1. ask.kind = "coordinate"
    <3> SUFFICES ASSUME ask.kind # "coordinate" PROVE FALSE
      OBVIOUS
    <3> QED BY <1>6, TailTyped DEF BeginCoordinate, Lookups, Elements
  <2>2. todo' \in Seq({"coordinate"}) /\ todo' = <<>>
    BY <1>6, <2>1 DEF BeginCoordinate
  <2> QED BY <1>6, <2>1, <2>2 DEF BeginCoordinate
<1>7. CASE BeginReplay
  BY <1>7 DEF BeginReplay
<1>8. CASE EndLookup
  <2>1. cur # "coordinate"
    BY <1>8 DEF EndLookup, TypeInv, Lookups, Elements
  <2> QED BY <1>8, <2>1 DEF EndLookup, Answer, MoveOn
<1>9. CASE CutLookup
  BY <1>9 DEF CutLookup, MoveOn
<1>10. CASE Replay
  BY <1>10 DEF Replay
<1>11. CASE EndReplay
  BY <1>11 DEF EndReplay
<1>12. CASE TouchDelivered
  BY <1>12 DEF TouchDelivered
<1>13. CASE TouchFails
  BY <1>13 DEF TouchFails, NotTouched, NextReplay, Answer, MoveOn
<1>14. CASE FiberTouchThrows
  BY <1>14 DEF FiberTouchThrows, MoveOn
<1>15. CASE TouchTimesOut
  BY <1>15 DEF TouchTimesOut, Answer, MoveOn
<1>16. CASE LateTouch
  BY <1>16 DEF LateTouch
<1>17. CASE Verify
  BY <1>17 DEF Verify, Answer
<1>18. CASE VerifyThrows
  BY <1>18 DEF VerifyThrows, Answer, MoveOn
<1>19. CASE Conclude
  BY <1>19 DEF Conclude, Answer
<1>20. CASE UNCHANGED vars
  BY <1>20 DEF vars
<1> QED BY <1>1, <1>2, <1>3, <1>4, <1>5, <1>6, <1>7, <1>8, <1>9,
          <1>10, <1>11, <1>12, <1>13, <1>14, <1>15, <1>16, <1>17, <1>18,
          <1>19, <1>20 DEF Next

LEMMA AdriftNext == DriftInv /\ [Next]_vars => Adrift'
<1> SUFFICES ASSUME DriftInv, [Next]_vars PROVE Adrift'
  OBVIOUS
<1> USE DEF DriftInv, Adrift, device, looks
<1>1. CASE Resolve
  BY <1>1 DEF Resolve, Answer
<1>2. CASE Connect
  BY <1>2 DEF Connect, Answer
<1>3. CASE Guard
  BY <1>3 DEF Guard, Answer, MoveOn
<1>4. CASE SkipStrategy
  BY <1>4 DEF SkipStrategy, Report
<1>5. CASE BeginLookup
  BY <1>5 DEF BeginLookup
<1>6. CASE BeginCoordinate
  BY <1>6 DEF BeginCoordinate
<1>7. CASE BeginReplay
  BY <1>7 DEF BeginReplay, Report
<1>8. CASE EndLookup
  BY <1>8 DEF EndLookup, Answer, MoveOn, Report
<1>9. CASE CutLookup
  BY <1>9 DEF CutLookup, MoveOn, Report
<1>10. CASE Replay
  BY <1>10 DEF Replay
<1>11. CASE EndReplay
  BY <1>11 DEF EndReplay
<1>12. CASE TouchDelivered
  BY <1>12 DEF TouchDelivered
<1>13. CASE TouchFails
  BY <1>13 DEF TouchFails, NotTouched, NextReplay, Answer, MoveOn, Report
<1>14. CASE FiberTouchThrows
  BY <1>14 DEF FiberTouchThrows, MoveOn
<1>15. CASE TouchTimesOut
  <2>1. CASE cur = "native"
    BY <1>15, <2>1 DEF TouchTimesOut, Answer
  <2>2. CASE cur = "coordinate"
    <3>1. pc' = "loop" /\ todo' = <<>>
      BY <1>15, <2>2 DEF TouchTimesOut, MoveOn, Coordinates
    <3>2. attempted \in Seq(Attempts) /\ attempted' = Append(attempted, Attempt(cur, "timeout"))
      BY <1>15 DEF TouchTimesOut, Report, TypeInv, TypeOK
    <3>3. Len(attempted) + 1 \in DOMAIN attempted'
          /\ attempted'[Len(attempted) + 1].outcome = "timeout"
      BY <3>2 DEF Attempt
    <3> QED BY <3>1, <3>3
  <2> QED BY <1>15, <2>1, <2>2 DEF TouchTimesOut, Raced
<1>16. CASE LateTouch
  BY <1>16 DEF LateTouch
<1>17. CASE Verify
  BY <1>17 DEF Verify, Answer
<1>18. CASE VerifyThrows
  BY <1>18 DEF VerifyThrows, Answer, MoveOn
<1>19. CASE Conclude
  <2>1. ASSUME adrift PROVE \E a \in ToSet(attempted) : a.outcome = "timeout"
    BY <1>19, <2>1 DEF Conclude, ToSet
  <2> QED BY <1>19, <2>1 DEF Conclude, Answer
<1>20. CASE UNCHANGED vars
  BY <1>20 DEF vars
<1> QED BY <1>1, <1>2, <1>3, <1>4, <1>5, <1>6, <1>7, <1>8, <1>9,
          <1>10, <1>11, <1>12, <1>13, <1>14, <1>15, <1>16, <1>17, <1>18,
          <1>19, <1>20 DEF Next

\* The answer that a late touch can follow is the one that says so.
LEMMA LateStep ==
  DriftInv /\ [Next]_vars
    => (pc = "done" /\ landed' # landed => answer = "timedOut")
<1> SUFFICES ASSUME DriftInv, Next, pc = "done", landed' # landed
             PROVE  answer = "timedOut"
  BY DEF vars
<1>1. LateTouch
  BY DEF Next, Resolve, Connect, Guard, SkipStrategy, BeginLookup,
         BeginCoordinate, BeginReplay, EndLookup, CutLookup, Replay, EndReplay,
         TouchDelivered, TouchFails, FiberTouchThrows, TouchTimesOut, Verify,
         VerifyThrows, Conclude
<1> QED BY <1>1 DEF LateTouch, DriftInv, Adrift

\* Every variable keeps its type.
THEOREM TapTypes == Spec => []TypeOK
<1>1. TypeInv => TypeOK
  BY DEF TypeInv
<1> QED BY TypeInit, TypeNext, <1>1, PTL DEF Spec

\* A touch that reaches the device after the answer was given follows the
\* answer "timed out" only, for every set of queries.
THEOREM TapLateTouch == Spec => LateOnlyAfterTimeout
<1>1. DriftInv /\ [Next]_vars => DriftInv'
  BY TypeNext, CoordinatesNext, AdriftNext DEF DriftInv
<1>2. Spec => []DriftInv
  BY DriftInit, <1>1, PTL DEF Spec
<1>3. DriftInv /\ [Next]_vars
        => [pc = "done" /\ landed' # landed => answer = "timedOut"]_vars
  BY LateStep
<1> QED BY <1>2, <1>3, PTL DEF Spec, LateOnlyAfterTimeout

-----------------------------------------------------------------------------
(* get_screen_state: who took what a call left in the app.                 *)

\* The globals, where there are any, are a walk's.
GlobalsKnown ==
    \/ globals = State!Nothing
    \/ globals = [by |-> globals.by, scene |-> globals.scene, frames |-> globals.frames]

\* They are of a call that has walked, and no call has answered from them.
GlobalsUntaken ==
    globals # State!Nothing =>
        /\ globals.by \in Readers /\ reader[globals.by] \notin {"absent", "idle"}
        /\ \A o \in Readers : reader[o] = "done" => taken[o].by # globals.by

\* A call without globals to find was overtaken by one that is over.
Overtaken(r) == \E o \in Readers \ {r} : reader[o] \in {"done", "error"}
OvertakenOnly ==
    globals = State!Nothing => \A r \in Readers : reader[r] = "waiting" => Overtaken(r)

\* What was answered is of a call that has walked.
AnsweredWalks ==
    \A o \in Readers : reader[o] = "done" =>
        taken[o].by \in Readers /\ reader[taken[o].by] \notin {"absent", "idle"}

WalkInv ==
    /\ DOMAIN reader = Readers /\ DOMAIN taken = Readers
    /\ GlobalsKnown /\ GlobalsUntaken /\ OvertakenOnly /\ AnsweredWalks
    /\ State!TakenOnce

LEMMA WalkStart == StateOff \/ State!Init => WalkInv
<1>1. CASE StateOff
  BY <1>1 DEF StateOff, WalkInv, GlobalsKnown, GlobalsUntaken, OvertakenOnly, Overtaken, AnsweredWalks, State!TakenOnce
<1>2. CASE State!Init
  <2>1. PICK first \in Readers :
           reader = [r \in Readers |-> IF r = first \/ scene \in Watched THEN "idle" ELSE "absent"]
    BY <1>2 DEF State!Init
  <2>2. \A r \in Readers : reader[r] \in {"idle", "absent"}
    BY <2>1
  <2>3. globals = State!Nothing /\ taken = [r \in Readers |-> State!Nothing]
    BY <1>2 DEF State!Init
  <2> QED BY <2>1, <2>2, <2>3 DEF WalkInv, GlobalsKnown, GlobalsUntaken, OvertakenOnly, Overtaken, AnsweredWalks, State!TakenOnce
<1> QED BY <1>1, <1>2

LEMMA WalkDispatch ==
  ASSUME WalkInv, NEW r \in Readers, State!Dispatch(r)
  PROVE  WalkInv'
<1>1. reader[r] = "idle" /\ taken' = taken
  BY DEF State!Dispatch
<1>2. CASE scene.nodes = <<>>
  <2>1. reader' = [reader EXCEPT ![r] = "error"] /\ globals' = globals
    BY <1>2 DEF State!Dispatch
  <2> QED BY <1>1, <2>1 DEF WalkInv, GlobalsKnown, GlobalsUntaken, OvertakenOnly, Overtaken, AnsweredWalks, State!TakenOnce
<1>3. CASE scene.nodes # <<>>
  <2>1. PICK f : globals' = [by |-> r, scene |-> scene, frames |-> f]
    BY <1>3 DEF State!Dispatch
  <2>2. reader' = [reader EXCEPT ![r] = "waiting"]
    BY <1>3 DEF State!Dispatch
  <2>3. globals' # State!Nothing
    <3>1. "frames" \in DOMAIN globals' /\ "frames" \notin DOMAIN State!Nothing
      BY <2>1 DEF State!Nothing
    <3> QED BY <3>1
  <2>4. \A q \in Readers : reader[q] = "done" => taken[q].by # r
    BY <1>1 DEF WalkInv, GlobalsKnown, GlobalsUntaken, OvertakenOnly, Overtaken, AnsweredWalks
  <2>5. /\ globals'.by = r
        /\ globals' = [by |-> globals'.by, scene |-> globals'.scene, frames |-> globals'.frames]
    BY <2>1
  <2> QED BY <1>1, <2>2, <2>3, <2>4, <2>5 DEF WalkInv, GlobalsKnown, GlobalsUntaken, OvertakenOnly, Overtaken, AnsweredWalks, State!TakenOnce
<1> QED BY <1>2, <1>3

LEMMA WalkMeasure ==
  ASSUME WalkInv, NEW m, State!Measure(m)
  PROVE  WalkInv'
<1>1. globals # State!Nothing /\ reader' = reader /\ taken' = taken
  BY DEF State!Measure
<1>2. globals = [by |-> globals.by, scene |-> globals.scene, frames |-> globals.frames]
  BY <1>1 DEF WalkInv, GlobalsKnown, GlobalsUntaken, OvertakenOnly, Overtaken, AnsweredWalks
<1>3. \/ globals' = globals
      \/ globals' = [globals EXCEPT !.frames[m.slot] = m.frame]
  BY DEF State!Measure
<1>4. /\ globals'.by = globals.by
      /\ globals' = [by |-> globals'.by, scene |-> globals'.scene, frames |-> globals'.frames]
  BY <1>2, <1>3
<1>5. globals' # State!Nothing
  <2>1. "frames" \in DOMAIN globals' /\ "frames" \notin DOMAIN State!Nothing
    BY <1>4 DEF State!Nothing
  <2> QED BY <2>1
<1> QED BY <1>1, <1>4, <1>5 DEF WalkInv, GlobalsKnown, GlobalsUntaken, OvertakenOnly, Overtaken, AnsweredWalks, State!TakenOnce

LEMMA WalkResolve ==
  ASSUME WalkInv, NEW r \in Readers, State!Resolve(r)
  PROVE  WalkInv'
<1>1. /\ reader[r] = "waiting" /\ globals' = State!Nothing
      /\ taken' = [taken EXCEPT ![r] = globals]
      /\ reader' = [reader EXCEPT ![r] = IF globals = State!Nothing THEN "empty" ELSE "done"]
  BY DEF State!Resolve, State!Cleared
<1>2. CASE globals = State!Nothing
  <2>1. PICK q \in Readers \ {r} : reader[q] \in {"done", "error"}
    BY <1>1, <1>2 DEF WalkInv, GlobalsKnown, GlobalsUntaken, OvertakenOnly, Overtaken, AnsweredWalks
  <2>2. reader' = [reader EXCEPT ![r] = "empty"]
    BY <1>1, <1>2
  <2>3. \A p \in Readers : reader'[p] = "done" => p # r /\ reader[p] = "done" /\ taken'[p] = taken[p]
    BY <1>1, <2>2 DEF WalkInv, GlobalsKnown, GlobalsUntaken, OvertakenOnly, Overtaken, AnsweredWalks
  <2>4. \A p \in Readers : reader'[p] = "waiting" => \E o \in Readers \ {p} : reader'[o] \in {"done", "error"}
    BY <1>1, <2>1, <2>2 DEF WalkInv, GlobalsKnown, GlobalsUntaken, OvertakenOnly, Overtaken, AnsweredWalks
  <2>5. \A p \in Readers : reader'[p] = "empty" => \E o \in Readers \ {p} : reader'[o] \in {"done", "error"}
    BY <1>1, <2>1, <2>2 DEF WalkInv, GlobalsKnown, GlobalsUntaken, OvertakenOnly, Overtaken, AnsweredWalks, State!TakenOnce
  <2>6. \A p \in Readers : reader'[p] = "done" =>
           taken'[p].by \in Readers /\ reader'[taken'[p].by] \notin {"absent", "idle"}
    BY <1>1, <2>2, <2>3 DEF WalkInv, GlobalsKnown, GlobalsUntaken, OvertakenOnly, Overtaken, AnsweredWalks
  <2>7. \A p, o \in Readers : reader'[p] = "done" /\ reader'[o] = "done" /\ p # o => taken'[p].by # taken'[o].by
    BY <2>3 DEF WalkInv, GlobalsKnown, GlobalsUntaken, OvertakenOnly, Overtaken, AnsweredWalks, State!TakenOnce
  <2> QED BY <1>1, <2>2, <2>4, <2>5, <2>6, <2>7 DEF WalkInv, GlobalsKnown, GlobalsUntaken, OvertakenOnly, Overtaken, AnsweredWalks, State!TakenOnce
<1>3. CASE globals # State!Nothing
  <2>1. reader' = [reader EXCEPT ![r] = "done"]
    BY <1>1, <1>3
  <2>2. /\ globals.by \in Readers /\ reader[globals.by] \notin {"absent", "idle"}
        /\ \A q \in Readers : reader[q] = "done" => taken[q].by # globals.by
    BY <1>3 DEF WalkInv, GlobalsKnown, GlobalsUntaken, OvertakenOnly, Overtaken, AnsweredWalks
  <2>3. \A p \in Readers : reader'[p] = "done" =>
           IF p = r THEN taken'[p] = globals ELSE reader[p] = "done" /\ taken'[p] = taken[p]
    BY <1>1, <2>1 DEF WalkInv, GlobalsKnown, GlobalsUntaken, OvertakenOnly, Overtaken, AnsweredWalks
  <2>4. \A p \in Readers : reader'[p] \in {"waiting", "empty"} => p # r /\ reader'[r] = "done"
    BY <2>1 DEF WalkInv, GlobalsKnown, GlobalsUntaken, OvertakenOnly, Overtaken, AnsweredWalks
  <2>5. \A p \in Readers : reader'[p] = "done" =>
           taken'[p].by \in Readers /\ reader'[taken'[p].by] \notin {"absent", "idle"}
    BY <2>1, <2>2, <2>3 DEF WalkInv, GlobalsKnown, GlobalsUntaken, OvertakenOnly, Overtaken, AnsweredWalks
  <2>6. \A p, o \in Readers : reader'[p] = "done" /\ reader'[o] = "done" /\ p # o => taken'[p].by # taken'[o].by
    BY <2>2, <2>3 DEF WalkInv, GlobalsKnown, GlobalsUntaken, OvertakenOnly, Overtaken, AnsweredWalks, State!TakenOnce
  <2> QED BY <1>1, <2>1, <2>4, <2>5, <2>6 DEF WalkInv, GlobalsKnown, GlobalsUntaken, OvertakenOnly, Overtaken, AnsweredWalks, State!TakenOnce
<1> QED BY <1>2, <1>3

LEMMA WalkLost ==
  ASSUME WalkInv, NEW r \in Readers, State!ResolveLost(r)
  PROVE  WalkInv'
<1>1. /\ reader[r] = "waiting" /\ globals' = State!Nothing /\ taken' = taken
      /\ reader' = [reader EXCEPT ![r] = "error"]
  BY DEF State!ResolveLost
<1>2. \A p \in Readers : reader'[p] \in {"waiting", "empty"} => p # r /\ reader'[r] = "error"
  BY <1>1 DEF WalkInv, GlobalsKnown, GlobalsUntaken, OvertakenOnly, Overtaken, AnsweredWalks
<1> QED BY <1>1, <1>2 DEF WalkInv, GlobalsKnown, GlobalsUntaken, OvertakenOnly, Overtaken, AnsweredWalks, State!TakenOnce

LEMMA WalkNext == WalkInv /\ (State!Next \/ UNCHANGED stateVars) => WalkInv'
<1>1. ASSUME WalkInv, UNCHANGED <<globals, reader, taken>> PROVE WalkInv'
  BY <1>1 DEF WalkInv, GlobalsKnown, GlobalsUntaken, OvertakenOnly, Overtaken, AnsweredWalks, State!TakenOnce
<1>2. ASSUME State!Navigate PROVE UNCHANGED <<globals, reader, taken>>
  BY <1>2 DEF State!Navigate
<1>3. ASSUME UNCHANGED stateVars PROVE UNCHANGED <<globals, reader, taken>>
  BY <1>3 DEF stateVars
<1> QED BY <1>1, <1>2, <1>3, WalkDispatch, WalkMeasure, WalkResolve, WalkLost DEF State!Next

-----------------------------------------------------------------------------
(* Staleness: what is remembered of the agent's own moves.                 *)

CallOf == [tool : {"none", "read", "type", "tap"}, dev : Devices,
           step : {"idle", "running", "acts", "ends"}]
CallsOK(C) ==
    /\ C \in [Calls -> CallOf]
    /\ \A c \in Calls : C[c].step = "acts" => C[c].tool \in Stale!Mutating
    /\ \A c \in Calls : C[c].step # "idle" => C[c].tool # "none"

SinceOf == [moved : BOOLEAN, acted : SUBSET Calls, returned : BOOLEAN]
ViewOK(p) ==
    /\ p = [elements |-> p.elements, focused |-> p.focused, at |-> p.at, since |-> p.since]
    /\ p.at \in Nat /\ p.since \in SinceOf

\* The time of a view and what it has been through, at time t with the last move at m.
Remembered(p, m, t, C) ==
    /\ p.at <= t
    /\ p.since.returned => m >= p.at
    /\ \A c \in p.since.acted : p.since.returned \/ (C[c].step = "ends" /\ C[c].tool \in Stale!Mutating)

\* A call that has moved the screen since a baseline has returned, and then the time of the
\* last move is not before the baseline, or is about to return from a tool that moves screens.
MoveInv ==
    /\ clock \in Nat /\ lastMutatingAt \in Nat /\ lastMutatingAt <= clock
    /\ CallsOK(calls)
    /\ DOMAIN snapshots = Devices
    /\ \A d \in Devices : ViewOK(snapshots[d]) /\ Remembered(snapshots[d], lastMutatingAt, clock, calls)
    /\ DOMAIN verdict = Calls
    /\ Stale!OwnMoveExcused

LEMMA MoveStart == StaleOff \/ Stale!Init => MoveInv
<1> SUFFICES ASSUME StaleOff \/ Stale!Init PROVE MoveInv
  OBVIOUS
<1>1. /\ snapshots = [d \in Devices |-> Stale!NoSnapshot] /\ lastMutatingAt = 0
      /\ clock \in {1, MaxClock} /\ calls = [c \in Calls |-> Stale!Idle]
      /\ verdict = [c \in Calls |-> Stale!NoVerdict]
  BY DEF StaleOff, Stale!Init
<1>2. Stale!Idle \in CallOf /\ Stale!Idle.step = "idle"
  BY StaleAssumption DEF CallOf, Stale!Idle
<1>3. ViewOK(Stale!NoSnapshot) /\ Remembered(Stale!NoSnapshot, 0, clock, calls)
  <2>1. Stale!Unchanged \in SinceOf /\ ~Stale!Unchanged.returned /\ Stale!Unchanged.acted = {}
    BY DEF SinceOf, Stale!Unchanged
  <2>2. clock \in Nat
    BY <1>1, StaleAssumption
  <2> QED BY <2>1, <2>2 DEF ViewOK, Remembered, Stale!NoSnapshot
<1>4. Stale!OwnMoveExcused
  BY <1>1 DEF Stale!OwnMoveExcused, Stale!Stale, Stale!NoVerdict
<1>5. CallsOK(calls)
  BY <1>1, <1>2 DEF CallsOK
<1> QED BY <1>1, <1>3, <1>4, <1>5, StaleAssumption DEF MoveInv

\* A view just taken is remembered.
LEMMA FreshView ==
  ASSUME NEW t \in Nat, NEW m, NEW C, NEW e, NEW f, NEW t2 \in Nat, t <= t2
  PROVE  LET p == [elements |-> e, focused |-> f, at |-> t, since |-> Stale!Unchanged]
         IN  ViewOK(p) /\ Remembered(p, m, t2, C)
<1>1. Stale!Unchanged \in SinceOf /\ ~Stale!Unchanged.returned /\ Stale!Unchanged.acted = {}
  BY DEF SinceOf, Stale!Unchanged
<1> QED BY <1>1 DEF ViewOK, Remembered

\* What is remembered stays so while time goes on, moves are recorded and calls that have
\* moved the screen go on to return.
LEMMA StillRemembered ==
  ASSUME NEW p, ViewOK(p), NEW m \in Nat, NEW t \in Nat, NEW C, Remembered(p, m, t, C),
         NEW m2 \in Nat, m <= m2, NEW t2 \in Nat, t <= t2, NEW D,
         \A c \in p.since.acted : C[c].step = "ends" => D[c] = C[c]
  PROVE  Remembered(p, m2, t2, D)
<1>1. p.at \in Nat
  BY DEF ViewOK
<1> QED BY <1>1 DEF Remembered

\* ... of every view, whichever call goes on.
LEMMA AllStillRemembered ==
  ASSUME MoveInv, NEW t2 \in Nat, clock <= t2, NEW D, \A c \in Calls : calls[c].step = "ends" => D[c] = calls[c],
         NEW e \in Devices
  PROVE  ViewOK(snapshots[e]) /\ Remembered(snapshots[e], lastMutatingAt, t2, D)
<1>1. /\ clock \in Nat /\ lastMutatingAt \in Nat
      /\ ViewOK(snapshots[e]) /\ Remembered(snapshots[e], lastMutatingAt, clock, calls)
  BY DEF MoveInv
<1>2. \A c \in snapshots[e].since.acted : c \in Calls
  BY <1>1 DEF ViewOK, SinceOf
<1>3. lastMutatingAt <= lastMutatingAt
  BY <1>1
<1>4. \A c \in snapshots[e].since.acted : calls[c].step = "ends" => D[c] = calls[c]
  BY <1>2
<1> QED BY <1>1, <1>3, <1>4, StillRemembered

LEMMA MoveStarts ==
  ASSUME MoveInv, NEW c \in Calls, NEW tool \in {"read", "type", "tap"}, NEW d \in Devices,
         Stale!Start(c, tool, d)
  PROVE  MoveInv'
<1>1. /\ calls[c].step = "idle"
      /\ calls' = [calls EXCEPT ![c] = [tool |-> tool, dev |-> d, step |-> "running"]]
      /\ UNCHANGED <<snapshots, lastMutatingAt, clock, verdict>>
  BY DEF Stale!Start
<1>2. clock \in Nat /\ clock <= clock /\ CallsOK(calls)
  BY DEF MoveInv
<1>3. CallsOK(calls')
  BY <1>1, <1>2 DEF CallsOK, CallOf
<1>4. \A b \in Calls : calls[b].step = "ends" => calls'[b] = calls[b]
  BY <1>1, <1>2 DEF CallsOK
<1>5. \A e \in Devices : ViewOK(snapshots[e]) /\ Remembered(snapshots[e], lastMutatingAt, clock, calls')
  BY <1>2, <1>4, AllStillRemembered
<1> QED BY <1>1, <1>3, <1>5 DEF MoveInv, Stale!OwnMoveExcused

LEMMA MoveRecord ==
  ASSUME MoveInv, NEW c \in Calls, Stale!Record(c)
  PROVE  MoveInv'
<1>1. /\ calls[c].step = "running" /\ clock' = clock + 1
      /\ calls' = [calls EXCEPT ![c].step = IF calls[c].tool = "read" THEN "ends" ELSE "acts"]
      /\ UNCHANGED <<lastMutatingAt, verdict>>
  BY DEF Stale!Record
<1>2. \/ snapshots' = snapshots
      \/ snapshots' = [snapshots EXCEPT ![calls[c].dev] = Stale!Snapshot(calls[c].tool, calls[c].dev)]
  BY DEF Stale!Record
<1>3. /\ clock \in Nat /\ clock + 1 \in Nat /\ clock <= clock + 1 /\ lastMutatingAt \in Nat
      /\ lastMutatingAt <= clock /\ CallsOK(calls) /\ DOMAIN snapshots = Devices
  BY DEF MoveInv
<1>4. CallsOK(calls')
  BY <1>1, <1>3 DEF CallsOK, CallOf, Stale!Mutating
<1>5. \A b \in Calls : calls[b].step = "ends" => calls'[b] = calls[b]
  BY <1>1, <1>3 DEF CallsOK
<1>6. \A e \in Devices : ViewOK(snapshots[e]) /\ Remembered(snapshots[e], lastMutatingAt, clock + 1, calls')
  BY <1>3, <1>5, AllStillRemembered
<1>7. LET p == Stale!Snapshot(calls[c].tool, calls[c].dev)
      IN  ViewOK(p) /\ Remembered(p, lastMutatingAt, clock + 1, calls')
  BY <1>3, FreshView DEF Stale!Snapshot
<1>8. DOMAIN snapshots' = Devices
      /\ \A e \in Devices : ViewOK(snapshots'[e]) /\ Remembered(snapshots'[e], lastMutatingAt, clock + 1, calls')
  BY <1>2, <1>3, <1>6, <1>7
<1>9. lastMutatingAt <= clock + 1
  BY <1>3
<1> QED BY <1>1, <1>3, <1>4, <1>8, <1>9 DEF MoveInv, Stale!OwnMoveExcused

LEMMA MoveMiss ==
  ASSUME MoveInv, NEW c \in Calls, Stale!Miss(c)
  PROVE  MoveInv'
<1> DEFINE d == calls[c].dev
           n == [Stale!Snapshot(calls[c].tool, d) EXCEPT !.focused = FALSE]
<1>1. /\ calls[c].step = "running" /\ clock' = clock + 1 /\ calls[c].tool \in Stale!Mutating
      /\ calls' = [calls EXCEPT ![c].step = "ends"]
      /\ UNCHANGED lastMutatingAt
  BY DEF Stale!Miss
<1>2. \/ UNCHANGED <<snapshots, verdict>>
      \/ /\ snapshots' = [snapshots EXCEPT ![d] = n]
         /\ verdict' = [verdict EXCEPT ![c] =
               [kind |-> Stale!KindOf(snapshots[d], n), since |-> snapshots[d].since]]
  BY DEF Stale!Miss
<1>3. /\ clock \in Nat /\ clock + 1 \in Nat /\ clock <= clock + 1 /\ lastMutatingAt \in Nat
      /\ lastMutatingAt <= clock /\ CallsOK(calls) /\ DOMAIN snapshots = Devices
      /\ DOMAIN verdict = Calls /\ Stale!OwnMoveExcused
  BY DEF MoveInv
<1>4. CallsOK(calls') /\ d \in Devices
  BY <1>1, <1>3 DEF CallsOK, CallOf, Stale!Mutating
<1>5. \A b \in Calls : calls[b].step = "ends" => calls'[b] = calls[b]
  BY <1>1, <1>3 DEF CallsOK
<1>6. \A e \in Devices : ViewOK(snapshots[e]) /\ Remembered(snapshots[e], lastMutatingAt, clock + 1, calls')
  BY <1>3, <1>5, AllStillRemembered
<1>7. ViewOK(n) /\ Remembered(n, lastMutatingAt, clock + 1, calls')
  <2>1. PICK no : no = FALSE
    OBVIOUS
  <2>2. PICK e, f : Stale!Snapshot(calls[c].tool, d) = [elements |-> e, focused |-> f,
                                                         at |-> clock, since |-> Stale!Unchanged]
    BY DEF Stale!Snapshot
  <2>3. n = [[elements |-> e, focused |-> f, at |-> clock, since |-> Stale!Unchanged] EXCEPT !.focused = no]
    BY <2>1, <2>2
  <2> HIDE DEF n
  <2>5. n = [elements |-> e, focused |-> no, at |-> clock, since |-> Stale!Unchanged]
    BY <2>3
  <2> QED BY <1>3, <2>5, FreshView
<1>8. Stale!Stale([kind |-> Stale!KindOf(snapshots[d], n), since |-> snapshots[d].since])
        => ~snapshots[d].since.returned
  <2>1. snapshots[d].since.returned => lastMutatingAt >= snapshots[d].at
    BY <1>4, <1>6 DEF Remembered
  <2>2. lastMutatingAt >= snapshots[d].at => Stale!KindOf(snapshots[d], n) = "genuine_miss"
    BY DEF Stale!KindOf, Stale!Excused
  <2> QED BY <2>1, <2>2 DEF Stale!Stale
<1> HIDE DEF n
<1>9. DOMAIN snapshots' = Devices
      /\ \A e \in Devices : ViewOK(snapshots'[e]) /\ Remembered(snapshots'[e], lastMutatingAt, clock + 1, calls')
  BY <1>2, <1>3, <1>6, <1>7
<1>10. DOMAIN verdict' = Calls /\ Stale!OwnMoveExcused'
  <2>1. DOMAIN verdict' = Calls
    BY <1>2, <1>3
  <2>2. ASSUME NEW b \in Calls, Stale!Stale(verdict'[b]) PROVE ~verdict'[b].since.returned
    BY <1>2, <1>3, <1>8, <2>2 DEF Stale!OwnMoveExcused
  <2> QED BY <2>1, <2>2 DEF Stale!OwnMoveExcused
<1>11. lastMutatingAt <= clock + 1
  BY <1>3
<1> QED BY <1>1, <1>3, <1>4, <1>9, <1>10, <1>11 DEF MoveInv

LEMMA MoveAct ==
  ASSUME MoveInv, NEW c \in Calls, Stale!Act(c)
  PROVE  MoveInv'
<1> DEFINE d == calls[c].dev
<1>1. /\ calls[c].step = "acts" /\ calls' = [calls EXCEPT ![c].step = "ends"]
      /\ snapshots' = [snapshots EXCEPT ![d].since.acted = @ \cup {c}]
      /\ UNCHANGED <<lastMutatingAt, clock, verdict>>
  BY DEF Stale!Act
<1>2. clock \in Nat /\ clock <= clock /\ CallsOK(calls) /\ DOMAIN snapshots = Devices
  BY DEF MoveInv
<1>3. CallsOK(calls') /\ d \in Devices /\ calls'[c].step = "ends" /\ calls'[c].tool \in Stale!Mutating
  BY <1>1, <1>2 DEF CallsOK, CallOf
<1>4. \A b \in Calls : calls[b].step = "ends" => calls'[b] = calls[b]
  BY <1>1, <1>2 DEF CallsOK
<1>5. \A e \in Devices : ViewOK(snapshots[e]) /\ Remembered(snapshots[e], lastMutatingAt, clock, calls')
  BY <1>2, <1>4, AllStillRemembered
<1>6. ViewOK(snapshots'[d]) /\ Remembered(snapshots'[d], lastMutatingAt, clock, calls')
  <2>1. ViewOK(snapshots[d]) /\ Remembered(snapshots[d], lastMutatingAt, clock, calls')
    BY <1>3, <1>5
  <2>2. snapshots'[d] = [snapshots[d] EXCEPT !.since.acted = @ \cup {c}]
    BY <1>1, <1>2, <1>3
  <2>3. /\ snapshots'[d].at = snapshots[d].at
        /\ snapshots'[d].since.returned = snapshots[d].since.returned
        /\ snapshots'[d].since.acted = snapshots[d].since.acted \cup {c}
        /\ ViewOK(snapshots'[d])
    <3>1. PICK x : x = snapshots[d]
      OBVIOUS
    <3>2. PICK w : w = [x.since EXCEPT !.acted = @ \cup {c}]
      OBVIOUS
    <3>3. snapshots'[d] = [x EXCEPT !.since = w]
      BY <2>1, <2>2, <3>1, <3>2 DEF ViewOK
    <3>4. x = [elements |-> x.elements, focused |-> x.focused, at |-> x.at, since |-> x.since]
          /\ x.at \in Nat /\ x.since \in SinceOf
      BY <2>1, <3>1 DEF ViewOK
    <3>5. w \in SinceOf /\ w.returned = x.since.returned /\ w.acted = x.since.acted \cup {c}
      BY <3>2, <3>4 DEF SinceOf
    <3>6. /\ snapshots'[d] = [elements |-> x.elements, focused |-> x.focused, at |-> x.at, since |-> w]
      BY <3>3, <3>4
    <3>7. snapshots'[d].at = x.at /\ snapshots'[d].since = w
      BY <3>6
    <3> QED BY <3>1, <3>4, <3>5, <3>6, <3>7 DEF ViewOK
  <2> QED BY <1>3, <2>1, <2>3 DEF Remembered
<1>7. DOMAIN snapshots' = Devices
      /\ \A e \in Devices : ViewOK(snapshots'[e]) /\ Remembered(snapshots'[e], lastMutatingAt, clock, calls')
  BY <1>1, <1>2, <1>5, <1>6
<1> QED BY <1>1, <1>3, <1>7 DEF MoveInv, Stale!OwnMoveExcused

LEMMA MoveEnd ==
  ASSUME MoveInv, NEW c \in Calls, Stale!End(c)
  PROVE  MoveInv'
<1>1. /\ calls[c].step = "ends" /\ lastMutatingAt' = Stale!Latest(calls[c].tool) /\ clock' = clock + 1
      /\ calls' = [calls EXCEPT ![c] = Stale!Idle]
      /\ verdict' = [verdict EXCEPT ![c] = Stale!NoVerdict]
      /\ snapshots' = [d \in Devices |-> IF c \in snapshots[d].since.acted
                          THEN [snapshots[d] EXCEPT !.since.returned = TRUE] ELSE snapshots[d]]
  BY DEF Stale!End
<1>2. /\ clock \in Nat /\ clock + 1 \in Nat /\ clock <= clock + 1 /\ lastMutatingAt \in Nat
      /\ lastMutatingAt <= clock /\ CallsOK(calls)
      /\ DOMAIN verdict = Calls /\ Stale!OwnMoveExcused
  BY DEF MoveInv
<1>3. CallsOK(calls')
  <2>1. Stale!Idle \in CallOf /\ Stale!Idle.step = "idle"
    BY StaleAssumption DEF CallOf, Stale!Idle
  <2> QED BY <1>1, <1>2, <2>1 DEF CallsOK
<1>4. /\ lastMutatingAt' \in Nat /\ lastMutatingAt <= lastMutatingAt' /\ lastMutatingAt' <= clock + 1
      /\ calls[c].tool \in Stale!Mutating => lastMutatingAt' = clock
  BY <1>1, <1>2 DEF Stale!Latest
<1>5. \A b \in Calls \ {c} : calls'[b] = calls[b]
  BY <1>1, <1>2 DEF CallsOK
<1>6. ASSUME NEW d \in Devices
      PROVE  ViewOK(snapshots'[d]) /\ Remembered(snapshots'[d], lastMutatingAt', clock + 1, calls')
  <2> DEFINE p == snapshots[d]
  <2>1. ViewOK(p) /\ Remembered(p, lastMutatingAt, clock, calls)
    BY DEF MoveInv
  <2>2. CASE c \in p.since.acted
    <3>1. snapshots'[d] = [p EXCEPT !.since.returned = TRUE]
      BY <1>1, <2>2
    <3>2. p.at \in Nat /\ p.at <= clock
      BY <2>1 DEF ViewOK, Remembered
    <3>3. p.since.returned \/ calls[c].tool \in Stale!Mutating
      BY <2>1, <2>2 DEF Remembered
    <3>4. lastMutatingAt' >= p.at
      BY <1>2, <1>4, <2>1, <3>2, <3>3 DEF Remembered
    <3>5. ViewOK(snapshots'[d]) /\ snapshots'[d].at = p.at /\ snapshots'[d].since.returned
      BY <2>1, <3>1 DEF ViewOK, SinceOf
    <3> QED BY <1>2, <3>2, <3>4, <3>5 DEF Remembered
  <2>3. CASE c \notin p.since.acted
    <3>1. snapshots'[d] = p
      BY <1>1, <2>3
    <3>2. \A b \in p.since.acted : calls'[b] = calls[b]
      BY <1>5, <2>1, <2>3 DEF ViewOK, SinceOf
    <3>3. Remembered(p, lastMutatingAt', clock + 1, calls')
      BY <1>2, <1>4, <2>1, <3>2, StillRemembered
    <3> QED BY <2>1, <3>1, <3>3
  <2> QED BY <2>2, <2>3
<1>7. DOMAIN verdict' = Calls /\ Stale!OwnMoveExcused'
  BY <1>1, <1>2 DEF Stale!OwnMoveExcused, Stale!Stale, Stale!NoVerdict
<1>8. DOMAIN snapshots' = Devices
  BY <1>1
<1> QED BY <1>1, <1>2, <1>3, <1>4, <1>6, <1>7, <1>8 DEF MoveInv

LEMMA MoveInterfere ==
  ASSUME MoveInv, NEW d \in Devices, Stale!Interfere(d)
  PROVE  MoveInv'
<1>1. /\ snapshots' = [snapshots EXCEPT ![d].since.moved = TRUE]
      /\ UNCHANGED <<lastMutatingAt, clock, calls, verdict>>
  BY DEF Stale!Interfere
<1>2. DOMAIN snapshots = Devices /\ ViewOK(snapshots[d]) /\ Remembered(snapshots[d], lastMutatingAt, clock, calls)
  BY DEF MoveInv
<1>3. snapshots'[d] = [snapshots[d] EXCEPT !.since.moved = TRUE]
  BY <1>1, <1>2
<1>4. /\ ViewOK(snapshots'[d]) /\ snapshots'[d].at = snapshots[d].at
      /\ snapshots'[d].since.returned = snapshots[d].since.returned
      /\ snapshots'[d].since.acted = snapshots[d].since.acted
  BY <1>2, <1>3 DEF ViewOK, SinceOf
<1>5. Remembered(snapshots'[d], lastMutatingAt, clock, calls)
  BY <1>2, <1>4 DEF Remembered
<1>6. DOMAIN snapshots' = Devices
      /\ \A e \in Devices : ViewOK(snapshots'[e]) /\ Remembered(snapshots'[e], lastMutatingAt, clock, calls)
  BY <1>1, <1>4, <1>5 DEF MoveInv
<1> QED BY <1>1, <1>6 DEF MoveInv, Stale!OwnMoveExcused

LEMMA MoveNext == MoveInv /\ (Stale!Next \/ UNCHANGED staleVars) => MoveInv'
<1>1. ASSUME MoveInv, UNCHANGED staleVars PROVE MoveInv'
  BY <1>1 DEF MoveInv, staleVars, Stale!OwnMoveExcused
<1> QED BY <1>1, MoveStarts, MoveRecord, MoveMiss, MoveAct, MoveEnd, MoveInterfere DEF Stale!Next

-----------------------------------------------------------------------------
(* The trail of screens.                                                   *)

Names == {p[1] : p \in Places} \cup {"unknown", "nowhere"}
PlaceOf == Names \X Nat
EntryOf == [route : Names, from : Names, open : BOOLEAN]
VisitOf == [route : Names, from : Names, open : BOOLEAN, epoch : Nat]

LastOpen(s) == \A i \in 1..Len(s) : s[i].open => i = Len(s)

\* A buffer of the app: each entry names the one before, and the first none, unless the
\* buffer is full and has lost its head.
BufferOK(s) ==
    /\ s \in Seq(EntryOf) /\ LastOpen(s) /\ Len(s) <= MaxVisits
    /\ \A i \in 1..Len(s) - 1 : s[i + 1].from \in {"unknown", s[i].route}
    /\ s # <<>> /\ s[1].from # "unknown" => Len(s) = MaxVisits

\* v may stand after u in a trail.
Joins(u, v) == v.from = "unknown" \/ (v.epoch = u.epoch /\ v.from = u.route)
TrailOK(s) ==
    /\ s \in Seq(VisitOf) /\ LastOpen(s)
    /\ \A i \in 1..Len(s) - 1 : Joins(s[i], s[i + 1])

StoreOK(x) == DOMAIN x = {"mode", "entries"} /\ BufferOK(x.entries)

\* What a call that reads the trail or navigates holds.
AskFields == {"op", "pc", "arg", "epoch", "got", "polls", "to", "was", "at", "settled", "answer"}
AskOK(x) ==
    /\ DOMAIN x = AskFields
    /\ x.arg \in Nav!Args /\ x.epoch \in Nat /\ StoreOK(x.got)
    /\ x.to \in PlaceOf /\ x.at \in PlaceOf
    /\ x.answer # "none" => x.pc = "done"
    /\ x.answer = "unchanged" => x.at = x.was
    /\ x.answer = "changed" => x.at # x.was

RouteInv ==
    /\ place \in PlaceOf /\ heading \in PlaceOf /\ epoch \in Nat
    /\ StoreOK(store)
    /\ DOMAIN sampled = Nav!Args /\ \A a \in Nav!Args : TrailOK(sampled[a])
    /\ DOMAIN nav = Callers /\ \A c \in Callers : AskOK(nav[c])

-----------------------------------------------------------------------------
(* What the operators on trails and buffers keep.                          *)

\* r is what is left of s when its first k members are gone.
EndOf(r, s, k) == k \in 0..Len(s) /\ Len(r) = Len(s) - k /\ \A i \in 1..Len(r) : r[i] = s[i + k]

LEMMA LatestIs ==
  ASSUME NEW S, NEW s \in Seq(S)
  PROVE  /\ Nav!Latest(s) \in Seq(S) /\ Len(Nav!Latest(s)) <= MaxVisits
         /\ \E k \in Nat : EndOf(Nav!Latest(s), s, k) /\ (k # 0 => Len(Nav!Latest(s)) = MaxVisits)
<1>0. MaxVisits \in Nat /\ Len(s) \in Nat
  BY TrailAssumption
<1>1. CASE Len(s) > MaxVisits
  <2> DEFINE k == Len(s) - MaxVisits
             r == SubSeq(s, k + 1, Len(s))
  <2>1. k \in 0..Len(s) /\ k + 1 \in 1..Len(s) + 1 /\ Len(s) - (k + 1) + 1 = MaxVisits /\ k \in Nat
    BY <1>0, <1>1
  <2>2. r \in Seq(S) /\ Len(r) = MaxVisits /\ \A i \in 1..MaxVisits : r[i] = s[i + k]
    <3> HIDE DEF k
    <3>1. r = [i \in 1..MaxVisits |-> s[i + k]]
      BY <1>0, <2>1
    <3>2. \A i \in 1..MaxVisits : s[i + k] \in S
      BY <1>0, <2>1
    <3> HIDE DEF r
    <3>3. Len(r) = MaxVisits /\ r \in Seq(S)
      BY <1>0, <3>1, <3>2
    <3> QED BY <3>1, <3>3
  <2>3. Nav!Latest(s) = r
    BY <1>0, <1>1 DEF Nav!Latest
  <2> HIDE DEF r
  <2>4. EndOf(r, s, k)
    BY <1>0, <2>1, <2>2 DEF EndOf
  <2> QED BY <1>0, <2>1, <2>2, <2>3, <2>4
<1>2. CASE ~(Len(s) > MaxVisits)
  <2>1. Nav!Latest(s) = s
    BY <1>0, <1>2 DEF Nav!Latest
  <2>2. EndOf(s, s, 0)
    BY <1>0 DEF EndOf
  <2> QED BY <1>0, <1>2, <2>1, <2>2
<1> QED BY <1>1, <1>2

LEMMA EndKeepsOpen ==
  ASSUME NEW S, NEW s \in Seq(S), NEW r \in Seq(S), NEW k, EndOf(r, s, k), LastOpen(s)
  PROVE  LastOpen(r)
<1> SUFFICES ASSUME NEW i \in 1..Len(r), r[i].open PROVE i = Len(r)
  BY DEF LastOpen
<1>1. i + k \in 1..Len(s) /\ r[i] = s[i + k] /\ Len(r) = Len(s) - k /\ k \in Nat /\ Len(s) \in Nat
  BY DEF EndOf
<1>2. i + k = Len(s)
  BY <1>1 DEF LastOpen
<1> QED BY <1>1, <1>2

LEMMA EndKeepsTrail ==
  ASSUME NEW s, TrailOK(s), NEW r \in Seq(VisitOf), NEW k, EndOf(r, s, k)
  PROVE  TrailOK(r)
<1>1. s \in Seq(VisitOf) /\ LastOpen(s)
  BY DEF TrailOK
<1>2. LastOpen(r)
  BY <1>1, EndKeepsOpen
<1>3. ASSUME NEW i \in 1..Len(r) - 1 PROVE Joins(r[i], r[i + 1])
  <2>1. /\ k \in Nat /\ Len(s) \in Nat /\ Len(r) = Len(s) - k
        /\ r[i] = s[i + k] /\ r[i + 1] = s[(i + 1) + k]
    BY <1>1 DEF EndOf
  <2>2. i + k \in 1..Len(s) - 1 /\ (i + 1) + k = (i + k) + 1
    BY <2>1
  <2> QED BY <2>1, <2>2 DEF TrailOK
<1> QED BY <1>2, <1>3 DEF TrailOK

\* Two kinds of members have an end.
LEMMA CloseLastIs ==
  ASSUME NEW S \in {EntryOf, VisitOf}, NEW s \in Seq(S), LastOpen(s)
  PROVE  LET r == Nav!CloseLast(s)
         IN  /\ r \in Seq(S) /\ Len(r) = Len(s)
             /\ \A i \in 1..Len(s) : /\ ~r[i].open /\ r[i].route = s[i].route /\ r[i].from = s[i].from
                                     /\ S = VisitOf => r[i].epoch = s[i].epoch
<1>1. CASE s = <<>>
  BY <1>1 DEF Nav!CloseLast
<1>2. CASE s # <<>>
  <2>0. PICK no : no = FALSE
    OBVIOUS
  <2> DEFINE n == Len(s)
             u == [s[n] EXCEPT !.open = no]
             r == [s EXCEPT ![n] = u]
  <2>1. Nav!CloseLast(s) = r
    BY <1>2, <2>0 DEF Nav!CloseLast
  <2>2. n \in 1..Len(s) /\ s[n] \in S /\ \A i \in 1..Len(s) : s[i] \in S
    BY <1>2
  <2>4. /\ u \in S /\ ~u.open /\ u.route = s[n].route /\ u.from = s[n].from
        /\ S = VisitOf => u.epoch = s[n].epoch
    <3>0. no \in BOOLEAN /\ ~no
      BY <2>0
    <3> HIDE DEF n, r
    <3>1. CASE S = EntryOf
      <4>1. S # VisitOf
        <5>1. DOMAIN s[n] = {"route", "from", "open"}
          BY <2>2, <3>1 DEF EntryOf
        <5>2. S = VisitOf => "epoch" \in DOMAIN s[n]
          BY <2>2 DEF VisitOf
        <5> QED BY <5>1, <5>2
      <4> QED BY <2>2, <3>0, <3>1, <4>1 DEF EntryOf
    <3>2. CASE S = VisitOf
      BY <2>2, <3>0, <3>2 DEF VisitOf
    <3> QED BY <3>1, <3>2
  <2> HIDE DEF u
  <2>5. r = [i \in 1..Len(s) |-> IF i = n THEN u ELSE s[i]]
    BY <2>2
  <2> HIDE DEF r
  <2>6. r \in Seq(S) /\ Len(r) = Len(s) /\ \A i \in 1..Len(s) : r[i] = IF i = n THEN u ELSE s[i]
    BY <2>2, <2>4, <2>5
  <2>7. \A i \in 1..Len(s) : i # n => ~s[i].open
    BY DEF LastOpen
  <2> QED BY <2>1, <2>4, <2>6, <2>7
<1> QED BY <1>1, <1>2

LEMMA TrailAppend ==
  ASSUME NEW s \in Seq(VisitOf), \A i \in 1..Len(s) : ~s[i].open,
         \A i \in 1..Len(s) - 1 : Joins(s[i], s[i + 1]),
         NEW v \in VisitOf, s # <<>> => Joins(s[Len(s)], v)
  PROVE  TrailOK(Append(s, v))
<1> DEFINE r == Append(s, v)
<1>1. /\ r \in Seq(VisitOf) /\ Len(r) = Len(s) + 1 /\ r[Len(s) + 1] = v
      /\ \A i \in 1..Len(s) : r[i] = s[i]
  OBVIOUS
<1> HIDE DEF r
<1>2. LastOpen(r)
  BY <1>1 DEF LastOpen
<1>3. ASSUME NEW i \in 1..Len(r) - 1 PROVE Joins(r[i], r[i + 1])
  <2>1. i \in 1..Len(s) /\ r[i] = s[i]
    BY <1>1
  <2>2. CASE i = Len(s)
    <3>1. s # <<>> /\ r[i + 1] = v
      BY <1>1, <2>1, <2>2
    <3> QED BY <2>1, <2>2, <3>1
  <2>3. CASE i # Len(s)
    <3>1. i \in 1..Len(s) - 1 /\ i + 1 \in 1..Len(s)
      BY <2>1, <2>3
    <3> QED BY <1>1, <2>1, <3>1
  <2> QED BY <2>2, <2>3
<1>4. TrailOK(r)
  BY <1>1, <1>2, <1>3 DEF TrailOK
<1> QED BY <1>4 DEF r

\* The visits of the other runs are members of the trail in their order, and still join up:
\* what a visit joins is of its own run, which is kept with it.
LEMMA OtherRunsOK ==
  ASSUME NEW t, TrailOK(t), NEW e \in Nat
  PROVE  LET r == Nav!OtherRuns(t, e)
         IN  TrailOK(r) /\ \A i \in 1..Len(r) : r[i].epoch # e
<1> DEFINE S == {v \in VisitOf : v.epoch # e}
           F(g) == [n \in 0..Len(t) |-> IF n = 0 THEN <<>>
                       ELSE IF t[n] \in S THEN Append(g[n - 1], t[n]) ELSE g[n - 1]]
           G(g) == [n \in 0..Len(t) |-> IF n = 0 THEN <<>>
                       ELSE IF t[n].epoch = e THEN g[n - 1] ELSE Append(g[n - 1], t[n])]
<1>1. t \in Seq(VisitOf) /\ LastOpen(t) /\ Len(t) \in Nat /\ \A n \in 1..Len(t) : t[n] \in VisitOf
  BY DEF TrailOK
<1>2. Nav!OtherRuns(t, e) = Among(t, S)
  <2>1. ASSUME NEW g PROVE F(g) = G(g)
    <3>1. \A n \in 0..Len(t) : n # 0 => (t[n] \in S <=> ~(t[n].epoch = e))
      BY <1>1
    <3> HIDE DEF S
    <3> QED BY <3>1
  <2>2. Nav!OtherRuns(t, e) = (CHOOSE g : g = G(g))[Len(t)]
    BY DEF Nav!OtherRuns
  <2>3. Among(t, S) = (CHOOSE g : g = F(g))[Len(t)]
    BY DEF Among
  <2> HIDE DEF F, G
  <2>4. \A g : F(g) = G(g)
    BY <2>1
  <2> QED BY <2>2, <2>3, <2>4
<1>3. PICK f : Keeps(f, Len(t), t, S, VisitOf) /\ Among(t, S) = f[Len(t)]
  BY <1>1, AmongIs
\* Up to n: the last one kept is the last of the prefix if that is kept.
<1> DEFINE OK(n) == /\ \A i \in 1..Len(f[n]) : f[n][i].open => n = Len(t) /\ i = Len(f[n])
                    /\ \A i \in 1..Len(f[n]) - 1 : Joins(f[n][i], f[n][i + 1])
                    /\ n # 0 /\ t[n] \in S => f[n] # <<>> /\ f[n][Len(f[n])] = t[n]
           B == {n \in 0..Len(t) : ~OK(n)}
<1>4. \A n \in 0..Len(t) : f[n] \in Seq(VisitOf \intersect S)
  BY <1>3 DEF Keeps
<1>5. OK(0)
  <2>1. 0 \in 0..Len(t)
    BY <1>1
  <2>2. f[0] = <<>>
    BY <1>3, <2>1 DEF Keeps
  <2> QED BY <2>2
<1>6. ASSUME NEW n \in 1..Len(t), OK(n - 1) PROVE OK(n)
  <2> DEFINE p == f[n - 1]
  <2>1. n - 1 \in 0..Len(t) /\ n \in 0..Len(t) /\ n # 0 /\ n - 1 # Len(t)
    BY <1>1
  <2>2. f[n] = IF t[n] \in S THEN Append(p, t[n]) ELSE p
    BY <1>3, <2>1 DEF Keeps
  <2>3. p \in Seq(VisitOf) /\ \A i \in 1..Len(p) : ~p[i].open
    <3>1. \A i \in 1..Len(p) : ~p[i].open
      BY <1>6, <2>1
    <3>2. p \in Seq(VisitOf \intersect S)
      BY <1>4, <2>1
    <3> HIDE DEF p, S
    <3> QED BY <3>1, <3>2
  <2>4. \A i \in 1..Len(p) - 1 : Joins(p[i], p[i + 1])
    BY <1>6
  <2>5. CASE t[n] \notin S
    BY <2>2, <2>3, <2>4, <2>5
  <2>6. CASE t[n] \in S
    <3>1. p # <<>> => Joins(p[Len(p)], t[n])
      <4> SUFFICES ASSUME p # <<>> PROVE Joins(p[Len(p)], t[n])
        OBVIOUS
      <4>1. n - 1 # 0
        <5>1. 0 \in 0..Len(t)
          BY <1>1
        <5>2. f[0] = <<>>
          BY <1>3, <5>1 DEF Keeps
        <5> QED BY <5>2
      <4>2. n - 1 \in 1..Len(t) - 1 /\ (n - 1) + 1 = n
        BY <1>1, <4>1
      <4>3. Joins(t[n - 1], t[n])
        BY <4>2 DEF TrailOK
      <4>4. CASE t[n - 1] \in S
        BY <1>6, <4>1, <4>3, <4>4
      <4>5. CASE t[n - 1] \notin S
        <5>1. t[n - 1].epoch = e /\ t[n].epoch # e
          BY <1>1, <2>6, <4>2, <4>5
        <5>2. t[n].from = "unknown"
          BY <4>3, <5>1 DEF Joins
        <5> QED BY <5>2 DEF Joins
      <4> QED BY <4>4, <4>5
    <3>2. t[n] \in VisitOf
      BY <1>1
    <3> DEFINE r == Append(p, t[n])
    <3>3. TrailOK(r)
      BY <2>3, <2>4, <3>1, <3>2, TrailAppend
    <3>4. /\ Len(p) \in Nat /\ Len(r) = Len(p) + 1 /\ r[Len(p) + 1] = t[n] /\ r # <<>>
          /\ \A i \in 1..Len(p) : r[i] = p[i]
      BY <2>3, <3>2
    <3>5. f[n] = r
      BY <2>2, <2>6
    <3> HIDE DEF r
    <3>6. \A i \in 1..Len(r) : r[i].open => n = Len(t) /\ i = Len(r)
      <4> SUFFICES ASSUME NEW i \in 1..Len(r), r[i].open PROVE n = Len(t) /\ i = Len(r)
        OBVIOUS
      <4>1. i = Len(p) + 1
        <5> SUFFICES ASSUME i # Len(p) + 1 PROVE FALSE
          OBVIOUS
        <5>1. i \in 1..Len(p)
          BY <3>4
        <5>2. r[i] = p[i] /\ ~p[i].open
          BY <2>3, <3>4, <5>1
        <5> QED BY <5>2
      <4>2. t[n].open
        BY <3>4, <4>1
      <4> QED BY <1>1, <3>4, <4>1, <4>2 DEF LastOpen
    <3>7. \A i \in 1..Len(r) - 1 : Joins(r[i], r[i + 1])
      BY <3>3 DEF TrailOK
    <3> QED BY <3>4, <3>5, <3>6, <3>7
  <2> QED BY <2>5, <2>6
<1>7. B = {}
  <2> SUFFICES ASSUME B # {} PROVE FALSE
    OBVIOUS
  <2>1. B \subseteq Nat
    OBVIOUS
  <2>2. PICK n \in B : \A m \in B : n <= m
    <3> HIDE DEF B
    <3> QED BY <2>1, LeastNumber
  <2>3. n \in 0..Len(t) /\ ~OK(n)
    BY <2>2
  <2> HIDE DEF OK
  <2>4. n \in 1..Len(t) /\ n - 1 \in 0..Len(t) /\ ~(n <= n - 1)
    BY <1>1, <1>5, <2>3
  <2>5. n - 1 \notin B
    BY <2>2, <2>4
  <2>6. OK(n - 1)
    BY <2>4, <2>5
  <2> QED BY <1>6, <2>3, <2>4, <2>6
<1>8. OK(Len(t))
  <2>1. Len(t) \in 0..Len(t)
    BY <1>1
  <2> HIDE DEF OK
  <2> QED BY <1>7, <2>1
<1> DEFINE r == f[Len(t)]
<1>9. r \in Seq(VisitOf \intersect S) /\ LastOpen(r) /\ \A i \in 1..Len(r) - 1 : Joins(r[i], r[i + 1])
  <2>1. Len(t) \in 0..Len(t)
    BY <1>1
  <2>2. r \in Seq(VisitOf \intersect S)
    BY <1>4, <2>1
  <2> QED BY <1>8, <2>2 DEF LastOpen
<1>10. r \in Seq(VisitOf) /\ \A i \in 1..Len(r) : r[i].epoch # e
  BY <1>9
<1>11. Nav!OtherRuns(t, e) = r
  BY <1>2, <1>3
<1> HIDE DEF r
<1> QED BY <1>9, <1>10, <1>11 DEF TrailOK

LEMMA Concatenated ==
  ASSUME NEW S, NEW a \in Seq(S), NEW b \in Seq(S)
  PROVE  LET s == a \o b
         IN  /\ s \in Seq(S) /\ Len(s) = Len(a) + Len(b) /\ Len(a) \in Nat /\ Len(b) \in Nat
             /\ \A i \in 1..Len(a) : s[i] = a[i]
             /\ \A i \in 1..Len(b) : s[Len(a) + i] = b[i]
  OBVIOUS

LEMMA UnknownIsName == "unknown" \in Names
  BY DEF Names

LEMMA SampledOK ==
  ASSUME NEW t, TrailOK(t), NEW name \in Names, NEW e \in Nat
  PROVE  TrailOK(Nav!Sampled(t, name, e))
<1>1. /\ t \in Seq(VisitOf) /\ LastOpen(t) /\ Len(t) \in Nat
      /\ \A i \in 1..Len(t) - 1 : Joins(t[i], t[i + 1])
  BY DEF TrailOK
<1>2. ASSUME NEW from \in Names
      PROVE  /\ Nav!Visit(name, from, e) \in VisitOf
             /\ Nav!Visit(name, from, e).from = from /\ Nav!Visit(name, from, e).epoch = e
  BY DEF Nav!Visit, VisitOf
<1>3. CASE t = <<>> \/ ~Nav!Last(t).open
  <2>1. \A i \in 1..Len(t) : ~t[i].open
    BY <1>1, <1>3 DEF LastOpen, Nav!Last
  <2>2. PICK v : v = Nav!Visit(name, "unknown", e)
    OBVIOUS
  <2>3. v \in VisitOf /\ v.from = "unknown"
    BY <1>2, <2>2, UnknownIsName
  <2>4. TrailOK(Append(t, v))
    BY <1>1, <2>1, <2>3, TrailAppend DEF Joins
  <2>5. Nav!Sampled(t, name, e) = Nav!Latest(Append(t, v))
    BY <1>3, <2>2 DEF Nav!Sampled
  <2>6. Append(t, v) \in Seq(VisitOf)
    BY <2>4 DEF TrailOK
  <2> QED BY <2>4, <2>5, <2>6, LatestIs, EndKeepsTrail
<1>4. CASE ~(t = <<>> \/ ~Nav!Last(t).open)
  <2> DEFINE last == t[Len(t)]
             from == IF last.epoch = e THEN last.route ELSE "unknown"
             r == Nav!CloseLast(t)
  <2>1. Len(t) \in 1..Len(t) /\ last \in VisitOf
    BY <1>1, <1>4
  <2>2. /\ r \in Seq(VisitOf) /\ Len(r) = Len(t)
        /\ \A i \in 1..Len(t) : /\ ~r[i].open /\ r[i].route = t[i].route /\ r[i].from = t[i].from
                                /\ r[i].epoch = t[i].epoch
    BY <1>1, CloseLastIs
  <2> HIDE DEF r
  <2>3. from \in Names
    <3>1. last.route \in Names
      BY <2>1 DEF VisitOf
    <3> QED BY <3>1, UnknownIsName
  <2> HIDE DEF from
  <2>4. PICK v : v = Nav!Visit(name, from, e)
    OBVIOUS
  <2>5. v \in VisitOf /\ v.from = from /\ v.epoch = e
    BY <1>2, <2>3, <2>4
  <2>6. \A i \in 1..Len(r) - 1 : Joins(r[i], r[i + 1])
    <3> SUFFICES ASSUME NEW i \in 1..Len(r) - 1 PROVE Joins(r[i], r[i + 1])
      OBVIOUS
    <3>1. i \in 1..Len(t) /\ i + 1 \in 1..Len(t) /\ Joins(t[i], t[i + 1])
      BY <1>1, <2>2
    <3> QED BY <2>2, <3>1 DEF Joins
  <2>7. Joins(r[Len(r)], v)
    BY <2>1, <2>2, <2>5 DEF Joins, from
  <2>8. TrailOK(Append(r, v))
    BY <2>2, <2>5, <2>6, <2>7, TrailAppend
  <2>9. Append(r, v) \in Seq(VisitOf)
    BY <2>8 DEF TrailOK
  <2>10. Nav!Sampled(t, name, e) \in {t, Nav!Latest(Append(r, v))}
    BY <1>4, <2>4 DEF Nav!Sampled, Nav!Last, from, r
  <2> QED BY <2>8, <2>9, <2>10, LatestIs, EndKeepsTrail
<1> QED BY <1>3, <1>4

\* A full buffer that has lost its head pushes all the other runs out of the trail.
LEMMA MergedOK ==
  ASSUME NEW t, TrailOK(t), NEW entries, BufferOK(entries), NEW e \in Nat
  PROVE  TrailOK(Nav!Merged(t, entries, e))
<1> DEFINE b == Nav!OtherRuns(t, e)
           u == [i \in DOMAIN entries |-> [route |-> entries[i].route, from |-> entries[i].from,
                                           open |-> entries[i].open, epoch |-> e]]
           h == IF entries = <<>> THEN b ELSE Nav!CloseLast(b)
           s == h \o u
<1>1. TrailOK(b) /\ \A i \in 1..Len(b) : b[i].epoch # e
  BY OtherRunsOK
<1>2. b \in Seq(VisitOf) /\ LastOpen(b) /\ Len(b) \in Nat
  BY <1>1 DEF TrailOK
<1>3. /\ entries \in Seq(EntryOf) /\ LastOpen(entries) /\ Len(entries) <= MaxVisits
      /\ \A i \in 1..Len(entries) - 1 : entries[i + 1].from \in {"unknown", entries[i].route}
      /\ entries # <<>> /\ entries[1].from # "unknown" => Len(entries) = MaxVisits
      /\ MaxVisits \in Nat
  BY TrailAssumption DEF BufferOK
<1>4. /\ u \in Seq(VisitOf) /\ Len(u) = Len(entries)
      /\ \A i \in 1..Len(u) : /\ u[i].route = entries[i].route /\ u[i].from = entries[i].from
                              /\ u[i].open = entries[i].open /\ u[i].epoch = e
  <2>1. ASSUME NEW i \in DOMAIN entries
        PROVE  [route |-> entries[i].route, from |-> entries[i].from, open |-> entries[i].open, epoch |-> e]
                  \in VisitOf
    <3>1. entries[i] \in EntryOf
      BY <1>3
    <3> QED BY <3>1 DEF EntryOf, VisitOf
  <2>2. DOMAIN entries = 1..Len(entries) /\ Len(entries) \in Nat
    BY <1>3
  <2>3. /\ DOMAIN u = 1..Len(entries)
        /\ \A i \in 1..Len(entries) : u[i] \in VisitOf
        /\ \A i \in 1..Len(entries) : /\ u[i].route = entries[i].route /\ u[i].from = entries[i].from
                                      /\ u[i].open = entries[i].open /\ u[i].epoch = e
    BY <2>1, <2>2
  <2>4. u = [i \in 1..Len(entries) |-> u[i]]
    BY <2>2
  <2> HIDE DEF u
  <2>5. u \in Seq(VisitOf) /\ Len(u) = Len(entries)
    BY <2>2, <2>3, <2>4
  <2> QED BY <2>3, <2>5
<1>5. /\ h \in Seq(VisitOf) /\ Len(h) = Len(b) /\ (entries # <<>> => \A i \in 1..Len(h) : ~h[i].open)
      /\ \A i \in 1..Len(h) : h[i].route = b[i].route /\ h[i].from = b[i].from /\ h[i].epoch = b[i].epoch
      /\ LastOpen(h)
  <2>1. CASE entries = <<>>
    BY <1>2, <2>1
  <2>2. CASE entries # <<>>
    <3>1. h = Nav!CloseLast(b)
      BY <2>2
    <3> HIDE DEF b
    <3>2. /\ h \in Seq(VisitOf) /\ Len(h) = Len(b)
          /\ \A i \in 1..Len(b) : /\ ~h[i].open /\ h[i].route = b[i].route /\ h[i].from = b[i].from
                                  /\ h[i].epoch = b[i].epoch
      BY <1>2, <3>1, CloseLastIs
    <3> QED BY <2>2, <3>2 DEF LastOpen
  <2> QED BY <2>1, <2>2
<1>6. Nav!Merged(t, entries, e) = Nav!Latest(s)
  BY DEF Nav!Merged
<1> HIDE DEF b, u, h
<1>7. /\ s \in Seq(VisitOf) /\ Len(s) = Len(h) + Len(u) /\ Len(h) \in Nat /\ Len(u) \in Nat
      /\ \A i \in 1..Len(h) : s[i] = h[i]
      /\ \A i \in 1..Len(u) : s[Len(h) + i] = u[i]
  <2>1. h \in Seq(VisitOf) /\ u \in Seq(VisitOf)
    BY <1>4, <1>5
  <2> QED BY <2>1, Concatenated
<1> HIDE DEF s
<1>8. LastOpen(s)
  <2> SUFFICES ASSUME NEW i \in 1..Len(s), s[i].open PROVE i = Len(s)
    BY DEF LastOpen
  <2>1. CASE i \in 1..Len(h)
    <3>1. h[i].open
      BY <1>7, <2>1
    <3>2. entries = <<>> /\ i = Len(h)
      BY <1>5, <2>1, <3>1 DEF LastOpen
    <3>3. Len(u) = 0
      BY <1>3, <1>4, <3>2
    <3> QED BY <1>7, <3>2, <3>3
  <2>2. CASE i \notin 1..Len(h)
    <3>1. PICK j \in 1..Len(u) : i = Len(h) + j
      <4>1. i - Len(h) \in 1..Len(u) /\ i = Len(h) + (i - Len(h))
        BY <1>7, <2>2
      <4> QED BY <4>1
    <3>2. entries[j].open
      BY <1>4, <1>7, <3>1
    <3>3. j = Len(entries)
      BY <1>4, <3>1, <3>2 DEF LastOpen, BufferOK
    <3> QED BY <1>4, <1>7, <3>1, <3>3
  <2> QED BY <2>1, <2>2
<1> DEFINE r == Nav!Latest(s)
<1>9. r \in Seq(VisitOf) /\ Len(r) <= MaxVisits
  BY <1>7, LatestIs
<1>10. PICK k \in Nat : EndOf(r, s, k) /\ (k # 0 => Len(r) = MaxVisits)
  BY <1>7, LatestIs
<1> HIDE DEF r
<1>11. LastOpen(r)
  BY <1>7, <1>8, <1>9, <1>10, EndKeepsOpen
<1>12. ASSUME NEW i \in 1..Len(r) - 1 PROVE Joins(r[i], r[i + 1])
  <2> DEFINE p == i + k
  <2>1. /\ Len(r) = Len(s) - k /\ r[i] = s[p] /\ r[i + 1] = s[p + 1]
        /\ p \in 1..Len(s) - 1 /\ p > k /\ Len(s) \in Nat
    <3>1. Len(r) = Len(s) - k /\ Len(r) \in Nat /\ Len(s) \in Nat /\ i \in 1..Len(r) /\ i + 1 \in 1..Len(r)
      BY <1>7, <1>9, <1>10 DEF EndOf
    <3>2. r[i] = s[i + k] /\ r[i + 1] = s[(i + 1) + k]
      BY <1>10, <3>1 DEF EndOf
    <3>3. (i + 1) + k = p + 1
      BY <3>1
    <3> QED BY <3>1, <3>2, <3>3
  <2> HIDE DEF p
  <2>2. CASE p < Len(h)
    <3>1. p \in 1..Len(b) - 1 /\ p \in 1..Len(h) /\ p + 1 \in 1..Len(h)
      BY <1>5, <1>7, <2>1, <2>2
    <3>2. Joins(b[p], b[p + 1])
      BY <1>1, <3>1 DEF TrailOK
    <3>3. s[p] = h[p] /\ s[p + 1] = h[p + 1]
      BY <1>7, <3>1
    <3> QED BY <1>5, <2>1, <3>1, <3>2, <3>3 DEF Joins
  <2>3. CASE p = Len(h)
    <3>1. Len(u) # 0 /\ 1 \in 1..Len(u) /\ s[p + 1] = u[1]
      BY <1>7, <2>1, <2>3
    <3>2. entries # <<>> /\ u[1].from = entries[1].from
      BY <1>3, <1>4, <3>1
    <3>3. entries[1].from = "unknown"
      <4> SUFFICES ASSUME entries[1].from # "unknown" PROVE FALSE
        OBVIOUS
      <4>1. Len(u) = MaxVisits
        BY <1>3, <1>4, <3>2
      <4>2. Len(r) = Len(h) + MaxVisits - k /\ k < Len(h)
        BY <1>3, <1>7, <2>1, <2>3, <4>1
      <4> QED BY <1>3, <1>7, <1>9, <4>2
    <3> QED BY <2>1, <3>1, <3>2, <3>3 DEF Joins
  <2>4. CASE p > Len(h)
    <3>1. PICK j \in 1..Len(u) - 1 : p = Len(h) + j
      <4>1. p - Len(h) \in 1..Len(u) - 1 /\ p = Len(h) + (p - Len(h))
        BY <1>7, <2>1, <2>4
      <4> QED BY <4>1
    <3>2. j \in 1..Len(u) /\ j + 1 \in 1..Len(u) /\ p + 1 = Len(h) + (j + 1)
      BY <1>7, <3>1
    <3>3. s[p] = u[j] /\ s[p + 1] = u[j + 1]
      BY <1>7, <3>1, <3>2
    <3>4. entries[j + 1].from \in {"unknown", entries[j].route}
      BY <1>3, <1>4, <3>1
    <3> QED BY <1>4, <2>1, <3>2, <3>3, <3>4 DEF Joins
  <2> QED BY <1>7, <2>1, <2>2, <2>3, <2>4
<1>13. TrailOK(r)
  BY <1>9, <1>11, <1>12 DEF TrailOK
<1> QED BY <1>6, <1>13 DEF r

LEMMA PlacesAre == Places \subseteq PlaceOf /\ Nav!Nowhere \in PlaceOf
<1>1. ASSUME NEW p \in Places PROVE p \in PlaceOf
  <2>1. p = <<p[1], p[2]>> /\ p[2] \in Nat
    BY TrailAssumption
  <2>2. p[1] \in Names
    BY DEF Names
  <2> QED BY <2>1, <2>2 DEF PlaceOf
<1>2. Nav!Nowhere \in PlaceOf
  BY DEF Nav!Nowhere, PlaceOf, Names
<1> QED BY <1>1, <1>2

\* The listener's buffer names a visit's predecessor for as long as it holds it.
LEMMA RecordedOK ==
  ASSUME NEW s, BufferOK(s), NEW p \in PlaceOf
  PROVE  BufferOK(Nav!Recorded(s, p))
<1> SUFFICES ASSUME Nav!Recorded(s, p) # s PROVE BufferOK(Nav!Recorded(s, p))
  OBVIOUS
<1>1. /\ s \in Seq(EntryOf) /\ LastOpen(s) /\ Len(s) <= MaxVisits /\ Len(s) \in Nat /\ MaxVisits \in Nat
      /\ \A i \in 1..Len(s) - 1 : s[i + 1].from \in {"unknown", s[i].route}
      /\ s # <<>> /\ s[1].from # "unknown" => Len(s) = MaxVisits
  BY TrailAssumption DEF BufferOK
<1> DEFINE from == IF s = <<>> THEN "unknown" ELSE s[Len(s)].route
           c == Nav!CloseLast(s)
           v == [route |-> p[1], from |-> from, open |-> TRUE]
           a == Append(c, v)
           r == Nav!Latest(a)
<1>2. Nav!Recorded(s, p) = r
  BY DEF Nav!Recorded, Nav!Entry, Nav!Last
<1>3. from \in Names
  <2>1. CASE s = <<>>
    BY <2>1, UnknownIsName
  <2>2. CASE s # <<>>
    <3>1. s[Len(s)] \in EntryOf
      BY <1>1, <2>2
    <3> QED BY <2>2, <3>1 DEF EntryOf
  <2> QED BY <2>1, <2>2
<1>4. v \in EntryOf /\ v.from = from
  <2>1. p[1] \in Names
    BY DEF PlaceOf
  <2> HIDE DEF from
  <2> QED BY <1>3, <2>1 DEF EntryOf
<1>5. /\ c \in Seq(EntryOf) /\ Len(c) = Len(s)
      /\ \A i \in 1..Len(s) : ~c[i].open /\ c[i].route = s[i].route /\ c[i].from = s[i].from
  BY <1>1, CloseLastIs
<1> HIDE DEF c, v
<1>6. /\ a \in Seq(EntryOf) /\ Len(a) = Len(s) + 1 /\ a[Len(s) + 1] = v
      /\ \A i \in 1..Len(s) : a[i] = c[i]
  BY <1>4, <1>5
<1> HIDE DEF a
<1>7. LastOpen(a)
  BY <1>1, <1>5, <1>6 DEF LastOpen
<1>8. \A i \in 1..Len(a) - 1 : a[i + 1].from \in {"unknown", a[i].route}
  <2> SUFFICES ASSUME NEW i \in 1..Len(a) - 1 PROVE a[i + 1].from \in {"unknown", a[i].route}
    OBVIOUS
  <2>1. i \in 1..Len(s) /\ a[i] = c[i]
    BY <1>1, <1>6
  <2>2. CASE i = Len(s)
    <3>1. a[i + 1].from = s[i].route /\ a[i].route = s[i].route
      BY <1>1, <1>4, <1>5, <1>6, <2>1, <2>2
    <3> QED BY <3>1
  <2>3. CASE i # Len(s)
    <3>1. i \in 1..Len(s) - 1 /\ i + 1 \in 1..Len(s)
      BY <1>1, <2>1, <2>3
    <3>2. a[i + 1].from = s[i + 1].from /\ a[i].route = s[i].route
      BY <1>5, <1>6, <2>1, <3>1
    <3> QED BY <1>1, <3>1, <3>2
  <2> QED BY <2>2, <2>3
<1>9. r \in Seq(EntryOf) /\ Len(r) <= MaxVisits
  BY <1>6, LatestIs
<1>10. PICK k \in Nat : EndOf(r, a, k) /\ (k # 0 => Len(r) = MaxVisits)
  BY <1>6, LatestIs
<1> HIDE DEF r
<1>11. LastOpen(r)
  BY <1>6, <1>7, <1>9, <1>10, EndKeepsOpen
<1>12. \A i \in 1..Len(r) - 1 : r[i + 1].from \in {"unknown", r[i].route}
  <2> SUFFICES ASSUME NEW i \in 1..Len(r) - 1 PROVE r[i + 1].from \in {"unknown", r[i].route}
    OBVIOUS
  <2>1. /\ Len(r) = Len(a) - k /\ Len(r) \in Nat /\ Len(a) \in Nat /\ i \in 1..Len(r) /\ i + 1 \in 1..Len(r)
    BY <1>1, <1>6, <1>9, <1>10 DEF EndOf
  <2>2. r[i] = a[i + k] /\ r[i + 1] = a[(i + 1) + k]
    BY <1>10, <2>1 DEF EndOf
  <2>3. i + k \in 1..Len(a) - 1 /\ (i + 1) + k = (i + k) + 1
    BY <2>1
  <2> QED BY <1>8, <2>2, <2>3
<1>13. r # <<>> /\ r[1].from # "unknown" => Len(r) = MaxVisits
  <2> SUFFICES ASSUME r # <<>>, r[1].from # "unknown", k = 0 PROVE Len(r) = MaxVisits
    BY <1>10
  <2>1. Len(r) = Len(a) /\ 1 \in 1..Len(r) /\ r[1] = a[1]
    <3>1. Len(r) = Len(a) - 0 /\ 1 \in 1..Len(r)
      BY <1>9, <1>10 DEF EndOf
    <3>2. r[1] = a[1 + 0]
      BY <1>10, <3>1 DEF EndOf
    <3> QED BY <1>1, <1>6, <3>1, <3>2
  <2>2. s # <<>>
    <3> SUFFICES ASSUME s = <<>> PROVE FALSE
      OBVIOUS
    <3>1. Len(s) = 0 /\ a[1] = v
      BY <1>6
    <3> QED BY <1>4, <2>1, <3>1
  <2>3. 1 \in 1..Len(s) /\ a[1].from = s[1].from
    BY <1>1, <1>5, <1>6, <2>2
  <2>4. Len(s) = MaxVisits
    BY <1>1, <2>1, <2>2, <2>3
  <2> QED BY <1>1, <1>6, <1>9, <2>1, <2>4
<1>14. BufferOK(r)
  BY <1>9, <1>11, <1>12, <1>13 DEF BufferOK
<1> QED BY <1>2, <1>14 DEF r, a

-----------------------------------------------------------------------------
(* The steps of the calls and of the app.                                  *)

LEMMA StoresAre ==
  /\ StoreOK(Nav!NoStore)
  /\ \A s : BufferOK(s) => StoreOK([mode |-> "listener", entries |-> s])
  /\ StoreOK([mode |-> "sampled", entries |-> <<>>])
  /\ BufferOK(<<>>)
<1>1. BufferOK(<<>>)
  BY TrailAssumption DEF BufferOK, LastOpen
<1> QED BY <1>1 DEF StoreOK, Nav!NoStore

LEMMA InstalledOK ==
  ASSUME StoreOK(store), place \in PlaceOf
  PROVE  StoreOK(Nav!Installed)
<1>1. BufferOK(<<>>) /\ StoreOK([mode |-> "sampled", entries |-> <<>>])
  BY StoresAre
<1>2. BufferOK(Nav!Recorded(<<>>, place))
  BY <1>1, RecordedOK
<1>3. StoreOK([mode |-> "listener", entries |-> Nav!Recorded(<<>>, place)])
  BY <1>2, StoresAre
<1> QED BY <1>1, <1>3 DEF Nav!Installed

LEMMA RouteStart == NavOff \/ Nav!Init => RouteInv
<1>1. AskOK(Nav!Unasked)
  BY PlacesAre, StoresAre DEF AskOK, AskFields, Nav!Unasked, Nav!Args
<1>2. TrailOK(<<>>)
  BY DEF TrailOK, LastOpen
<1>3. StoreOK(Nav!NoStore) /\ StoreOK([mode |-> "sampled", entries |-> <<>>]) /\ MaxRuns \in Nat
  BY StoresAre, TrailAssumption
<1>4. ASSUME NavOff PROVE RouteInv
  <2>1. DOMAIN nav = Callers /\ \A c \in Callers : nav[c] = Nav!Unasked
    BY <1>4 DEF NavOff
  <2>2. DOMAIN sampled = Nav!Args /\ \A a \in Nav!Args : TrailOK(sampled[a])
    BY <1>2, <1>4 DEF NavOff
  <2> QED BY <1>1, <1>3, <1>4, <2>1, <2>2, PlacesAre DEF NavOff, RouteInv
<1>5. ASSUME Nav!Init PROVE RouteInv
  <2>1. PICK s \in Settings : nav = [c \in Callers |-> [Nav!Unasked EXCEPT !.op = s.ops[c]]]
    BY <1>5 DEF Nav!Init
  <2>2. ASSUME NEW c \in Callers PROVE AskOK(nav[c])
    <3>1. PICK o : o = s.ops[c]
      OBVIOUS
    <3>2. nav[c] = [Nav!Unasked EXCEPT !.op = o]
      BY <2>1, <3>1
    <3>3. AskOK([Nav!Unasked EXCEPT !.op = o])
      BY <1>1, PlacesAre, StoresAre DEF AskOK, AskFields, Nav!Unasked
    <3> QED BY <3>2, <3>3
  <2>3. DOMAIN nav = Callers
    BY <2>1
  <2>4. DOMAIN sampled = Nav!Args /\ \A a \in Nav!Args : TrailOK(sampled[a])
    BY <1>2, <1>5 DEF Nav!Init
  <2>5. place \in PlaceOf /\ heading \in PlaceOf /\ epoch \in Nat /\ StoreOK(store)
    BY <1>3, <1>5, PlacesAre DEF Nav!Init
  <2> QED BY <2>2, <2>3, <2>4, <2>5 DEF RouteInv
<1> QED BY <1>4, <1>5

\* A step of one call leaves the others' records.
LEMMA OneAsk ==
  ASSUME RouteInv, NEW c \in Callers, DOMAIN nav' = Callers, AskOK(nav'[c]),
         \A o \in Callers : o # c => nav'[o] = nav[o]
  PROVE  DOMAIN nav' = Callers /\ \A o \in Callers : AskOK(nav'[o])
BY DEF RouteInv

LEMMA AsksKeep ==
  ASSUME RouteInv, NEW c \in Callers, NEW step, NEW g, StoreOK(g), nav[c].pc # "done",
         nav' = [nav EXCEPT ![c].pc = step, ![c].got = g]
  PROVE  DOMAIN nav' = Callers /\ \A o \in Callers : AskOK(nav'[o])
<1>1. DOMAIN nav = Callers /\ AskOK(nav[c])
  BY DEF RouteInv
<1>2. /\ DOMAIN nav' = Callers /\ \A o \in Callers : o # c => nav'[o] = nav[o]
      /\ nav'[c] = [nav[c] EXCEPT !.pc = step, !.got = g]
  BY <1>1
<1>3. AskOK([nav[c] EXCEPT !.pc = step, !.got = g])
  BY <1>1 DEF AskOK, AskFields
<1> QED BY <1>2, <1>3, OneAsk

LEMMA MoveKeeps ==
  ASSUME RouteInv, NEW p \in PlaceOf, Nav!Move(p)
  PROVE  place' \in PlaceOf /\ StoreOK(store') /\ UNCHANGED <<epoch, sampled, nav>>
<1>1. place' = p /\ UNCHANGED <<epoch, sampled, nav>>
  BY DEF Nav!Move
<1>2. StoreOK(store) /\ BufferOK(store.entries)
  BY DEF RouteInv, StoreOK
<1>3. BufferOK(Nav!Recorded(store.entries, p))
  BY <1>2, RecordedOK
<1>4. store' = IF store.mode = "listener" THEN [store EXCEPT !.entries = Nav!Recorded(@, p)] ELSE store
  BY DEF Nav!Move
<1>5. PICK b : b = Nav!Recorded(store.entries, p)
  OBVIOUS
<1>6. store' = store \/ store' = [store EXCEPT !.entries = b]
  BY <1>4, <1>5
<1>7. StoreOK([store EXCEPT !.entries = b])
  BY <1>2, <1>3, <1>5 DEF StoreOK
<1> QED BY <1>1, <1>2, <1>6, <1>7

LEMMA RouteNext == RouteInv /\ (Nav!Next \/ UNCHANGED routeVars) => RouteInv'
<1> SUFFICES ASSUME RouteInv, Nav!Next \/ UNCHANGED routeVars PROVE RouteInv'
  OBVIOUS
<1>0. /\ place \in PlaceOf /\ heading \in PlaceOf /\ epoch \in Nat /\ StoreOK(store)
      /\ DOMAIN sampled = Nav!Args /\ \A a \in Nav!Args : TrailOK(sampled[a])
      /\ DOMAIN nav = Callers /\ \A c \in Callers : AskOK(nav[c])
  BY DEF RouteInv
\* What a step leaves alone keeps what was known of it.
<1>a. ASSUME UNCHANGED sampled PROVE DOMAIN sampled' = Nav!Args /\ \A a \in Nav!Args : TrailOK(sampled'[a])
  BY <1>0, <1>a
<1>b. ASSUME UNCHANGED nav PROVE DOMAIN nav' = Callers /\ \A c \in Callers : AskOK(nav'[c])
  BY <1>0, <1>b
<1>c. ASSUME place' \in PlaceOf, heading' \in PlaceOf, epoch' \in Nat, StoreOK(store'),
             DOMAIN sampled' = Nav!Args, \A a \in Nav!Args : TrailOK(sampled'[a]),
             DOMAIN nav' = Callers, \A c \in Callers : AskOK(nav'[c])
      PROVE  RouteInv'
  BY <1>c DEF RouteInv
<1>d. \A p \in Places \union {Nav!Nowhere} : p \in PlaceOf
  BY PlacesAre
<1>1. CASE UNCHANGED routeVars
  BY <1>0, <1>1, <1>a, <1>b, <1>c DEF routeVars
<1>2. CASE Nav!UserMoves
  <2>1. PICK p \in Nav!Registered : Nav!Move(p) /\ UNCHANGED heading
    BY <1>2 DEF Nav!UserMoves
  <2>2. p \in PlaceOf
    BY <1>d, <2>1 DEF Nav!Registered
  <2> QED BY <1>0, <1>a, <1>b, <1>c, <2>1, <2>2, MoveKeeps
<1>3. CASE Nav!Arrives
  <2>1. Nav!Move(heading) /\ heading' \in PlaceOf
    BY <1>3, <1>d DEF Nav!Arrives
  <2> QED BY <1>0, <1>a, <1>b, <1>c, <2>1, MoveKeeps
<1>4. CASE Nav!Bounced
  <2>1. heading' \in PlaceOf /\ UNCHANGED <<place, store, epoch, sampled, nav>>
    BY <1>4, <1>d DEF Nav!Bounced
  <2> QED BY <1>0, <1>a, <1>b, <1>c, <2>1
<1>5. CASE Nav!Restart
  <2>1. heading' = Nav!Nowhere /\ place' = Nav!Nowhere /\ store' = Nav!NoStore /\ UNCHANGED <<epoch, sampled, nav>>
    BY <1>5 DEF Nav!Restart
  <2>2. StoreOK(store')
    BY <2>1, StoresAre
  <2> QED BY <1>0, <1>a, <1>b, <1>c, <1>d, <2>1, <2>2
<1>6. CASE Nav!Notice
  <2>1. epoch' \in Nat /\ UNCHANGED <<place, heading, store, sampled, nav>>
    BY <1>0, <1>6 DEF Nav!Notice, Nav!theApp
  <2> QED BY <1>0, <1>a, <1>b, <1>c, <2>1
<1>7. CASE Nav!ConnectInstalls
  <2>1. store' = Nav!Installed /\ UNCHANGED <<place, heading, epoch, sampled, nav>>
    BY <1>7 DEF Nav!ConnectInstalls
  <2>2. StoreOK(store')
    BY <1>0, <2>1, InstalledOK
  <2> QED BY <1>0, <1>a, <1>b, <1>c, <2>1, <2>2
<1>8. ASSUME NEW c \in Callers, Nav!CallStep(c) PROVE RouteInv'
  <2>0. AskOK(nav[c])
    BY <1>0
  <2>1. CASE Nav!Begin(c)
    <3>1. PICK p \in Places \union {Nav!Nowhere} : nav' = [nav EXCEPT ![c].pc = "asking", ![c].to = p]
      BY <2>1 DEF Nav!Begin
    <3>2. nav[c].pc = "idle" /\ UNCHANGED <<place, heading, store, epoch, sampled>>
      BY <2>1 DEF Nav!Begin, Nav!theApp
    <3>3. /\ DOMAIN nav' = Callers /\ \A o \in Callers : o # c => nav'[o] = nav[o]
          /\ nav'[c] = [nav[c] EXCEPT !.pc = "asking", !.to = p]
      BY <1>0, <3>1
    <3>4. AskOK([nav[c] EXCEPT !.pc = "asking", !.to = p])
      BY <1>d, <2>0, <3>2 DEF AskOK, AskFields
    <3>5. DOMAIN nav' = Callers /\ \A o \in Callers : AskOK(nav'[o])
      BY <3>3, <3>4, OneAsk
    <3> QED BY <1>0, <1>a, <1>c, <3>2, <3>5
  <2>2. CASE Nav!Walked(c)
    <3>1. PICK arg \in Nav!Args : nav' = [nav EXCEPT ![c].pc = "walked", ![c].arg = arg, ![c].at = place]
      BY <2>2 DEF Nav!Walked
    <3>2. nav[c].pc = "idle" /\ UNCHANGED <<place, heading, store, epoch, sampled>>
      BY <2>2 DEF Nav!Walked, Nav!theApp
    <3>3. /\ DOMAIN nav' = Callers /\ \A o \in Callers : o # c => nav'[o] = nav[o]
          /\ nav'[c] = [nav[c] EXCEPT !.pc = "walked", !.arg = arg, !.at = place]
      BY <1>0, <3>1
    <3>4. AskOK([nav[c] EXCEPT !.pc = "walked", !.arg = arg, !.at = place])
      BY <1>0, <2>0, <3>2 DEF AskOK, AskFields
    <3>5. DOMAIN nav' = Callers /\ \A o \in Callers : AskOK(nav'[o])
      BY <3>3, <3>4, OneAsk
    <3> QED BY <1>0, <1>a, <1>c, <3>2, <3>5
  <2>3. CASE Nav!Sample(c)
    <3> DEFINE arg == nav[c].arg
               e   == Nav!EpochOf(arg)
    <3>1. nav[c].pc = "walked" /\ UNCHANGED <<place, heading, store, epoch>>
      BY <2>3 DEF Nav!Sample, Nav!theApp
    <3>2. arg \in Nav!Args /\ e \in Nat /\ nav[c].at \in PlaceOf
      BY <1>0, <2>0 DEF AskOK, Nav!EpochOf
    <3>3. sampled' = IF nav[c].at = Nav!Nowhere THEN sampled
                     ELSE [sampled EXCEPT ![arg] = Nav!Sampled(@, nav[c].at[1], e)]
      BY <2>3 DEF Nav!Sample
    <3>4. PICK step \in {"read", "done"} : nav' = [nav EXCEPT ![c].pc = step, ![c].epoch = e]
      BY <2>3 DEF Nav!Sample
    <3>5. DOMAIN sampled' = Nav!Args /\ \A a \in Nav!Args : TrailOK(sampled'[a])
      <4>1. nav[c].at[1] \in Names /\ TrailOK(sampled[arg])
        BY <1>0, <3>2 DEF PlaceOf
      <4>2. PICK t : t = Nav!Sampled(sampled[arg], nav[c].at[1], e)
        OBVIOUS
      <4>3. TrailOK(t)
        BY <3>2, <4>1, <4>2, SampledOK
      <4>4. sampled' = sampled \/ sampled' = [sampled EXCEPT ![arg] = t]
        BY <3>3, <4>2
      <4> QED BY <1>0, <3>2, <4>3, <4>4
    <3> HIDE DEF e
    <3>6. /\ DOMAIN nav' = Callers /\ \A o \in Callers : o # c => nav'[o] = nav[o]
          /\ nav'[c] = [nav[c] EXCEPT !.pc = step, !.epoch = e]
      BY <1>0, <3>4
    <3>7. AskOK([nav[c] EXCEPT !.pc = step, !.epoch = e])
      BY <2>0, <3>1, <3>2 DEF AskOK, AskFields
    <3>8. DOMAIN nav' = Callers /\ \A o \in Callers : AskOK(nav'[o])
      BY <3>6, <3>7, OneAsk
    <3> QED BY <1>0, <1>c, <3>1, <3>5, <3>8
  <2>4. CASE Nav!Evaluated(c)
    <3>1. nav[c].pc \in {"read", "again"} /\ UNCHANGED <<place, heading, store, epoch, sampled>>
      BY <2>4 DEF Nav!Evaluated, Nav!theApp
    <3>2. PICK heard \in {store, Nav!NoStore} :
             Nav!Asks(c, IF nav[c].pc = "read" THEN "told" ELSE "told again", heard)
      BY <2>4 DEF Nav!Evaluated
    <3>3. StoreOK(heard)
      BY <1>0, <3>2, StoresAre
    <3>4. PICK step : nav' = [nav EXCEPT ![c].pc = step, ![c].got = heard]
      BY <3>2 DEF Nav!Asks
    <3>5. DOMAIN nav' = Callers /\ \A o \in Callers : AskOK(nav'[o])
      BY <3>1, <3>3, <3>4, AsksKeep
    <3> QED BY <1>0, <1>a, <1>c, <3>1, <3>5
  <2>5. CASE Nav!Merge(c)
    <3> DEFINE arg == nav[c].arg
    <3>1. nav[c].pc \in {"told", "told again"} /\ UNCHANGED <<place, heading, store, epoch>>
      BY <2>5 DEF Nav!Merge, Nav!theApp
    <3>2. arg \in Nav!Args /\ nav[c].epoch \in Nat /\ BufferOK(nav[c].got.entries)
      BY <2>0 DEF AskOK, StoreOK
    <3>3. PICK t : t = Nav!Merged(sampled[arg], nav[c].got.entries, nav[c].epoch)
      OBVIOUS
    <3>4. sampled' = [sampled EXCEPT ![arg] = t]
      BY <2>5, <3>3 DEF Nav!Merge
    <3>5. TrailOK(t)
      BY <1>0, <3>2, <3>3, MergedOK
    <3>6. DOMAIN sampled' = Nav!Args /\ \A a \in Nav!Args : TrailOK(sampled'[a])
      BY <1>0, <3>2, <3>4, <3>5
    <3>7. nav' = [nav EXCEPT ![c].pc = "done", ![c].got = Nav!NoStore]
      BY <2>5 DEF Nav!Merge, Nav!Asks
    <3>8. DOMAIN nav' = Callers /\ \A o \in Callers : AskOK(nav'[o])
      BY <3>1, <3>7, AsksKeep, StoresAre
    <3> QED BY <1>0, <1>c, <3>1, <3>6, <3>8
  <2>6. CASE Nav!Install(c)
    <3>1. nav[c].pc = "told" /\ store' = Nav!Installed /\ UNCHANGED <<place, heading, epoch, sampled>>
      BY <2>6 DEF Nav!Install
    <3>2. StoreOK(store')
      BY <1>0, <3>1, InstalledOK
    <3>3. PICK step : nav' = [nav EXCEPT ![c].pc = step, ![c].got = Nav!NoStore]
      BY <2>6 DEF Nav!Install, Nav!Asks
    <3>4. DOMAIN nav' = Callers /\ \A o \in Callers : AskOK(nav'[o])
      BY <3>1, <3>3, AsksKeep, StoresAre
    <3> QED BY <1>0, <1>a, <1>c, <3>1, <3>2, <3>4
  <2>7. CASE Nav!Fallback(c)
    <3>1. nav[c].pc \in {"told", "told again"} /\ UNCHANGED <<place, heading, store, epoch, sampled>>
      BY <2>7 DEF Nav!Fallback, Nav!theApp
    <3>2. nav' = [nav EXCEPT ![c].pc = "done", ![c].got = Nav!NoStore]
      BY <2>7 DEF Nav!Fallback, Nav!Asks
    <3>3. DOMAIN nav' = Callers /\ \A o \in Callers : AskOK(nav'[o])
      BY <3>1, <3>2, AsksKeep, StoresAre
    <3> QED BY <1>0, <1>a, <1>c, <3>1, <3>3
  <2>8. CASE Nav!Dispatch(c)
    <3>1. nav[c].pc = "asking" /\ UNCHANGED <<place, store, epoch, sampled>>
      BY <2>8 DEF Nav!Dispatch
    <3>2. nav[c].answer = "none"
      BY <2>0, <3>1 DEF AskOK
    <3>3. CASE nav' = [nav EXCEPT ![c].pc = "done", ![c].answer = "error"] /\ UNCHANGED heading
      <4>1. /\ DOMAIN nav' = Callers /\ \A o \in Callers : o # c => nav'[o] = nav[o]
            /\ nav'[c] = [nav[c] EXCEPT !.pc = "done", !.answer = "error"]
        BY <1>0, <3>3
      <4>2. AskOK([nav[c] EXCEPT !.pc = "done", !.answer = "error"])
        BY <2>0 DEF AskOK, AskFields
      <4>3. DOMAIN nav' = Callers /\ \A o \in Callers : AskOK(nav'[o])
        BY <4>1, <4>2, OneAsk
      <4> QED BY <1>0, <1>a, <1>c, <3>1, <3>3, <4>3
    <3>4. CASE /\ nav' = [nav EXCEPT ![c].pc = "poll", ![c].was = Nav!Read, ![c].at = Nav!Read]
               /\ heading' \in Nav!Targets(c)
      <4>0. PICK r : r = Nav!Read
        OBVIOUS
      <4>1. r \in PlaceOf
        BY <1>0, <1>d, <4>0 DEF Nav!Read
      <4>2. /\ DOMAIN nav' = Callers /\ \A o \in Callers : o # c => nav'[o] = nav[o]
            /\ nav'[c] = [nav[c] EXCEPT !.pc = "poll", !.was = r, !.at = r]
        BY <1>0, <3>4, <4>0
      <4>3. AskOK([nav[c] EXCEPT !.pc = "poll", !.was = r, !.at = r])
        BY <2>0, <3>2, <4>1 DEF AskOK, AskFields
      <4>4. DOMAIN nav' = Callers /\ \A o \in Callers : AskOK(nav'[o])
        BY <4>2, <4>3, OneAsk
      <4>5. heading' \in PlaceOf
        BY <1>0, <1>d, <3>4 DEF Nav!Targets, Nav!Registered
      <4> QED BY <1>0, <1>a, <1>c, <3>1, <4>4, <4>5
    <3> QED BY <2>8, <3>3, <3>4 DEF Nav!Dispatch
  <2>9. CASE Nav!Poll(c)
    <3>1. nav[c].pc = "poll" /\ UNCHANGED <<place, heading, store, epoch, sampled>>
      BY <2>9 DEF Nav!Poll, Nav!theApp
    <3>2. PICK heard \in BOOLEAN :
             LET at      == IF heard THEN Nav!Read ELSE nav[c].at
                 settled == heard \/ nav[c].settled
                 over    == nav[c].polls + 1 = NavPolls \/ (heard /\ Nav!Identity(at) # Nav!Identity(nav[c].was))
             IN  nav' = [nav EXCEPT ![c].polls = @ + 1, ![c].at = at, ![c].settled = settled,
                                    ![c].pc = IF over THEN "done" ELSE "poll",
                                    ![c].answer = IF over THEN Nav!Outcome(c, settled, at) ELSE "none"]
      BY <2>9 DEF Nav!Poll
    <3> DEFINE at_      == IF heard THEN Nav!Read ELSE nav[c].at
               settled_ == heard \/ nav[c].settled
               over_    == nav[c].polls + 1 = NavPolls \/ (heard /\ Nav!Identity(at_) # Nav!Identity(nav[c].was))
    <3>3. PICK at, settled, step, told_, polls :
             /\ at = at_ /\ settled = settled_ /\ polls = nav[c].polls + 1
             /\ step = IF over_ THEN "done" ELSE "poll"
             /\ told_ = IF over_ THEN Nav!Outcome(c, settled_, at_) ELSE "none"
      OBVIOUS
    <3>4. at \in PlaceOf
      BY <1>0, <1>d, <2>0, <3>3 DEF Nav!Read, AskOK
    <3>5. /\ told_ # "none" => step = "done"
          /\ told_ = "unchanged" => at = nav[c].was
          /\ told_ = "changed" => at # nav[c].was
      BY <3>3 DEF Nav!Outcome, Nav!Identity
    <3>6. nav' = [nav EXCEPT ![c].polls = polls, ![c].at = at, ![c].settled = settled,
                             ![c].pc = step, ![c].answer = told_]
      BY <3>2, <3>3, Zenon
    <3> HIDE DEF at_, settled_, over_
    <3>7. /\ DOMAIN nav' = Callers /\ \A o \in Callers : o # c => nav'[o] = nav[o]
          /\ nav'[c] = [nav[c] EXCEPT !.polls = polls, !.at = at, !.settled = settled,
                                      !.pc = step, !.answer = told_]
      BY <1>0, <3>6
    <3>8. AskOK([nav[c] EXCEPT !.polls = polls, !.at = at, !.settled = settled, !.pc = step, !.answer = told_])
      BY <2>0, <3>4, <3>5 DEF AskOK, AskFields
    <3>9. DOMAIN nav' = Callers /\ \A o \in Callers : AskOK(nav'[o])
      BY <3>7, <3>8, OneAsk
    <3> QED BY <1>0, <1>a, <1>c, <3>1, <3>9
  <2> QED BY <1>8, <2>1, <2>2, <2>3, <2>4, <2>5, <2>6, <2>7, <2>8, <2>9 DEF Nav!CallStep
<1> QED BY <1>1, <1>2, <1>3, <1>4, <1>5, <1>6, <1>7, <1>8 DEF Nav!Next

LEMMA RouteTells == RouteInv => TrailTrue
<1> SUFFICES ASSUME RouteInv PROVE TrailTrue
  OBVIOUS
<1>1. \A a \in Nav!Args : TrailOK(sampled[a])
  BY DEF RouteInv
<1>2. Nav!OneCurrent
  BY <1>1 DEF Nav!OneCurrent, TrailOK, LastOpen
<1>3. Nav!FromIsPrevious
  <2> SUFFICES ASSUME NEW a \in Nav!Args, NEW i \in 2..Len(sampled[a])
               PROVE  LET v == sampled[a][i]  u == sampled[a][i - 1]
                      IN  v.from \in {"unknown"} \union (IF u.epoch = v.epoch THEN {u.route} ELSE {})
    BY DEF Nav!FromIsPrevious
  <2>1. PICK s : s = sampled[a]
    OBVIOUS
  <2>2. TrailOK(s) /\ Len(s) \in Nat
    BY <1>1, <2>1 DEF TrailOK
  <2>3. i - 1 \in 1..Len(s) - 1 /\ (i - 1) + 1 = i
    BY <2>1, <2>2
  <2>4. Joins(s[i - 1], s[i])
    BY <2>2, <2>3 DEF TrailOK
  <2> QED BY <2>1, <2>4 DEF Joins
<1>4. Nav!ChangedTrue
  BY DEF RouteInv, AskOK, Nav!ChangedTrue
<1> QED BY <1>2, <1>3, <1>4 DEF TrailTrue

-----------------------------------------------------------------------------
(* Induction over the naturals, and what it tells of sequences.            *)

LEMMA Induction ==
  ASSUME NEW S, 0 \in S, \A n \in Nat : n \in S => n + 1 \in S
  PROVE  Nat \subseteq S
<1> SUFFICES ASSUME Nat \ S # {} PROVE FALSE
  OBVIOUS
<1>1. PICK m \in Nat \ S : \A n \in Nat \ S : m <= n
  BY LeastNumber
<1>2. m # 0 /\ m - 1 \in Nat /\ (m - 1) + 1 = m
  BY <1>1
<1>3. m - 1 \in S
  BY <1>1, <1>2
<1> QED BY <1>1, <1>2, <1>3

\* The first n lists of s in one, for each n.
Joined(g, n, s) ==
    /\ g = [i \in 1..n |-> g[i]]
    /\ \A i \in 1..n : g[i] = IF i = 1 THEN s[i] ELSE g[i - 1] \o s[i]

LEMMA JoinedExists ==
  ASSUME NEW s, NEW n \in Nat
  PROVE  \E g : Joined(g, n, s)
<1> DEFINE S == {m \in Nat : \E g : Joined(g, m, s)}
<1>1. 0 \in S
  <2> DEFINE none == [i \in 1..0 |-> 0]
  <2>1. Joined(none, 0, s)
    BY DEF Joined
  <2> QED BY <2>1
<1>2. ASSUME NEW m \in Nat, m \in S PROVE m + 1 \in S
  <2>1. PICK g : Joined(g, m, s)
    BY <1>2
  <2>2. PICK last : last = IF m = 0 THEN s[1] ELSE g[m] \o s[m + 1]
    OBVIOUS
  <2>3. PICK h : h = [i \in 1..m + 1 |-> IF i = m + 1 THEN last ELSE g[i]]
    OBVIOUS
  <2>4. DOMAIN h = 1..m + 1 /\ h[m + 1] = last /\ \A i \in 1..m : h[i] = g[i]
    BY <2>3
  <2>5. ASSUME NEW i \in 1..m + 1 PROVE h[i] = IF i = 1 THEN s[i] ELSE h[i - 1] \o s[i]
    <3>1. CASE i = m + 1
      <4>1. CASE m = 0
        BY <2>2, <2>4, <3>1, <4>1
      <4>2. CASE m # 0
        <5>1. h[m] = g[m] /\ i - 1 = m /\ i # 1
          BY <2>4, <3>1, <4>2
        <5> QED BY <2>2, <2>4, <3>1, <4>2, <5>1
      <4> QED BY <4>1, <4>2
    <3>2. CASE i \in 1..m
      <4>1. g[i] = IF i = 1 THEN s[i] ELSE g[i - 1] \o s[i]
        BY <2>1, <3>2 DEF Joined
      <4>2. h[i] = g[i] /\ (i # 1 => h[i - 1] = g[i - 1])
        BY <2>4, <3>2
      <4> QED BY <4>1, <4>2
    <3> QED BY <3>1, <3>2
  <2>6. Joined(h, m + 1, s)
    <3>1. h = [i \in 1..m + 1 |-> h[i]]
      BY <2>3
    <3> QED BY <2>5, <3>1 DEF Joined
  <2> QED BY <2>6
<1> HIDE DEF S
<1>3. n \in S
  BY <1>1, <1>2, Induction
<1> QED BY <1>3 DEF S

\* FlattenSeq adds no element of its own.
\* What FlattenSeq makes is the last of the joined lists, and there is but one.
LEMMA FlatIs ==
  ASSUME NEW s, Len(s) \in Nat \ {0}, NEW g, Joined(g, Len(s), s)
  PROVE  State!FlattenSeq(s) = g[Len(s)]
<1> DEFINE F(h) == [i \in 1..Len(s) |-> IF i = 1 THEN s[i] ELSE h[i - 1] \o s[i]]
<1>1. g = F(g)
  <2>1. g = [i \in 1..Len(s) |-> g[i]]
    BY DEF Joined
  <2>2. \A i \in 1..Len(s) : g[i] = IF i = 1 THEN s[i] ELSE g[i - 1] \o s[i]
    BY DEF Joined
  <2> QED BY <2>1, <2>2
<1>2. PICK f : f = CHOOSE h : h = F(h)
  OBVIOUS
<1>3. State!FlattenSeq(s) = f[Len(s)]
  BY <1>2 DEF State!FlattenSeq
<1>4. f = F(f)
  <2> HIDE DEF F
  <2> QED BY <1>1, <1>2
<1>5. \A i \in 1..Len(s) : f[i] = IF i = 1 THEN s[i] ELSE f[i - 1] \o s[i]
  <2>1. PICK h : h = F(f)
    OBVIOUS
  <2>2. \A i \in 1..Len(s) : h[i] = IF i = 1 THEN s[i] ELSE f[i - 1] \o s[i]
    BY <2>1
  <2>3. h = f
    BY <1>4, <2>1
  <2> QED BY <2>2, <2>3
<1> DEFINE Same == {n \in Nat : n \in 1..Len(s) => f[n] = g[n]}
<1>6. 0 \in Same
  OBVIOUS
<1>7. ASSUME NEW n \in Nat, n \in Same PROVE n + 1 \in Same
  <2> SUFFICES ASSUME n + 1 <= Len(s) PROVE f[n + 1] = g[n + 1]
    OBVIOUS
  <2>0. n + 1 \in 1..Len(s) /\ (n + 1) - 1 = n /\ (n + 1 = 1 <=> n = 0)
    OBVIOUS
  <2>1. f[n + 1] = IF n = 0 THEN s[n + 1] ELSE f[n] \o s[n + 1]
    BY <1>5, <2>0
  <2>2. g[n + 1] = IF n = 0 THEN s[n + 1] ELSE g[n] \o s[n + 1]
    BY <2>0 DEF Joined
  <2>3. n # 0 => f[n] = g[n]
    BY <1>7
  <2> QED BY <2>1, <2>2, <2>3
<1> HIDE DEF Same, F
<1>8. Len(s) \in Same
  BY <1>6, <1>7, Induction
<1> QED BY <1>3, <1>8 DEF Same

\* w is u and then v.
Halves(u, v, w) ==
    /\ Len(u) \in Nat /\ Len(v) \in Nat /\ Len(w) = Len(u) + Len(v)
    /\ \A k \in 1..Len(u) : k \in 1..Len(w) /\ w[k] = u[k]
    /\ \A k \in 1..Len(v) : Len(u) + k \in 1..Len(w) /\ w[Len(u) + k] = v[k]
    /\ \A k \in 1..Len(w) : k > Len(u) => k - Len(u) \in 1..Len(v) /\ w[k] = v[k - Len(u)]

LEMMA Concat ==
  ASSUME NEW E, NEW u \in Seq(E), NEW v \in Seq(E), NEW w, w = u \o v
  PROVE  Halves(u, v, w)
<1>1. w \in Seq(E) /\ Len(u) \in Nat /\ Len(v) \in Nat /\ Len(w) = Len(u) + Len(v)
  OBVIOUS
<1>2. ASSUME NEW k \in 1..Len(w) PROVE w[k] = IF k <= Len(u) THEN u[k] ELSE v[k - Len(u)]
  BY <1>1
<1>3. ASSUME NEW k \in 1..Len(u) PROVE k \in 1..Len(w) /\ w[k] = u[k]
  <2>1. k \in 1..Len(w) /\ k <= Len(u)
    BY <1>1
  <2> QED BY <1>2, <2>1
<1>4. ASSUME NEW k \in 1..Len(v) PROVE Len(u) + k \in 1..Len(w) /\ w[Len(u) + k] = v[k]
  <2>1. Len(u) + k \in 1..Len(w) /\ ~(Len(u) + k <= Len(u)) /\ (Len(u) + k) - Len(u) = k
    BY <1>1
  <2> QED BY <1>2, <2>1
<1>5. ASSUME NEW k \in 1..Len(w), k > Len(u)
      PROVE  k - Len(u) \in 1..Len(v) /\ w[k] = v[k - Len(u)]
  <2>1. k - Len(u) \in 1..Len(v) /\ ~(k <= Len(u))
    BY <1>1, <1>5
  <2> QED BY <1>2, <2>1
<1> QED BY <1>1, <1>3, <1>4, <1>5 DEF Halves

\* The joined lists of s, each a list of E.
Parts(g, s, E) ==
    /\ Len(s) \in Nat
    /\ \A n \in 1..Len(s) : /\ s[n] \in Seq(E) /\ g[n] \in Seq(E)
                            /\ n = 1 => g[n] = s[n]
                            /\ n > 1 => g[n] = g[n - 1] \o s[n]

LEMMA PartsExist ==
  ASSUME NEW E, NEW s \in Seq(Seq(E)), NEW g, Joined(g, Len(s), s)
  PROVE  Parts(g, s, E)
<1>1. Len(s) \in Nat
  OBVIOUS
<1>2. \A i \in 1..Len(s) : s[i] \in Seq(E)
  OBVIOUS
<1>3. \A i \in 1..Len(s) : g[i] = IF i = 1 THEN s[i] ELSE g[i - 1] \o s[i]
  BY DEF Joined
<1> DEFINE S == {n \in Nat : n \in 1..Len(s) => g[n] \in Seq(E)}
<1>4. 0 \in S
  OBVIOUS
<1>5. ASSUME NEW n \in Nat, n \in S PROVE n + 1 \in S
  <2> SUFFICES ASSUME n + 1 \in 1..Len(s) PROVE g[n + 1] \in Seq(E)
    OBVIOUS
  <2>1. s[n + 1] \in Seq(E) /\ (n + 1) - 1 = n /\ (n + 1 = 1 <=> n = 0)
    BY <1>2
  <2>2. g[n + 1] = IF n = 0 THEN s[n + 1] ELSE g[n] \o s[n + 1]
    BY <1>3, <2>1
  <2>3. n # 0 => g[n] \in Seq(E)
    BY <1>1, <1>5
  <2> QED BY <2>1, <2>2, <2>3
<1> HIDE DEF S
<1>6. Nat \subseteq S
  BY <1>4, <1>5, Induction
<1>7. \A n \in 1..Len(s) : g[n] \in Seq(E)
  BY <1>1, <1>6 DEF S
<1>8. ASSUME NEW n \in 1..Len(s)
      PROVE  /\ s[n] \in Seq(E) /\ g[n] \in Seq(E)
             /\ n = 1 => g[n] = s[n]
             /\ n > 1 => g[n] = g[n - 1] \o s[n]
  <2>1. PICK c : c = g[n - 1] \o s[n]
    OBVIOUS
  <2>2. g[n] = IF n = 1 THEN s[n] ELSE c
    BY <1>3, <2>1
  <2>3. s[n] \in Seq(E) /\ g[n] \in Seq(E)
    BY <1>2, <1>7
  <2>4. n = 1 => g[n] = s[n]
    BY <2>2
  <2>5. n > 1 => g[n] = c
    BY <1>1, <2>2
  <2> QED BY <2>1, <2>3, <2>4, <2>5
<1> QED BY <1>1, <1>8, Zenon DEF Parts

\* Behind the first q lists is what is of later ones.
Behind(g, s, q, n) ==
    \A k \in 1..Len(g[n]) : \/ q # 0 /\ k <= Len(g[q])
                            \/ \E j \in q + 1..n : \E p \in 1..Len(s[j]) : g[n][k] = s[j][p]

LEMMA BehindThem ==
  ASSUME NEW E, NEW s, NEW g, Parts(g, s, E), NEW q \in 0..Len(s)
  PROVE  \A n \in 1..Len(s) : n >= q => Behind(g, s, q, n)
<1>1. Len(s) \in Nat
  BY DEF Parts
<1> DEFINE S == {n \in Nat : n \in 1..Len(s) /\ n >= q => Behind(g, s, q, n)}
<1>2. 0 \in S
  OBVIOUS
<1>3. ASSUME NEW n \in Nat, n \in S PROVE n + 1 \in S
  <2> SUFFICES ASSUME n + 1 \in 1..Len(s), n + 1 >= q PROVE Behind(g, s, q, n + 1)
    OBVIOUS
  <2> SUFFICES ASSUME NEW k \in 1..Len(g[n + 1])
               PROVE  \/ q # 0 /\ k <= Len(g[q])
                      \/ \E j \in q + 1..n + 1 : \E p \in 1..Len(s[j]) : g[n + 1][k] = s[j][p]
    BY DEF Behind
  <2>1. CASE n + 1 = q
    <3>1. q # 0 /\ k <= Len(g[q])
      <4>1. g[q] \in Seq(E)
        BY <2>1 DEF Parts
      <4> QED BY <2>1, <4>1
    <3> QED BY <3>1
  <2>2. CASE n + 1 # q /\ n = 0
    <3>1. n + 1 = 1 /\ q = 0 /\ n + 1 \in q + 1..n + 1
      BY <1>1, <2>2
    <3>2. g[n + 1] = s[n + 1]
      BY <3>1 DEF Parts
    <3> QED BY <3>1, <3>2
  <2>3. CASE n + 1 # q /\ n # 0
    <3>1. n \in 1..Len(s) /\ n >= q /\ n + 1 \in q + 1..n + 1 /\ n + 1 > 1 /\ (n + 1) - 1 = n
      BY <1>1, <2>3
    <3>2. g[n + 1] = g[n] \o s[n + 1] /\ g[n] \in Seq(E) /\ s[n + 1] \in Seq(E)
      BY <3>1 DEF Parts
    <3>9. Halves(g[n], s[n + 1], g[n + 1])
      BY <3>2, Concat
    <3>3. CASE k <= Len(g[n])
      <4>1. k \in 1..Len(g[n])
        BY <3>2, <3>3
      <4>2. g[n + 1][k] = g[n][k]
        BY <3>9, <4>1 DEF Halves
      <4>3. \/ q # 0 /\ k <= Len(g[q])
            \/ \E j \in q + 1..n : \E p \in 1..Len(s[j]) : g[n][k] = s[j][p]
        BY <1>3, <3>1, <4>1 DEF Behind
      <4>4. q + 1..n \subseteq q + 1..n + 1
        BY <1>1
      <4> QED BY <4>2, <4>3, <4>4
    <3>4. CASE k > Len(g[n])
      <4>1. k - Len(g[n]) \in 1..Len(s[n + 1]) /\ g[n + 1][k] = s[n + 1][k - Len(g[n])]
        BY <3>4, <3>9 DEF Halves
      <4> QED BY <3>1, <4>1
    <3>5. Len(g[n]) \in Nat /\ k \in Int
      <4>1. Len(g[n]) \in Nat
        BY <3>2
      <4>2. g[n + 1] \in Seq(E)
        BY DEF Parts
      <4>3. Len(g[n + 1]) \in Nat
        BY <4>2
      <4> QED BY <4>1, <4>3
    <3> QED BY <3>3, <3>4, <3>5
  <2> QED BY <2>1, <2>2, <2>3
<1> HIDE DEF S
<1>4. Nat \subseteq S
  BY <1>2, <1>3, Induction
<1> QED BY <1>1, <1>4 DEF S

\* Everything in a list is somewhere.
Gathers(g, s, n) == \A j \in 1..n : \A p \in 1..Len(s[j]) : \E k \in 1..Len(g[n]) : g[n][k] = s[j][p]

LEMMA GathersThem ==
  ASSUME NEW E, NEW s, NEW g, Parts(g, s, E)
  PROVE  \A n \in 1..Len(s) : Gathers(g, s, n)
<1>1. Len(s) \in Nat
  BY DEF Parts
<1> DEFINE S == {n \in Nat : n \in 1..Len(s) => Gathers(g, s, n)}
<1>2. 0 \in S
  OBVIOUS
<1>3. ASSUME NEW n \in Nat, n \in S PROVE n + 1 \in S
  <2> SUFFICES ASSUME n + 1 \in 1..Len(s), NEW j \in 1..n + 1, NEW p \in 1..Len(s[j])
               PROVE  \E k \in 1..Len(g[n + 1]) : g[n + 1][k] = s[j][p]
    BY DEF Gathers
  <2>1. CASE n = 0
    <3>1. n + 1 = 1 /\ j = n + 1
      BY <2>1
    <3>2. g[n + 1] = s[n + 1]
      BY <3>1 DEF Parts
    <3> QED BY <3>1, <3>2
  <2>2. CASE n # 0
    <3>1. n \in 1..Len(s) /\ n + 1 > 1 /\ (n + 1) - 1 = n
      BY <1>1, <2>2
    <3>2. g[n + 1] = g[n] \o s[n + 1] /\ g[n] \in Seq(E) /\ s[n + 1] \in Seq(E)
      BY <3>1 DEF Parts
    <3>9. Halves(g[n], s[n + 1], g[n + 1])
      BY <3>2, Concat
    <3>3. CASE j = n + 1
      <4>1. Len(g[n]) + p \in 1..Len(g[n + 1]) /\ g[n + 1][Len(g[n]) + p] = s[n + 1][p]
        BY <3>3, <3>9 DEF Halves
      <4> QED BY <3>3, <4>1
    <3>4. CASE j # n + 1
      <4>1. j \in 1..n
        BY <3>4
      <4>2. PICK k \in 1..Len(g[n]) : g[n][k] = s[j][p]
        BY <1>3, <3>1, <4>1 DEF Gathers
      <4>3. k \in 1..Len(g[n + 1]) /\ g[n + 1][k] = g[n][k]
        BY <3>9 DEF Halves
      <4> QED BY <4>2, <4>3
    <3> QED BY <3>3, <3>4
  <2> QED BY <2>1, <2>2
<1> HIDE DEF S
<1>4. Nat \subseteq S
  BY <1>2, <1>3, Induction
<1> QED BY <1>1, <1>4 DEF S

\* The first n of some lists.
First(s, n) == [i \in 1..n |-> s[i]]

LEMMA FirstIs ==
  ASSUME NEW E, NEW s \in Seq(Seq(E)), NEW g, Joined(g, Len(s), s), NEW n \in 1..Len(s)
  PROVE  State!FlattenSeq(First(s, n)) = g[n]
<1>1. Len(s) \in Nat /\ Parts(g, s, E)
  BY PartsExist
<1>2. PICK t : t = First(s, n)
  OBVIOUS
<1>3. Len(t) = n /\ n \in Nat \ {0} /\ \A i \in 1..n : t[i] = s[i] /\ i \in 1..Len(s)
  <2>1. t = [i \in 1..n |-> s[i]]
    BY <1>2 DEF First
  <2>2. \A i \in 1..n : i \in 1..Len(s)
    BY <1>1
  <2>3. t \in Seq(Seq(E)) /\ Len(t) = n
    BY <1>1, <2>1, <2>2 DEF Parts
  <2> QED BY <1>1, <2>1, <2>2, <2>3
<1>4. PICK h : h = [i \in 1..n |-> g[i]]
  OBVIOUS
<1>5. Joined(h, n, t)
  <2>1. h = [i \in 1..n |-> h[i]]
    BY <1>4
  <2>2. ASSUME NEW i \in 1..n PROVE h[i] = IF i = 1 THEN t[i] ELSE h[i - 1] \o t[i]
    <3>1. h[i] = g[i] /\ t[i] = s[i] /\ i \in 1..Len(s)
      BY <1>3, <1>4
    <3>2. i # 1 => i - 1 \in 1..n
      BY <1>3
    <3>3. i # 1 => h[i - 1] = g[i - 1]
      BY <1>4, <3>2
    <3>4. g[i] = IF i = 1 THEN s[i] ELSE g[i - 1] \o s[i]
      BY <3>1 DEF Joined
    <3> QED BY <3>1, <3>3, <3>4
  <2> QED BY <2>1, <2>2 DEF Joined
<1>6. State!FlattenSeq(t) = h[n]
  <2>1. Joined(h, Len(t), t) /\ Len(t) \in Nat \ {0}
    BY <1>3, <1>5
  <2>2. State!FlattenSeq(t) = h[Len(t)]
    BY <2>1, FlatIs
  <2> QED BY <1>3, <2>2
<1>7. h[n] = g[n]
  BY <1>3, <1>4
<1> QED BY <1>2, <1>6, <1>7

\* FlattenSeq of the first lists is a prefix of that of all: what is behind it is
\* of later lists, and everything in a list is somewhere.
Pieces(E, s, m, t, u) ==
    /\ t \in Seq(E) /\ Len(t) \in Nat /\ Len(u) \in Nat
    /\ \A k \in 1..Len(t) :
          k <= Len(u) \/ \E j \in m + 1..Len(s) : \E p \in 1..Len(s[j]) : t[k] = s[j][p]
    /\ \A k \in 1..Len(t) : \E j \in 1..Len(s) : \E p \in 1..Len(s[j]) : t[k] = s[j][p]
    /\ \A j \in 1..Len(s) : \A p \in 1..Len(s[j]) : \E k \in 1..Len(t) : t[k] = s[j][p]

LEMMA FlatPieces ==
  ASSUME NEW E, NEW s \in Seq(Seq(E)), NEW m \in 0..Len(s),
         NEW t, t = State!FlattenSeq(s), NEW u, u = State!FlattenSeq(First(s, m))
  PROVE  Pieces(E, s, m, t, u)
<1>0. Len(s) \in Nat
  OBVIOUS
<1>1. PICK g : Joined(g, Len(s), s)
  BY <1>0, JoinedExists
<1>2. Parts(g, s, E)
  BY <1>1, PartsExist
<1>3. Len(u) \in Nat /\ (m # 0 => u = g[m] /\ m \in 1..Len(s))
  <2>1. CASE m = 0
    <3>1. First(s, m) = <<>>
      BY <2>1 DEF First
    <3>2. u = <<>>
      BY <3>1 DEF State!FlattenSeq
    <3> QED BY <2>1, <3>2
  <2>2. CASE m # 0
    <3>1. m \in 1..Len(s)
      BY <1>0, <2>2
    <3>2. u = g[m]
      BY <1>1, <3>1, FirstIs
    <3>3. g[m] \in Seq(E)
      BY <1>2, <3>1 DEF Parts
    <3> QED BY <3>1, <3>2, <3>3
  <2> QED BY <2>1, <2>2
<1>4. CASE Len(s) = 0
  <2>1. t = <<>> /\ Len(t) = 0
    <3>1. s = <<>>
      BY <1>4
    <3>2. t = <<>>
      BY <3>1 DEF State!FlattenSeq
    <3> QED BY <3>2
  <2> QED BY <1>3, <1>4, <2>1 DEF Pieces
<1>5. CASE Len(s) # 0
  <2>1. Len(s) \in 1..Len(s) /\ Len(s) \in Nat \ {0} /\ Len(s) >= m /\ 0 \in 0..Len(s) /\ Len(s) >= 0
    BY <1>0, <1>5
  <2>2. t = g[Len(s)] /\ t \in Seq(E)
    BY <1>1, <1>2, <2>1, FlatIs DEF Parts
  <2>3. Behind(g, s, m, Len(s)) /\ Behind(g, s, 0, Len(s))
    <3>1. Behind(g, s, m, Len(s))
      BY <1>2, <2>1, BehindThem
    <3>2. Behind(g, s, 0, Len(s))
      BY <1>2, <2>1, BehindThem
    <3> QED BY <3>1, <3>2
  <2>4. Gathers(g, s, Len(s))
    BY <1>2, <2>1, GathersThem
  <2>5. \A k \in 1..Len(t) :
            k <= Len(u) \/ \E j \in m + 1..Len(s) : \E p \in 1..Len(s[j]) : t[k] = s[j][p]
    <3>1. \A k \in 1..Len(t) : \/ m # 0 /\ k <= Len(g[m])
                              \/ \E j \in m + 1..Len(s) : \E p \in 1..Len(s[j]) : t[k] = s[j][p]
      BY <2>2, <2>3 DEF Behind
    <3>2. m # 0 => u = g[m]
      BY <1>3
    <3> QED BY <3>1, <3>2
  <2>6. \A k \in 1..Len(t) : \E j \in 0 + 1..Len(s) : \E p \in 1..Len(s[j]) : t[k] = s[j][p]
    BY <2>2, <2>3 DEF Behind
  <2>7. 0 + 1..Len(s) = 1..Len(s)
    BY <1>0
  <2>8. \A j \in 1..Len(s) : \A p \in 1..Len(s[j]) : \E k \in 1..Len(t) : t[k] = s[j][p]
    BY <2>2, <2>4 DEF Gathers
  <2>9. Len(t) \in Nat
    BY <2>2
  <2>10. \A k \in 1..Len(t) : \E j \in 1..Len(s) : \E p \in 1..Len(s[j]) : t[k] = s[j][p]
    BY <2>6, <2>7
  <2> QED BY <1>3, <2>2, <2>5, <2>8, <2>9, <2>10 DEF Pieces
<1> QED BY <1>4, <1>5

-----------------------------------------------------------------------------
(* get_screen_state: the frames an answer names.                           *)

WalkFrames(g) ==
    g = State!Nothing \/ /\ DOMAIN g = {"by", "scene", "frames"} /\ g.scene \in Scenes
                         /\ DOMAIN g.frames = State!Slots(g.scene)

SlotInv ==
    /\ scene \in Scenes \/ \A r \in Readers : reader[r] = "absent"
    /\ DOMAIN reader = Readers /\ DOMAIN taken = Readers
    /\ WalkFrames(globals) /\ \A r \in Readers : WalkFrames(taken[r])
    /\ \A r \in Readers : reader[r] = "done" => taken[r] # State!Nothing

LEMMA SlotStart == StateOff \/ State!Init => SlotInv
<1>1. CASE StateOff
  BY <1>1 DEF StateOff, SlotInv, WalkFrames
<1>2. CASE State!Init
  <2>1. PICK first \in Readers :
           reader = [r \in Readers |-> IF r = first \/ scene \in Watched THEN "idle" ELSE "absent"]
    BY <1>2 DEF State!Init
  <2>2. \A r \in Readers : reader[r] # "done"
    BY <2>1
  <2> QED BY <1>2, <2>1, <2>2 DEF State!Init, SlotInv, WalkFrames
<1> QED BY <1>1, <1>2

LEMMA SlotNext == SlotInv /\ (State!Next \/ UNCHANGED stateVars) => SlotInv'
<1> SUFFICES ASSUME SlotInv, State!Next \/ UNCHANGED stateVars PROVE SlotInv'
  OBVIOUS
<1>0. /\ scene \in Scenes \/ \A r \in Readers : reader[r] = "absent"
      /\ DOMAIN reader = Readers /\ DOMAIN taken = Readers
      /\ WalkFrames(globals) /\ \A r \in Readers : WalkFrames(taken[r])
      /\ \A r \in Readers : reader[r] = "done" => taken[r] # State!Nothing
  BY DEF SlotInv
<1>b. WalkFrames(State!Nothing)
  BY DEF WalkFrames
<1>1. CASE UNCHANGED stateVars
  BY <1>0, <1>1 DEF stateVars, SlotInv, WalkFrames
<1>2. ASSUME NEW r \in Readers, State!Dispatch(r) PROVE SlotInv'
  <2>0. reader[r] = "idle" /\ UNCHANGED <<scene, taken>> /\ scene \in Scenes
    BY <1>0, <1>2 DEF State!Dispatch
  <2>1. CASE scene.nodes = <<>>
    <3>1. reader' = [reader EXCEPT ![r] = "error"] /\ UNCHANGED globals
      BY <1>2, <2>1 DEF State!Dispatch
    <3> QED BY <1>0, <2>0, <3>1 DEF SlotInv, WalkFrames
  <2>2. CASE scene.nodes # <<>>
    <3>1. /\ reader' = [reader EXCEPT ![r] = "waiting"]
          /\ globals' = [by |-> r, scene |-> scene,
                         frames |-> [x \in State!Slots(scene) |-> State!Missing]]
      BY <1>2, <2>2 DEF State!Dispatch
    <3>2. WalkFrames(globals')
      BY <2>0, <3>1 DEF WalkFrames
    <3> QED BY <1>0, <2>0, <3>1, <3>2 DEF SlotInv
  <2> QED BY <2>1, <2>2
<1>3. ASSUME NEW r \in Readers, State!Resolve(r) \/ State!ResolveLost(r) PROVE SlotInv'
  <2>1. CASE State!Resolve(r)
    <3>0. reader[r] = "waiting" /\ UNCHANGED scene
      BY <2>1 DEF State!Resolve
    <3>1. /\ taken' = [taken EXCEPT ![r] = globals] /\ globals' = State!Nothing
          /\ reader' = [reader EXCEPT ![r] = IF globals = State!Nothing THEN "empty" ELSE "done"]
      BY <2>1 DEF State!Resolve, State!Cleared
    <3>2. /\ WalkFrames(globals') /\ \A q \in Readers : WalkFrames(taken'[q])
          /\ DOMAIN taken' = Readers /\ DOMAIN reader' = Readers
      BY <1>0, <1>b, <3>1
    <3>3. \A q \in Readers : reader'[q] = "done" => taken'[q] # State!Nothing
      BY <1>0, <3>1
    <3>4. scene \in Scenes
      BY <1>0, <3>0
    <3> QED BY <3>0, <3>2, <3>3, <3>4 DEF SlotInv, State!Nothing
  <2>2. CASE State!ResolveLost(r)
    <3>1. /\ reader[r] = "waiting" /\ globals' = State!Nothing /\ UNCHANGED <<scene, taken>>
          /\ reader' = [reader EXCEPT ![r] = "error"]
      BY <2>2 DEF State!ResolveLost
    <3> QED BY <1>0, <1>b, <3>1 DEF SlotInv, State!Nothing
  <2> QED BY <1>3, <2>1, <2>2
<1>4. ASSUME NEW m \in pending, State!Measure(m) PROVE SlotInv'
  <2>1. /\ globals # State!Nothing /\ UNCHANGED <<scene, reader, taken>>
        /\ globals' = IF m.slot \in DOMAIN globals.frames
                      THEN [globals EXCEPT !.frames[m.slot] = m.frame] ELSE globals
    BY <1>4 DEF State!Measure
  <2>2. /\ DOMAIN globals = {"by", "scene", "frames"} /\ globals.scene \in Scenes
        /\ DOMAIN globals.frames = State!Slots(globals.scene)
    BY <1>0, <2>1 DEF WalkFrames
  <2>3. /\ DOMAIN globals' = {"by", "scene", "frames"} /\ globals'.scene = globals.scene
        /\ DOMAIN globals'.frames = DOMAIN globals.frames
    BY <2>1, <2>2
  <2>4. WalkFrames(globals')
    BY <2>2, <2>3 DEF WalkFrames
  <2> QED BY <1>0, <2>1, <2>4 DEF SlotInv
<1>5. CASE State!Navigate
  <2>1. scene' \in Scenes /\ UNCHANGED <<globals, reader, taken>>
    BY <1>5, ScreenAssumption DEF State!Navigate
  <2> QED BY <1>0, <2>1 DEF SlotInv, WalkFrames
<1> QED BY <1>1, <1>2, <1>3, <1>4, <1>5 DEF State!Next

SceneNode == [role : {"marked", "press", "switch", "input", "text"}, skip : STRING,
           pinned : BOOLEAN, box : [top : Int, size : Int]]

\* What is collected is an element of the scene, and no text.
HostEntry(s) == {e \in [node : 1..Len(s.nodes), by : {"press", "marker", "switch", "input"}] :
                 s.nodes[e.node].role # "text"}

LEMMA EntriesAre ==
  ASSUME NEW s, s.nodes \in Seq(SceneNode)
  PROVE  State!Entries(s) \in Seq(HostEntry(s))
<1>0. Len(s.nodes) \in Nat /\ \A i \in 1..Len(s.nodes) : s.nodes[i] \in SceneNode
  OBVIOUS
<1>1. ASSUME NEW i \in 1..Len(s.nodes) PROVE State!EntriesOf(s, i) \in Seq(HostEntry(s))
  <2>1. CASE s.nodes[i].role = "text"
    BY <2>1 DEF State!EntriesOf
  <2>2. CASE s.nodes[i].role # "text"
    <3> DEFINE Ways == {"press", "marker", "switch", "input"}
    <3>1. ASSUME NEW by \in Ways PROVE <<[node |-> i, by |-> by]>> \in Seq(HostEntry(s))
      <4>1. [node |-> i, by |-> by] \in HostEntry(s)
        BY <2>2, <3>1 DEF HostEntry
      <4> QED BY <4>1
    <3>2. s.nodes[i].role \in {"marked", "press", "switch", "input"}
      BY <1>0, <2>2 DEF SceneNode
    <3>3. /\ <<[node |-> i, by |-> "press"]>> \in Seq(HostEntry(s))
          /\ <<[node |-> i, by |-> "marker"]>> \in Seq(HostEntry(s))
      BY <3>1
    <3>5. s.nodes[i].role # "marked" => <<[node |-> i, by |-> s.nodes[i].role]>> \in Seq(HostEntry(s))
      BY <3>1, <3>2
    <3>4. <<[node |-> i, by |-> "press"]>> \o <<[node |-> i, by |-> "marker"]>> \in Seq(HostEntry(s))
      BY <3>3
    <3> QED BY <3>3, <3>4, <3>5 DEF State!EntriesOf
  <2> QED BY <2>1, <2>2
<1>2. [i \in 1..Len(s.nodes) |-> State!EntriesOf(s, i)] \in Seq(Seq(HostEntry(s)))
  BY <1>0, <1>1
<1>3. PICK t : t = State!FlattenSeq([i \in 1..Len(s.nodes) |-> State!EntriesOf(s, i)])
  OBVIOUS
<1>4. PICK u : u = State!FlattenSeq(First([i \in 1..Len(s.nodes) |-> State!EntriesOf(s, i)], 0))
  OBVIOUS
<1>5. 0 \in 0..Len([i \in 1..Len(s.nodes) |-> State!EntriesOf(s, i)])
  BY <1>0
<1>6. Pieces(HostEntry(s), [i \in 1..Len(s.nodes) |-> State!EntriesOf(s, i)], 0, t, u)
  BY <1>2, <1>3, <1>4, <1>5, FlatPieces
<1> QED BY <1>3, <1>6 DEF Pieces, State!Entries, State!EntriesUpTo

LEMMA SlotTells == SlotInv => State!FrameTruth
<1> SUFFICES ASSUME SlotInv, NEW a \in State!Answers, State!Unmixed(a), State!Arrived(a, {"sheet"}),
                    NEW k \in State!Shown(a)
             PROVE  LET i == State!Entries(a.scene)[k].node
                    IN  \/ State!HostBox(a, k) = State!Drawn(a.scene, i)
                        \/ State!Tagged(a, i, State!HostBox(a, k))
  BY DEF State!FrameTruth
<1>1. /\ a.scene \in Scenes /\ DOMAIN a.frames = State!Slots(a.scene)
  BY DEF SlotInv, WalkFrames, State!Answers
<1>2. PICK s : s = a.scene
  OBVIOUS
<1>3. /\ s.inset \in Nat /\ s.inset < Height - 1 /\ s.nodes \in Seq(SceneNode) /\ Height \in Nat
  BY <1>1, <1>2, ScreenAssumption DEF SceneNode
<1>4. PICK es : es = State!Entries(s)
  OBVIOUS
<1>5. es \in Seq(HostEntry(s)) /\ Len(es) \in Nat
  BY <1>3, <1>4, EntriesAre
<1>6. k \in 1..Len(es)
  BY <1>2, <1>4, <1>5 DEF State!Shown, State!Listed
<1>7. PICK i : i = es[k].node
  OBVIOUS
<1>8. i \in 1..Len(s.nodes) /\ s.nodes[i].role # "text"
  BY <1>5, <1>6, <1>7 DEF HostEntry
<1>9. /\ s.nodes[i].box = [top |-> s.nodes[i].box.top, size |-> s.nodes[i].box.size]
      /\ s.nodes[i].box.top \in Int /\ s.nodes[i].box.size \in Int
  <2>1. s.nodes[i] \in SceneNode
    BY <1>3, <1>8
  <2>2. s.nodes[i].box \in [top : Int, size : Int]
    BY <2>1 DEF SceneNode
  <2> QED BY <2>2
<1>10. State!Has(a, State!Root(s)) /\ State!Viewport(a) = Height
  <2>1. State!Root(s) \in DOMAIN a.frames
    BY <1>1, <1>2, <1>4, <1>5 DEF State!Slots, State!Root
  <2> QED BY <1>2, <2>1 DEF State!Arrived, State!Viewport
<1>11. a.frames[<<"host", k>>] = State!Reported(s, i)
  <2>1. <<"host", k>> \in DOMAIN a.frames
    BY <1>1, <1>2, <1>4, <1>5, <1>6 DEF State!Slots
  <2>2. State!Has(a, <<"host", k>>)
    BY DEF State!Shown, State!Listed, State!HostKept
  <2>3. a.frames[<<"host", k>>] = State!Frame(s, <<"host", k>>)
    BY <1>2, <2>1, <2>2 DEF State!Unmixed, State!Has
  <2>4. <<"host", k>> # State!Root(s)
    BY <1>4, <1>5, <1>6 DEF State!Root
  <2> QED BY <1>4, <1>7, <2>3, <2>4 DEF State!Frame
<1>12. State!InSheet(s, i) => State!SheetShift(a) = s.inset
  <2> SUFFICES ASSUME State!InSheet(s, i) PROVE State!SheetShift(a) = s.inset
    OBVIOUS
  <2>1. <<"sheet", 1>> \in DOMAIN a.frames
    BY <1>1, <1>2 DEF State!Slots, State!InSheet
  <2>2. State!Has(a, <<"sheet", 1>>)
    BY <2>1 DEF State!Arrived
  <2>3. a.frames[<<"sheet", 1>>] = State!Frame(s, <<"sheet", 1>>)
    BY <1>2, <2>1, <2>2 DEF State!Unmixed, State!Has
  <2>4. State!Frame(s, <<"sheet", 1>>) = [top |-> 0, size |-> Height - s.inset]
    BY DEF State!Frame, State!Root, State!Box
  <2> QED BY <1>3, <1>10, <2>1, <2>2, <2>3, <2>4 DEF State!SheetShift, State!Bottom
<1>13. State!HostBox(a, k) = IF State!InSheet(s, i)
                             THEN [top |-> State!Reported(s, i).top + s.inset, size |-> State!Reported(s, i).size]
                             ELSE State!Reported(s, i)
  BY <1>2, <1>4, <1>7, <1>11, <1>12 DEF State!HostBox, State!Shifted, State!Box
<1>14. CASE ~s.nodes[i].pinned
  <2>1. State!Reported(s, i) = IF State!InSheet(s, i)
                               THEN [top |-> s.nodes[i].box.top - s.inset, size |-> s.nodes[i].box.size]
                               ELSE s.nodes[i].box
    BY <1>8, <1>14 DEF State!Reported, State!Box
  <2>2. State!Drawn(s, i) = s.nodes[i].box
    BY <1>14 DEF State!Drawn
  <2>3. CASE State!InSheet(s, i)
    <3>1. State!HostBox(a, k) = [top |-> (s.nodes[i].box.top - s.inset) + s.inset, size |-> s.nodes[i].box.size]
      BY <1>13, <2>1, <2>3
    <3>2. State!HostBox(a, k) = s.nodes[i].box
      BY <1>3, <1>9, <3>1
    <3> QED BY <1>2, <1>4, <1>7, <2>2, <3>2
  <2>4. CASE ~State!InSheet(s, i)
    BY <1>2, <1>4, <1>7, <1>13, <2>1, <2>2, <2>4
  <2> QED BY <2>3, <2>4
<1>15. CASE s.nodes[i].pinned
  <2>1. State!Reported(s, i) = [top |-> -Height, size |-> 1]
    BY <1>15 DEF State!Reported, State!Box
  <2>2. PICK b : b = State!HostBox(a, k)
    OBVIOUS
  <2>3. b.size = 1 /\ (b.top = -Height \/ b.top = -Height + s.inset)
    BY <1>13, <2>1, <2>2
  <2>4. State!Bottom(b) < 0
    BY <1>3, <2>3 DEF State!Bottom
  <2> QED BY <1>2, <1>4, <1>7, <1>15, <2>2, <2>4 DEF State!Tagged, State!OffViewport
<1> QED BY <1>14, <1>15

-----------------------------------------------------------------------------
(* get_screen_state: what is listed, and what is offered.                  *)

BoxType == [top : Int, size : Int]

\* The hull of two boxes, or of one of them, holds each.
LEMMA HullHolds ==
  ASSUME NEW p \in BoxType, NEW q \in BoxType, NEW B, B \subseteq {p, q}, NEW b \in B
  PROVE  /\ State!Inside(b, State!Hull(B))
         /\ State!Hull(B).top \in Int /\ State!Bottom(State!Hull(B)) \in Int
<1> DEFINE T == {c.top : c \in B}
           L == {State!Bottom(c) : c \in B}
<1>1. b \in BoxType /\ \A c \in B : c.top \in Int /\ State!Bottom(c) \in Int
  BY DEF BoxType, State!Bottom
<1>2. \E x \in T : \A y \in T : x =< y
  <2>1. CASE p \in B /\ q \in B /\ p.top <= q.top
    <3>1. p.top \in T /\ \A c \in B : p.top <= c.top
      BY <1>1, <2>1
    <3> QED BY <3>1
  <2>2. CASE p \in B /\ q \in B /\ ~(p.top <= q.top)
    <3>1. q.top \in T /\ \A c \in B : q.top <= c.top
      BY <1>1, <2>2
    <3> QED BY <3>1
  <2>3. CASE ~(p \in B /\ q \in B)
    <3>1. b.top \in T /\ \A c \in B : c = b
      BY <2>3
    <3> QED BY <1>1, <3>1
  <2> QED BY <2>1, <2>2, <2>3
<1>3. \E x \in L : \A y \in L : x >= y
  <2>1. CASE p \in B /\ q \in B /\ State!Bottom(p) >= State!Bottom(q)
    <3>1. State!Bottom(p) \in L /\ \A c \in B : State!Bottom(p) >= State!Bottom(c)
      BY <1>1, <2>1
    <3> QED BY <3>1
  <2>2. CASE p \in B /\ q \in B /\ ~(State!Bottom(p) >= State!Bottom(q))
    <3>1. State!Bottom(q) \in L /\ \A c \in B : State!Bottom(q) >= State!Bottom(c)
      BY <1>1, <2>2
    <3> QED BY <3>1
  <2>3. CASE ~(p \in B /\ q \in B)
    <3>1. State!Bottom(b) \in L /\ \A c \in B : c = b
      BY <2>3
    <3> QED BY <1>1, <3>1
  <2> QED BY <2>1, <2>2, <2>3
<1>4. PICK t : t = State!Min(T)
  OBVIOUS
<1>5. t \in T /\ \A y \in T : t =< y
  BY <1>2, <1>4 DEF State!Min
<1>6. PICK l : l = State!Max(L)
  OBVIOUS
<1>7. l \in L /\ \A y \in L : l >= y
  BY <1>3, <1>6 DEF State!Max
<1>8. State!Hull(B) = [top |-> t, size |-> l - t]
  BY <1>4, <1>6 DEF State!Hull, State!Box
<1>9. t \in Int /\ l \in Int /\ t <= b.top /\ State!Bottom(b) <= l
  BY <1>1, <1>5, <1>7
<1>10. PICK h : h = State!Hull(B)
  OBVIOUS
<1>11. h.top = t /\ State!Bottom(h) = l
  <2>1. h.top = t /\ h.size = l - t
    BY <1>8, <1>10
  <2> QED BY <1>9, <2>1 DEF State!Bottom
<1> QED BY <1>1, <1>9, <1>10, <1>11 DEF State!Inside

LEMMA TwoOf ==
  ASSUME NEW x, NEW y, NEW w, w = <<x>> \o <<y>>
  PROVE  DOMAIN w = 1..2 /\ w[1] = x /\ w[2] = y
<1>1. PICK u : u = <<x>>
  OBVIOUS
<1>2. PICK v : v = <<y>>
  OBVIOUS
<1>3. u \in Seq({x, y}) /\ v \in Seq({x, y}) /\ w = u \o v
  BY <1>1, <1>2
<1>4. Len(u) = 1 /\ Len(v) = 1 /\ u[1] = x /\ v[1] = y
  BY <1>1, <1>2
<1>5. Halves(u, v, w)
  BY <1>3, Concat
<1>6. Len(w) = 2 /\ w[1] = u[1] /\ w[1 + 1] = v[1]
  BY <1>4, <1>5 DEF Halves
<1>7. DOMAIN w = 1..2
  <2>1. w \in Seq({x, y})
    BY <1>3
  <2> QED BY <1>6, <2>1
<1> QED BY <1>4, <1>6, <1>7

\* A scene the app can show.
SceneOK(s) ==
    /\ s.nodes \in Seq(SceneNode) /\ Height \in Nat \ {0, 1} /\ Far \in Nat /\ Far > 10 * Height
    /\ s.overlay.kind \in {"none", "named", "cover", "absolute"}
    /\ s.overlay.first \in 1..Len(s.nodes) + 1
    /\ s.overlay.panel \in BoxType /\ s.inset \in Nat /\ s.inset < Height - 1 /\ s.keyboard \in Int
    /\ s.overlay.kind = "cover" =>
          \A i \in DOMAIN s.nodes : i \in s.overlay.first..s.overlay.last =>
              s.nodes[i].box.top + s.nodes[i].box.size >= s.inset

LEMMA ScenesOK == \A s \in Scenes : SceneOK(s)
  BY ScreenAssumption DEF SceneOK, SceneNode, BoxType

\* What was collected is of a node, each node that can be is in it, and behind
\* overlayEnterIdx there is nothing that comes before the overlay.
LEMMA Collects ==
  ASSUME NEW s, SceneOK(s), NEW es, es = State!Entries(s)
  PROVE  /\ es \in Seq(HostEntry(s)) /\ Len(es) \in Nat /\ State!EnterIdx(s) \in Nat
         /\ \A k \in 1..Len(es) : k <= State!EnterIdx(s) \/ es[k].node >= s.overlay.first
         /\ \A i \in 1..Len(s.nodes) : s.nodes[i].skip = "none" /\ s.nodes[i].role # "text" =>
               \E k \in 1..Len(es) : es[k].node = i
<1>1. es \in Seq(HostEntry(s)) /\ Len(es) \in Nat
  BY EntriesAre DEF SceneOK
<1>2. Len(s.nodes) \in Nat /\ \A i \in 1..Len(s.nodes) : s.nodes[i] \in SceneNode
  BY DEF SceneOK
<1>3. PICK m : m = s.overlay.first - 1
  OBVIOUS
<1>4. m \in 0..Len(s.nodes)
  BY <1>2, <1>3 DEF SceneOK
<1> DEFINE Pair == {<<[node |-> i, by |-> b]>> : i \in 1..Len(s.nodes), b \in {"press", "marker", "switch", "input"}}
\* What is collected of a node is of it.
<1>5. ASSUME NEW i \in 1..Len(s.nodes)
      PROVE  /\ State!EntriesOf(s, i) \in Seq(HostEntry(s))
             /\ \A p \in 1..Len(State!EntriesOf(s, i)) : State!EntriesOf(s, i)[p].node = i
             /\ s.nodes[i].skip = "none" /\ s.nodes[i].role # "text" => Len(State!EntriesOf(s, i)) >= 1
  <2>1. PICK e : e = State!EntriesOf(s, i)
    OBVIOUS
  <2>2. CASE s.nodes[i].role = "text"
    <3>1. e = <<>>
      BY <2>1, <2>2 DEF State!EntriesOf
    <3> QED BY <2>1, <2>2, <3>1
  <2>3. CASE s.nodes[i].role # "text"
    <3>1. s.nodes[i].role \in {"marked", "press", "switch", "input"}
      BY <1>2, <2>3 DEF SceneNode
    <3>2. \A b \in {"press", "marker", "switch", "input"} : [node |-> i, by |-> b] \in HostEntry(s)
      BY <2>3 DEF HostEntry
    <3>3. e \in {<<>>, <<[node |-> i, by |-> "press"]>> \o <<[node |-> i, by |-> "marker"]>>,
                 <<[node |-> i, by |-> s.nodes[i].role]>>}
      BY <2>1 DEF State!EntriesOf
    <3>4. s.nodes[i].skip = "none" => e # <<>>
      <4> SUFFICES ASSUME s.nodes[i].skip = "none" PROVE e # <<>>
        OBVIOUS
      <4>1. e \in {<<[node |-> i, by |-> "press"]>> \o <<[node |-> i, by |-> "marker"]>>,
                   <<[node |-> i, by |-> s.nodes[i].role]>>}
        BY <2>1, <2>3 DEF State!EntriesOf
      <4> QED BY <4>1
    <3>5. CASE e = <<>>
      BY <2>1, <3>4, <3>5
    <3>6. CASE e = <<[node |-> i, by |-> "press"]>> \o <<[node |-> i, by |-> "marker"]>>
      <4> DEFINE P == <<[node |-> i, by |-> "press"]>>
                 M == <<[node |-> i, by |-> "marker"]>>
      <4>1. P \in Seq(HostEntry(s)) /\ M \in Seq(HostEntry(s)) /\ e \in Seq(HostEntry(s))
        BY <3>2, <3>6
      <4>5. PICK x : x = P
        OBVIOUS
      <4>6. PICK y : y = M
        OBVIOUS
      <4>7. Len(x) = 1 /\ Len(y) = 1 /\ x[1].node = i /\ y[1].node = i
        BY <4>5, <4>6
      <4> HIDE DEF P, M
      <4>8. Halves(x, y, e)
        BY <3>6, <4>1, <4>5, <4>6, Concat DEF P, M
      <4>9. Len(e) = 2 /\ 1 \in 1..Len(x) /\ 1 \in 1..Len(y)
        BY <4>7, <4>8 DEF Halves
      <4>10. e[1] = x[1] /\ e[1 + 1] = y[1]
        BY <4>7, <4>8, <4>9 DEF Halves
      <4>2. Len(e) = 2 /\ e[1].node = i /\ e[2].node = i /\ e \in Seq(HostEntry(s))
        BY <4>1, <4>7, <4>9, <4>10
      <4>3. \A p \in 1..2 : e[p].node = i
        BY <4>2
      <4> QED BY <2>1, <4>2, <4>3
    <3>7. CASE e = <<[node |-> i, by |-> s.nodes[i].role]>> /\ s.nodes[i].role # "marked"
      <4>1. [node |-> i, by |-> s.nodes[i].role] \in HostEntry(s)
        BY <3>1, <3>2, <3>7
      <4>2. Len(e) = 1 /\ e[1].node = i /\ e \in Seq(HostEntry(s))
        BY <3>7, <4>1
      <4> QED BY <2>1, <4>2
    <3>8. s.nodes[i].role = "marked" =>
             e \in {<<>>, <<[node |-> i, by |-> "press"]>> \o <<[node |-> i, by |-> "marker"]>>}
      BY <2>1 DEF State!EntriesOf
    <3> QED BY <3>3, <3>5, <3>6, <3>7, <3>8
  <2> QED BY <2>2, <2>3
<1>6. PICK ls : ls = [i \in 1..Len(s.nodes) |-> State!EntriesOf(s, i)]
  OBVIOUS
<1>7. ls \in Seq(Seq(HostEntry(s))) /\ Len(ls) = Len(s.nodes) /\ \A i \in 1..Len(s.nodes) : ls[i] = State!EntriesOf(s, i)
  BY <1>2, <1>5, <1>6
<1>8. es = State!FlattenSeq(ls)
  BY <1>6 DEF State!Entries, State!EntriesUpTo
<1>9. PICK u : u = State!FlattenSeq(First(ls, m))
  OBVIOUS
<1>10. State!EnterIdx(s) = Len(u)
  <2>1. First(ls, m) = [i \in 1..m |-> State!EntriesOf(s, i)]
    <3>1. \A i \in 1..m : i \in 1..Len(s.nodes)
      BY <1>2, <1>4
    <3> QED BY <1>7, <3>1 DEF First
  <2> QED BY <1>3, <1>9, <2>1 DEF State!EnterIdx, State!EntriesUpTo
<1>11. /\ Len(u) \in Nat
       /\ \A k \in 1..Len(es) :
             k <= Len(u) \/ \E j \in m + 1..Len(ls) : \E p \in 1..Len(ls[j]) : es[k] = ls[j][p]
       /\ \A j \in 1..Len(ls) : \A p \in 1..Len(ls[j]) : \E k \in 1..Len(es) : es[k] = ls[j][p]
  <2>1. m \in 0..Len(ls)
    BY <1>4, <1>7
  <2>2. Pieces(HostEntry(s), ls, m, es, u)
    BY <1>7, <1>8, <1>9, <2>1, FlatPieces
  <2> QED BY <2>2 DEF Pieces
<1>12. ASSUME NEW k \in 1..Len(es), ~(k <= Len(u)) PROVE es[k].node >= s.overlay.first
  <2>1. PICK j \in m + 1..Len(ls) : \E p \in 1..Len(ls[j]) : es[k] = ls[j][p]
    BY <1>11, <1>12
  <2>0. PICK p \in 1..Len(ls[j]) : es[k] = ls[j][p]
    BY <2>1
  <2>2. j \in 1..Len(s.nodes) /\ j >= s.overlay.first
    BY <1>2, <1>3, <1>4, <1>7 DEF SceneOK
  <2>3. es[k].node = j
    BY <1>5, <1>7, <2>0, <2>2
  <2> QED BY <2>2, <2>3
<1>13. ASSUME NEW i \in 1..Len(s.nodes), s.nodes[i].skip = "none", s.nodes[i].role # "text"
       PROVE  \E k \in 1..Len(es) : es[k].node = i
  <2>1. Len(ls[i]) >= 1 /\ ls[i] \in Seq(HostEntry(s)) /\ \A p \in 1..Len(ls[i]) : ls[i][p].node = i
    BY <1>5, <1>7, <1>13
  <2>2. 1 \in 1..Len(ls[i]) /\ i \in 1..Len(ls)
    BY <1>7, <2>1
  <2>3. PICK k \in 1..Len(es) : es[k] = ls[i][1]
    BY <1>11, <2>2
  <2> QED BY <2>1, <2>2, <2>3
<1> QED BY <1>1, <1>10, <1>11, <1>12, <1>13

LEMMA TextsAre ==
  ASSUME NEW s, SceneOK(s), NEW ts, ts = State!Texts(s)
  PROVE  /\ Len(ts) \in Nat
         /\ \A i \in 1..Len(s.nodes) : s.nodes[i].skip = "none" /\ s.nodes[i].role = "text" =>
               \E k \in 1..Len(ts) : ts[k] = i
<1>1. Len(s.nodes) \in Nat
  BY DEF SceneOK
<1>2. PICK ls : ls = [i \in 1..Len(s.nodes) |->
                         IF s.nodes[i].role = "text" /\ s.nodes[i].skip # "hidden" THEN <<i>> ELSE <<>>]
  OBVIOUS
<1>3. ls \in Seq(Seq(Nat)) /\ Len(ls) = Len(s.nodes)
  <2>1. \A i \in 1..Len(s.nodes) : <<i>> \in Seq(Nat) /\ <<>> \in Seq(Nat)
    BY <1>1
  <2>2. \A i \in 1..Len(s.nodes) : ls[i] \in Seq(Nat)
    BY <1>2, <2>1
  <2> QED BY <1>1, <1>2, <2>2
<1>4. ts = State!FlattenSeq(ls)
  BY <1>2 DEF State!Texts
<1>5. PICK u : u = State!FlattenSeq(First(ls, 0))
  OBVIOUS
<1>6. /\ Len(ts) \in Nat
      /\ \A j \in 1..Len(ls) : \A p \in 1..Len(ls[j]) : \E k \in 1..Len(ts) : ts[k] = ls[j][p]
  <2>1. 0 \in 0..Len(ls)
    BY <1>1, <1>3
  <2>2. Pieces(Nat, ls, 0, ts, u)
    BY <1>3, <1>4, <1>5, <2>1, FlatPieces
  <2> QED BY <2>2 DEF Pieces
<1>7. ASSUME NEW i \in 1..Len(s.nodes), s.nodes[i].skip = "none", s.nodes[i].role = "text"
      PROVE  \E k \in 1..Len(ts) : ts[k] = i
  <2>1. ls[i] = <<i>> /\ i \in 1..Len(ls)
    BY <1>2, <1>3, <1>7
  <2>2. 1 \in 1..Len(ls[i]) /\ ls[i][1] = i
    BY <2>1
  <2>3. PICK k \in 1..Len(ts) : ts[k] = ls[i][1]
    BY <1>6, <2>1, <2>2
  <2> QED BY <2>2, <2>3
<1> QED BY <1>6, <1>7

\* What is offered is under nothing: the overlay's own hosts have arrived, and whatever
\* they cover was collected before them.
LEMMA SlotReach == SlotInv => State!ReachableReached
<1> SUFFICES ASSUME SlotInv, NEW a \in State!Answers, State!OverlayKnown(a), NEW k \in State!Offered(a)
             PROVE  LET i == State!Entries(a.scene)[k].node
                    IN  \/ State!Tagged(a, i, State!HostBox(a, k))
                        \/ /\ ~State!Under(a.scene, i)
                           /\ a.scene.overlay.kind = "none" /\ ~a.scene.native
                                 => 2 * a.scene.keyboard > State!Centre2(State!Drawn(a.scene, i))
  BY DEF State!ReachableReached
<1>0. /\ State!Unmixed(a) /\ State!Arrived(a, {"overlay", "sheet"})
      /\ State!Geometric(a) /\ State!Hosts(a) # {} => State!FitsGate(a)
  BY DEF State!OverlayKnown
<1>1. /\ a.scene \in Scenes /\ DOMAIN a.frames = State!Slots(a.scene)
  BY DEF SlotInv, WalkFrames, State!Answers
<1>2. PICK s : s = a.scene
  OBVIOUS
<1>3. SceneOK(s)
  BY <1>1, <1>2, ScenesOK
<1>4. PICK es : es = State!Entries(s)
  OBVIOUS
<1>5. /\ es \in Seq(HostEntry(s)) /\ Len(es) \in Nat /\ State!EnterIdx(s) \in Nat
      /\ \A l \in 1..Len(es) : l <= State!EnterIdx(s) \/ es[l].node >= s.overlay.first
  BY <1>3, <1>4, Collects
<1>6. k \in State!Shown(a) /\ k \in State!Listed(a) /\ k \in 1..Len(es)
  <2>1. k \in State!Shown(a)
    BY DEF State!Offered
  <2> QED BY <1>2, <1>4, <1>5, <2>1 DEF State!Shown, State!Listed
<1>7. PICK i : i = es[k].node
  OBVIOUS
<1>8. i \in 1..Len(s.nodes) /\ Len(s.nodes) \in Nat
  BY <1>3, <1>5, <1>6, <1>7 DEF HostEntry, SceneOK
<1> SUFFICES ASSUME ~State!Tagged(a, i, State!HostBox(a, k))
             PROVE  /\ ~State!Under(s, i)
                    /\ s.overlay.kind = "none" /\ ~s.native
                          => 2 * s.keyboard > State!Centre2(State!Drawn(s, i))
  BY <1>2, <1>4, <1>7
<1>9. PICK d : d = State!Drawn(s, i)
  OBVIOUS
<1>10. State!HostBox(a, k) = d
  <2>1. State!FrameTruth
    BY SlotTells
  <2>2. State!Arrived(a, {"sheet"})
    BY <1>0 DEF State!Arrived
  <2> QED BY <1>0, <1>2, <1>4, <1>6, <1>7, <1>9, <2>1, <2>2 DEF State!FrameTruth
<1>11. d \in BoxType
  <2>1. s.nodes[i] \in SceneNode
    BY <1>3, <1>8 DEF SceneOK
  <2>2. s.nodes[i].box \in BoxType
    BY <2>1 DEF SceneNode, BoxType
  <2> QED BY <1>9, <2>2 DEF State!Drawn, State!Box, BoxType
<1>12. d.size > 0
  BY <1>2, <1>6, <1>10 DEF State!Listed, State!HostKept, State!Kept
<1>13. State!Has(a, State!Root(s)) /\ State!Viewport(a) = Height
  <2>1. State!Root(s) \in DOMAIN a.frames
    BY <1>1, <1>2, <1>4, <1>5 DEF State!Slots, State!Root
  <2> QED BY <1>0, <1>2, <2>1 DEF State!Arrived, State!Viewport
\* The frames of the overlay have arrived, each its own.
<1>14. PICK hs : hs = State!OverlayHosts(s)
  OBVIOUS
<1>15. ASSUME NEW l \in DOMAIN hs
       PROVE  <<"overlay", l>> \in DOMAIN a.frames /\ a.frames[<<"overlay", l>>] = hs[l]
              /\ State!Has(a, <<"overlay", l>>)
  <2>1. <<"overlay", l>> \in DOMAIN a.frames
    BY <1>1, <1>2, <1>14 DEF State!Slots
  <2>2. State!Has(a, <<"overlay", l>>)
    BY <1>0, <2>1 DEF State!Arrived
  <2>3. a.frames[<<"overlay", l>>] = State!Frame(s, <<"overlay", l>>)
    BY <1>0, <1>2, <2>1, <2>2 DEF State!Unmixed, State!Has
  <2>4. <<"overlay", l>> # State!Root(s)
    BY DEF State!Root
  <2>5. State!Frame(s, <<"overlay", l>>) = State!OverlayHosts(s)[l]
    BY <2>4 DEF State!Frame
  <2> QED BY <1>14, <2>1, <2>2, <2>3, <2>5
<1>16. ASSUME State!Under(s, i) PROVE FALSE
  <2>1. State!OverlayFound(s) /\ i < s.overlay.first /\ State!Inside(d, State!Region(s))
    BY <1>9, <1>16 DEF State!Under
  <2>2. ~State!Owned(a, k)
    BY <1>2, <1>3, <1>4, <1>7, <1>8, <2>1 DEF State!Owned, State!InOverlay, SceneOK
  <2>3. k <= State!EnterIdx(s)
    BY <1>3, <1>5, <1>6, <1>7, <1>8, <2>1 DEF SceneOK
  <2>4. ~State!InGroup(a, k)
    BY <1>2, <1>5, <1>6, <2>2, <2>3 DEF State!InGroup, State!AdoptsByContainment
  <2>5. State!Hosts(a) # {} /\ State!Inside(d, State!BlockBounds(a))
    <3>1. PICK cover : cover = (s.overlay.kind = "cover")
      OBVIOUS
    <3>2. hs = (IF s.overlay.backdrop THEN <<State!Window>> ELSE <<>>)
               \o <<IF s.overlay.kind = "cover" THEN State!Box(0, Height - s.inset) ELSE s.overlay.panel>>
      BY <1>14, <2>1 DEF State!OverlayHosts
    <3>3. ASSUME NEW l \in DOMAIN hs, hs[l].size > 0
          PROVE  State!Shifted(a, hs[l], s.overlay.kind = "cover") \in State!Hosts(a)
      BY <1>2, <1>15, <3>3 DEF State!Hosts
    <3>4. CASE s.overlay.kind = "cover"
      <4>1. \E l \in DOMAIN hs : hs[l].size > 0
        <5>1. CASE s.overlay.backdrop
          <6>1. hs = <<State!Window>> \o <<State!Box(0, Height - s.inset)>>
            BY <3>2, <3>4, <5>1
          <6>2. 1 \in DOMAIN hs /\ hs[1] = [top |-> 0, size |-> Height]
            BY <6>1, TwoOf DEF State!Window, State!Box
          <6> QED BY <1>3, <6>2 DEF SceneOK
        <5>2. CASE ~s.overlay.backdrop
          <6>1. hs = <<State!Box(0, Height - s.inset)>>
            BY <3>2, <3>4, <5>2
          <6>2. 1 \in DOMAIN hs /\ hs[1] = [top |-> 0, size |-> Height - s.inset]
            BY <6>1 DEF State!Box
          <6> QED BY <1>3, <6>2 DEF SceneOK
        <5> QED BY <5>1, <5>2
      <4>2. State!BlockBounds(a) = State!Window /\ State!Region(s) = State!Window
        BY <1>2, <1>13, <3>4 DEF State!BlockBounds, State!Region, State!Window
      <4> QED BY <2>1, <3>3, <4>1, <4>2
    <3>5. CASE s.overlay.kind # "cover"
      <4>1. State!BlockBounds(a) = State!Hull(State!Hosts(a))
        BY <1>2, <3>5 DEF State!BlockBounds
      <4>2. \E l \in DOMAIN hs : hs[l] = State!Region(s)
        <5>1. CASE s.overlay.backdrop
          <6>1. hs = <<State!Window>> \o <<s.overlay.panel>>
            BY <3>2, <3>5, <5>1
          <6>2. 1 \in DOMAIN hs /\ hs[1] = State!Window
            BY <6>1, TwoOf
          <6> QED BY <5>1, <6>2 DEF State!Region
        <5>2. CASE ~s.overlay.backdrop
          <6>1. hs = <<s.overlay.panel>>
            BY <3>2, <3>5, <5>2
          <6>2. 1 \in DOMAIN hs /\ hs[1] = s.overlay.panel
            BY <6>1
          <6> QED BY <3>5, <5>2, <6>2 DEF State!Region
        <5> QED BY <5>1, <5>2
      <4>3. State!Window \in BoxType /\ s.overlay.panel \in BoxType
        BY <1>3 DEF SceneOK, State!Window, State!Box, BoxType
      <4>4. State!Region(s) \in BoxType
        BY <4>3 DEF State!Region
      <4>5. PICK r : r = State!Region(s)
        OBVIOUS
      <4>6. r.size > 0
        <5>1. r.top <= d.top /\ d.top + d.size <= r.top + r.size
          BY <2>1, <4>5 DEF State!Inside, State!Bottom
        <5>2. r.top \in Int /\ r.size \in Int /\ d.top \in Int /\ d.size \in Int
          BY <1>11, <4>4, <4>5 DEF BoxType
        <5> QED BY <1>12, <5>1, <5>2
      <4>7. r \in State!Hosts(a)
        BY <3>3, <3>5, <4>2, <4>5, <4>6 DEF State!Shifted
      <4>8. State!Hosts(a) \subseteq {State!Window, s.overlay.panel}
        <5>1. \A b \in State!Hosts(a) : \E x \in DOMAIN a.frames : x[1] = "overlay" /\ b = a.frames[x]
          BY <1>2, <3>5 DEF State!Hosts, State!Shifted
        <5>2. ASSUME NEW x \in DOMAIN a.frames, x[1] = "overlay" PROVE \E l \in DOMAIN hs : x = <<"overlay", l>>
          BY <1>1, <1>2, <1>14, <5>2 DEF State!Slots
        <5>3. \A l \in DOMAIN hs : hs[l] \in {State!Window, s.overlay.panel}
          <6>1. CASE s.overlay.backdrop
            <7>1. hs = <<State!Window>> \o <<s.overlay.panel>>
              BY <3>2, <3>5, <6>1
            <7> QED BY <7>1, TwoOf
          <6>2. CASE ~s.overlay.backdrop
            <7>1. hs = <<s.overlay.panel>>
              BY <3>2, <3>5, <6>2
            <7> QED BY <7>1
          <6> QED BY <6>1, <6>2
        <5> QED BY <1>15, <5>1, <5>2, <5>3
      <4>9. PICK h : h = State!Hull(State!Hosts(a))
        OBVIOUS
      <4>10. State!Inside(r, h)
        BY <4>3, <4>7, <4>8, <4>9, HullHolds
      <4>11. State!Inside(d, h)
        <5>1. d.top >= r.top /\ r.top >= h.top /\ State!Bottom(d) <= State!Bottom(r) /\ State!Bottom(r) <= State!Bottom(h)
          BY <2>1, <4>5, <4>10 DEF State!Inside
        <5>2. d.top \in Int /\ r.top \in Int /\ State!Bottom(d) \in Int /\ State!Bottom(r) \in Int
          BY <1>11, <4>4, <4>5 DEF BoxType, State!Bottom
        <5>3. h.top \in Int /\ State!Bottom(h) \in Int
          BY <4>3, <4>7, <4>8, <4>9, HullHolds
        <5> QED BY <5>1, <5>2, <5>3 DEF State!Inside
      <4> QED BY <4>1, <4>7, <4>9, <4>11
    <3> QED BY <3>4, <3>5
  <2>6. State!Occludes(a, k)
    BY <1>2, <1>10, <2>2, <2>3, <2>5 DEF State!Occludes
  <2>7. State!OverlayShown(a)
    BY <1>0, <1>6, <2>5, <2>6 DEF State!OverlayShown
  <2>8. State!Covered(a, k)
    BY <1>10, <2>4, <2>5, <2>6, <2>7 DEF State!Covered
  <2>9. State!Blocked(a, k)
    BY <2>4, <2>8 DEF State!Blocked
  <2> QED BY <2>7, <2>9 DEF State!Offered
<1>17. ASSUME s.overlay.kind = "none", ~s.native
       PROVE  2 * s.keyboard > State!Centre2(State!Drawn(s, i))
  <2>1. hs = <<>>
    BY <1>14, <1>17 DEF State!OverlayHosts, State!OverlayFound
  <2>2. State!Hosts(a) = {}
    <3>1. \A x \in DOMAIN a.frames : x[1] # "overlay"
      <4>1. DOMAIN hs = {}
        BY <2>1
      <4> QED BY <1>1, <1>2, <1>14, <4>1 DEF State!Slots, State!Root
    <3> QED BY <3>1 DEF State!Hosts
  <2>3. ~State!OverlayShown(a)
    BY <2>2 DEF State!OverlayShown
  <2>4. ~State!BehindKeyboard(a, k)
    BY <1>2, <1>17, <2>3 DEF State!Offered
  <2>5. ~(State!Centre2(d) >= 2 * s.keyboard)
    BY <1>2, <1>10, <2>4 DEF State!BehindKeyboard
  <2>6. State!Centre2(d) \in Int /\ 2 * s.keyboard \in Int
    BY <1>3, <1>11 DEF State!Centre2, BoxType, SceneOK
  <2> QED BY <1>9, <2>5, <2>6
<1> QED BY <1>16, <1>17

\* What is on screen was kept, when all that was walked was measured.
LEMMA OnScreenKept ==
  ASSUME NEW s, SceneOK(s), NEW a, a.scene = s, NEW i \in 1..Len(s.nodes),
         s.nodes[i].skip = "none", State!OnScreen(State!Drawn(s, i)),
         State!Viewport(a) \in {Height, Far}, State!SheetShift(a) \in {0, s.inset},
         NEW b, b = State!Shifted(a, State!Reported(s, i), State!InSheet(s, i))
  PROVE  State!Kept(a, i, b)
<1>1. /\ Height \in Nat \ {0, 1} /\ Far \in Nat /\ Far > 10 * Height /\ s.inset \in Nat
      /\ s.inset < Height - 1
  BY DEF SceneOK
<1>2. CASE s.nodes[i].pinned
  <2>1. State!Reported(s, i) = State!Box(-Height, 1)
    BY <1>2 DEF State!Reported
  <2>2. b.size = 1
    BY <2>1 DEF State!Shifted, State!Box
  <2> QED BY <1>2, <2>2 DEF State!Kept, State!Tagged
<1>3. CASE ~s.nodes[i].pinned
  <2>1. PICK d : d = s.nodes[i].box
    OBVIOUS
  <2>2. d \in [top : Int, size : Int]
    <3>1. s.nodes[i] \in SceneNode
      BY DEF SceneOK
    <3> QED BY <2>1, <3>1 DEF SceneNode
  <2>3. d.size > 0 /\ d.top + d.size > 0 /\ d.top < Height /\ d.top \in Int /\ d.size \in Int
    BY <1>3, <2>1, <2>2 DEF State!OnScreen, State!Drawn, State!Bottom
  <2>4. CASE ~State!InSheet(s, i)
    <3>1. b = d
      BY <1>3, <2>1, <2>4 DEF State!Reported, State!Shifted
    <3>2. ~State!OffViewport(a, b)
      BY <1>1, <2>3, <3>1 DEF State!OffViewport, State!Bottom
    <3> QED BY <2>3, <3>1, <3>2 DEF State!Kept
  <2>5. CASE State!InSheet(s, i)
    <3>1. d.top + d.size >= s.inset
      <4>1. s.overlay.kind = "cover" /\ i \in s.overlay.first..s.overlay.last
        BY <2>5 DEF State!InSheet, State!InOverlay
      <4>2. i \in DOMAIN s.nodes
        BY DEF SceneOK
      <4> QED BY <2>1, <4>1, <4>2 DEF SceneOK
    <3>2. State!Reported(s, i) = State!Box(d.top - s.inset, d.size)
      BY <1>3, <2>1, <2>5 DEF State!Reported
    <3>3. b.top = (d.top - s.inset) + State!SheetShift(a) /\ b.size = d.size
      BY <2>5, <3>2 DEF State!Shifted, State!Box
    <3>4. b.top \in {d.top - s.inset, d.top}
      BY <1>1, <2>3, <3>3
    <3>5. b.top + b.size >= 0 /\ b.top < Height
      BY <1>1, <2>3, <3>1, <3>3, <3>4
    <3>6. ~State!OffViewport(a, b)
      BY <1>1, <2>3, <3>3, <3>4, <3>5 DEF State!OffViewport, State!Bottom
    <3> QED BY <2>3, <3>3, <3>6 DEF State!Kept
  <2> QED BY <2>4, <2>5
<1> QED BY <1>2, <1>3

LEMMA SlotSilence == SlotInv => State!SilenceIsComplete
<1> SUFFICES ASSUME SlotInv, NEW a \in State!Answers, State!Unmixed(a), State!Unmeasured(a) = {},
                    NEW i \in 1..Len(a.scene.nodes), a.scene.nodes[i].skip = "none",
                    State!OnScreen(State!Drawn(a.scene, i))
             PROVE  IF a.scene.nodes[i].role = "text"
                    THEN \E k \in State!ListedTexts(a) : State!Texts(a.scene)[k] = i
                    ELSE \E k \in State!Listed(a), j \in State!Shown(a) :
                            State!Entries(a.scene)[k].node = i /\ (j = k \/ State!Twin(a, j, k))
  BY DEF State!SilenceIsComplete
<1>1. /\ a.scene \in Scenes /\ DOMAIN a.frames = State!Slots(a.scene)
  BY DEF SlotInv, WalkFrames, State!Answers
<1>2. PICK s : s = a.scene
  OBVIOUS
<1>3. SceneOK(s)
  BY <1>1, <1>2, ScenesOK
<1>4. PICK es : es = State!Entries(s)
  OBVIOUS
<1>5. PICK ts : ts = State!Texts(s)
  OBVIOUS
<1>6. es \in Seq(HostEntry(s)) /\ Len(es) \in Nat
  BY <1>3, <1>4, Collects
<1>7. State!Viewport(a) \in {Height, Far}
  BY DEF State!Viewport
<1>8. State!SheetShift(a) \in {0, s.inset}
  <2>1. CASE /\ <<"sheet", 1>> \in DOMAIN a.frames /\ State!Has(a, <<"sheet", 1>>)
             /\ State!Viewport(a) = Height
    <3>1. a.frames[<<"sheet", 1>>] = State!Frame(s, <<"sheet", 1>>)
      BY <1>2, <2>1 DEF State!Unmixed, State!Has
    <3>2. State!Frame(s, <<"sheet", 1>>) = [top |-> 0, size |-> Height - s.inset]
      BY DEF State!Frame, State!Root, State!Box
    <3>3. State!Bottom(a.frames[<<"sheet", 1>>]) = Height - s.inset
      BY <1>3, <3>1, <3>2 DEF State!Bottom, SceneOK
    <3>4. State!SheetShift(a) = Height - (Height - s.inset)
      BY <2>1, <3>3 DEF State!SheetShift
    <3> QED BY <1>3, <3>4 DEF SceneOK
  <2>2. CASE ~(/\ <<"sheet", 1>> \in DOMAIN a.frames /\ State!Has(a, <<"sheet", 1>>)
               /\ State!Viewport(a) = Height)
    BY <2>2 DEF State!SheetShift
  <2> QED BY <2>1, <2>2
<1>9. ASSUME NEW x \in DOMAIN a.frames, x[1] \in {"host", "text"}, x # State!Root(s)
      PROVE  State!Has(a, x) /\ a.frames[x] = State!Frame(s, x)
  <2>1. State!Has(a, x)
    BY <1>2, <1>9 DEF State!Unmeasured
  <2> QED BY <1>2, <2>1 DEF State!Unmixed, State!Has
<1>10. CASE s.nodes[i].role = "text"
  <2>1. PICK k \in 1..Len(ts) : ts[k] = i
    BY <1>2, <1>3, <1>5, <1>10, TextsAre
  <2>2. k \in DOMAIN ts
    BY <1>2, <1>3, <1>5, <2>1, TextsAre
  <2>3. <<"text", k>> \in DOMAIN a.frames /\ <<"text", k>> # State!Root(s)
    BY <1>1, <1>2, <1>5, <2>2 DEF State!Slots, State!Root
  <2>4. State!Has(a, <<"text", k>>) /\ a.frames[<<"text", k>>] = State!Frame(s, <<"text", k>>)
    BY <1>9, <2>3
  <2>5. State!Frame(s, <<"text", k>>) = State!Reported(s, i)
    BY <1>5, <2>1, <2>3 DEF State!Frame
  <2>6. State!TextBox(a, k) = State!Shifted(a, State!Reported(s, i), State!InSheet(s, i))
    BY <1>2, <1>5, <2>1, <2>4, <2>5 DEF State!TextBox
  <2>7. State!Kept(a, i, State!TextBox(a, k))
    BY <1>2, <1>3, <1>7, <1>8, <2>6, OnScreenKept
  <2>8. k \in State!ListedTexts(a)
    BY <1>2, <1>5, <2>1, <2>2, <2>4, <2>7 DEF State!ListedTexts, State!TextKept
  <2> QED BY <1>2, <1>5, <1>10, <2>1, <2>8
<1>11. CASE s.nodes[i].role # "text"
  <2>1. PICK k \in 1..Len(es) : es[k].node = i
    BY <1>2, <1>3, <1>4, <1>11, Collects
  <2>2. k \in DOMAIN es
    BY <1>6, <2>1
  <2>3. <<"host", k>> \in DOMAIN a.frames /\ <<"host", k>> # State!Root(s)
    BY <1>1, <1>2, <1>4, <1>6, <2>1 DEF State!Slots, State!Root
  <2>4. State!Has(a, <<"host", k>>) /\ a.frames[<<"host", k>>] = State!Frame(s, <<"host", k>>)
    BY <1>9, <2>3
  <2>5. State!Frame(s, <<"host", k>>) = State!Reported(s, i)
    BY <1>4, <2>1, <2>3 DEF State!Frame
  <2>6. State!HostBox(a, k) = State!Shifted(a, State!Reported(s, i), State!InSheet(s, i))
    BY <1>2, <1>4, <2>1, <2>4, <2>5 DEF State!HostBox
  <2>7. State!Kept(a, i, State!HostBox(a, k))
    BY <1>2, <1>3, <1>7, <1>8, <2>6, OnScreenKept
  <2>8. k \in State!Listed(a)
    BY <1>2, <1>4, <2>1, <2>2, <2>4, <2>7 DEF State!Listed, State!HostKept
  \* The first of those at its centre is shown.
  <2> DEFINE C == {j \in State!Listed(a) : j = k \/ State!Twin(a, j, k)}
  <2>9. C \subseteq Nat /\ C # {}
    BY <1>2, <1>4, <1>6, <2>8 DEF State!Listed
  <2>10. PICK j \in C : \A l \in C : j <= l
    BY <2>9, LeastNumber
  <2>11. ASSUME NEW l \in State!Listed(a), l < j, State!Twin(a, l, j) PROVE FALSE
    <3>1. l \in C
      BY <2>10, <2>11 DEF State!Twin
    <3> QED BY <2>9, <2>10, <2>11, <3>1
  <2>12. j \in State!Shown(a)
    BY <2>10, <2>11 DEF State!Shown
  <2> QED BY <1>2, <1>4, <1>11, <2>1, <2>8, <2>10, <2>12
<1> QED BY <1>2, <1>10, <1>11

-----------------------------------------------------------------------------
(* get_screen_layout: what is left out of it.                              *)

LaidOK(t) ==
    /\ t.inset \in Nat /\ DOMAIN t.fibers \subseteq 1..MaxFibers
    /\ \A i \in DOMAIN t.fibers : t.fibers[i].box \in [top : Int, size : Int]

\* Until a frame has arrived there is none, and it is that of its own component.
FramesOwn ==
    /\ DOMAIN frames = Layout!Slots
    /\ \A x \in Layout!Slots : frames[x] \in {Layout!Missing, Layout!FrameOf(x)}

LayoutInv ==
    /\ LaidOK(laid)
    /\ call \in {"waiting", "done"} => FramesOwn
    /\ call = "done" => DOMAIN elements = Layout!Surviving

\* What is made of the tree is the same while the tree is.
LEMMA SameTree ==
  ASSUME UNCHANGED laid
  PROVE  /\ Layout!Collected' = Layout!Collected /\ Layout!Slots' = Layout!Slots
         /\ \A x : Layout!FrameOf(x)' = Layout!FrameOf(x)
         /\ \A i : Layout!fib(i)' = Layout!fib(i)
<1>1. Layout!Fibers' = Layout!Fibers /\ \A i : Layout!fib(i)' = Layout!fib(i)
  BY DEF Layout!Fibers, Layout!fib
<1>2. Layout!Chain' = Layout!Chain
  <2> DEFINE F(g) == [i \in 0..MaxFibers |-> IF i = 0 \/ i \notin Layout!Fibers THEN <<>>
                        ELSE <<Layout!fib(i).up>> \o g[Layout!fib(i).up]]
             G(g) == [i \in 0..MaxFibers |-> IF i = 0 \/ i \notin Layout!Fibers' THEN <<>>
                        ELSE <<Layout!fib(i)'.up>> \o g[Layout!fib(i)'.up]]
  <2>1. \A g : F(g) = G(g)
    BY <1>1
  <2>2. Layout!Chain = CHOOSE g : g = F(g)
    BY DEF Layout!Chain
  <2>3. Layout!Chain' = CHOOSE g : g = G(g)
    BY DEF Layout!Chain
  <2> HIDE DEF F, G
  <2> QED BY <2>1, <2>2, <2>3
<1>3. ASSUME NEW i PROVE Layout!Above(i)' = Layout!Above(i)
  BY <1>1, <1>2 DEF Layout!Above
<1>4. ASSUME NEW i PROVE Layout!Pruned(i)' <=> Layout!Pruned(i)
  BY <1>1, <1>3 DEF Layout!Pruned
<1>5. Layout!Collected' = Layout!Collected
  BY <1>1, <1>4 DEF Layout!Collected
<1>6. Layout!Slots' = Layout!Slots
  BY <1>1, <1>5 DEF Layout!Slots
<1>7. \A x : Layout!FrameOf(x)' = Layout!FrameOf(x)
  BY <1>1 DEF Layout!FrameOf, Layout!Reported
<1> QED BY <1>1, <1>5, <1>6, <1>7

LEMMA SameLayout ==
  ASSUME UNCHANGED <<laid, frames>>
  PROVE  Layout!Surviving' = Layout!Surviving
<1>0. /\ Layout!Collected' = Layout!Collected /\ \A i : Layout!fib(i)' = Layout!fib(i)
      /\ UNCHANGED frames
  BY SameTree
<1>1. \A x : Layout!Has(x)' <=> Layout!Has(x)
  BY <1>0 DEF Layout!Has, Layout!Missing, Layout!Box
<1>2. Layout!RootFrame' = Layout!RootFrame
  <2> DEFINE c == {i \in Layout!Collected : Layout!Has(i) /\ frames[i].top <= 0 /\ frames[i].size > 0}
             d == {i \in Layout!Collected' : Layout!Has(i)' /\ frames'[i].top <= 0 /\ frames'[i].size > 0}
  <2>1. c = d
    BY <1>0, <1>1
  <2>2. Layout!RootFrame = IF c = {} THEN 0 ELSE Layout!Min(c)
    BY DEF Layout!RootFrame
  <2>3. Layout!RootFrame' = IF d = {} THEN 0 ELSE Layout!Min(d)
    BY DEF Layout!RootFrame
  <2> HIDE DEF c, d
  <2> QED BY <2>1, <2>2, <2>3
<1>3. Layout!Viewport' = Layout!Viewport
  BY <1>0, <1>2 DEF Layout!Viewport, Layout!Bottom
<1>4. Layout!SheetShift' = Layout!SheetShift
  <2>1. PICK s : s = Layout!Viewport - Layout!Bottom(frames[Layout!Sheet])
    OBVIOUS
  <2>2. s = Layout!Viewport' - Layout!Bottom(frames'[Layout!Sheet])
    BY <1>0, <1>3, <2>1
  <2>3. Layout!SheetShift = IF Layout!Sheet \in DOMAIN frames /\ Layout!Has(Layout!Sheet) /\ Layout!Viewport # Far
                            THEN Layout!Max({s, 0}) ELSE 0
    BY <2>1 DEF Layout!SheetShift
  <2>4. Layout!SheetShift' = IF Layout!Sheet \in DOMAIN frames' /\ Layout!Has(Layout!Sheet)' /\ Layout!Viewport' # Far
                            THEN Layout!Max({s, 0}) ELSE 0
    BY <2>2 DEF Layout!SheetShift, Layout!Sheet
  <2>5. Layout!Has(Layout!Sheet)' <=> Layout!Has(Layout!Sheet)
    BY <1>0 DEF Layout!Has, Layout!Missing, Layout!Box, Layout!Sheet
  <2> QED BY <1>0, <1>3, <2>3, <2>4, <2>5
<1>5. ASSUME NEW i PROVE Layout!Placed(i)' = Layout!Placed(i)
  BY <1>0, <1>4 DEF Layout!Placed, Layout!Box
<1>6. Layout!Elements' = Layout!Elements
  BY <1>0, <1>1, <1>3, <1>5 DEF Layout!Elements, Layout!BelowFold, Layout!AboveFold, Layout!Bottom
<1> QED BY <1>3, <1>5, <1>6 DEF Layout!Surviving, Layout!FullScreen, Layout!Bottom

LEMMA LayoutStart == LayoutOff \/ Layout!Init => LayoutInv
<1>1. CASE LayoutOff
  BY <1>1 DEF LayoutOff, LayoutInv, LaidOK
<1>2. CASE Layout!Init
  BY <1>2, LayoutAssumption DEF Layout!Init, LayoutInv, LaidOK
<1> QED BY <1>1, <1>2

LEMMA LayoutNext == LayoutInv /\ (Layout!Next \/ UNCHANGED layoutVars) => LayoutInv'
<1> SUFFICES ASSUME LayoutInv, Layout!Next \/ UNCHANGED layoutVars PROVE LayoutInv'
  OBVIOUS
<1>1. UNCHANGED laid
  BY DEF Layout!Next, Layout!Dispatch, Layout!Register, Layout!Resolve, Layout!Measure, layoutVars
<1>2. LaidOK(laid')
  BY <1>1 DEF LayoutInv
<1>3. Layout!Slots' = Layout!Slots /\ \A x : Layout!FrameOf(x)' = Layout!FrameOf(x)
  BY <1>1, SameTree
<1>4. UNCHANGED frames => Layout!Surviving' = Layout!Surviving
  BY <1>1, SameLayout
<1>5. ASSUME FramesOwn, UNCHANGED frames PROVE FramesOwn'
  BY <1>3, <1>5 DEF FramesOwn, Layout!Missing, Layout!Box
<1>6. CASE UNCHANGED layoutVars
  BY <1>2, <1>4, <1>5, <1>6 DEF LayoutInv, layoutVars
<1>7. CASE Layout!Dispatch
  <2>1. CASE hook
    <3>1. frames' = [x \in Layout!Slots |-> Layout!Missing] /\ call' \in {"error", "waiting"}
      BY <1>7, <2>1 DEF Layout!Dispatch, Layout!Walks
    <3>2. FramesOwn'
      BY <1>3, <3>1 DEF FramesOwn, Layout!Missing, Layout!Box
    <3> QED BY <1>2, <3>1, <3>2 DEF LayoutInv
  <2>2. CASE ~hook
    <3>1. call' \in {"retry", "error"}
      BY <1>7, <2>2 DEF Layout!Dispatch
    <3> QED BY <1>2, <3>1 DEF LayoutInv
  <2> QED BY <2>1, <2>2
<1>8. CASE Layout!Register
  <2>1. UNCHANGED frames /\ call' = "retry"
    BY <1>8 DEF Layout!Register
  <2> QED BY <1>2, <2>1 DEF LayoutInv
<1>9. CASE Layout!Resolve
  <2>1. /\ UNCHANGED frames /\ call = "waiting"
        /\ elements' = [i \in Layout!Surviving |-> [box |-> Layout!Placed(i), up |-> Layout!HungOn(i)]]
    BY <1>9 DEF Layout!Resolve
  <2>2. DOMAIN elements' = Layout!Surviving'
    BY <1>4, <2>1
  <2>3. FramesOwn'
    BY <1>5, <2>1 DEF LayoutInv
  <2> QED BY <1>2, <2>2, <2>3 DEF LayoutInv
<1>10. ASSUME NEW x \in DOMAIN frames, Layout!Measure(x) PROVE LayoutInv'
  <2>1. call = "waiting" /\ call' = "waiting" /\ frames' = [frames EXCEPT ![x] = Layout!FrameOf(x)]
    BY <1>10 DEF Layout!Measure
  <2>2. FramesOwn
    BY <2>1 DEF LayoutInv
  <2>3. FramesOwn'
    BY <1>3, <2>1, <2>2 DEF FramesOwn, Layout!Missing, Layout!Box
  <2> QED BY <1>2, <2>1, <2>3 DEF LayoutInv
<1> QED BY <1>6, <1>7, <1>8, <1>9, <1>10 DEF Layout!Next

LEMMA LargerOf == ASSUME NEW n \in Nat PROVE Layout!Max({n, 0}) = n
<1>1. \E x \in {n, 0} : \A y \in {n, 0} : x >= y
  OBVIOUS
<1> QED BY <1>1 DEF Layout!Max

\* A sheet is put where it is drawn, and every frame is then that of the component.
LEMMA LayoutTells == LayoutInv => Layout!LayoutComplete
<1> SUFFICES ASSUME LayoutInv, call = "done", \A x \in DOMAIN frames : Layout!Has(x),
                    Layout!Viewport = Height, NEW i \in Layout!Collected
             PROVE  LET b == Layout!fib(i).box
                    IN  b.size > 0 /\ ~Layout!fib(i).aside =>
                           \/ i \in DOMAIN elements
                           \/ b.top <= 0 /\ Layout!Bottom(b) >= Height
                           \/ /\ ~(Layout!Bottom(b) > 0 /\ b.top < Height)
                              /\ Layout!BelowFold(i) \/ Layout!AboveFold(i)
  BY DEF Layout!LayoutComplete
<1> DEFINE b == Layout!fib(i).box
<1>1. /\ LaidOK(laid) /\ DOMAIN elements = Layout!Surviving /\ DOMAIN frames = Layout!Slots
      /\ \A x \in Layout!Slots : frames[x] = Layout!FrameOf(x)
  BY DEF LayoutInv, FramesOwn, Layout!Has
<1>2. i \in Layout!Slots /\ i \in Layout!Fibers
  BY DEF Layout!Slots, Layout!Collected
<1>3. b = [top |-> b.top, size |-> b.size] /\ b.top \in Int /\ b.size \in Int
  BY <1>1, <1>2 DEF LaidOK, Layout!Fibers, Layout!fib
<1>4. laid.inset \in Nat /\ Height \in Nat /\ Height # Far
  BY <1>1, ScreenAssumption DEF LaidOK
<1>5. i # Layout!Sheet
  BY <1>1, <1>2 DEF LaidOK, Layout!Sheet, Layout!Fibers
<1>6. Layout!Placed(i) = b
  <2>1. frames[i] = IF Layout!fib(i).sheet THEN [top |-> b.top - laid.inset, size |-> b.size] ELSE b
    BY <1>1, <1>2, <1>5 DEF Layout!FrameOf, Layout!Reported, Layout!Box
  <2>2. CASE ~Layout!fib(i).sheet
    BY <2>1, <2>2 DEF Layout!Placed
  <2>3. CASE Layout!fib(i).sheet
    <3>1. Layout!Sheet \in Layout!Slots
      BY <2>3 DEF Layout!Slots
    <3>2. frames[Layout!Sheet] = [top |-> 0, size |-> Height - laid.inset]
      BY <1>1, <3>1 DEF Layout!FrameOf, Layout!Box
    <3>3. Layout!Viewport - Layout!Bottom(frames[Layout!Sheet]) = laid.inset
      BY <1>4, <3>2 DEF Layout!Bottom
    <3>4. Layout!SheetShift = laid.inset
      <4>1. Layout!Has(Layout!Sheet) /\ Layout!Sheet \in DOMAIN frames
        BY <1>1, <3>1
      <4>2. Layout!SheetShift = Layout!Max({laid.inset, 0})
        BY <1>4, <3>3, <4>1 DEF Layout!SheetShift
      <4> QED BY <1>4, <4>2, LargerOf
    <3>5. Layout!Placed(i) = [top |-> (b.top - laid.inset) + laid.inset, size |-> b.size]
      BY <2>1, <2>3, <3>4 DEF Layout!Placed, Layout!Box
    <3> QED BY <1>3, <1>4, <3>5
  <2> QED BY <2>2, <2>3
<1>7. Layout!Has(i)
  BY <1>1, <1>2
<1>8. SUFFICES ASSUME b.size > 0, ~Layout!fib(i).aside, i \notin DOMAIN elements,
                      ~(b.top <= 0 /\ Layout!Bottom(b) >= Height)
               PROVE  /\ ~(Layout!Bottom(b) > 0 /\ b.top < Height)
                      /\ Layout!BelowFold(i) \/ Layout!AboveFold(i)
  OBVIOUS
<1>9. ~Layout!FullScreen(i)
  BY <1>6, <1>8 DEF Layout!FullScreen
<1>10. i \notin Layout!Elements
  BY <1>1, <1>8, <1>9 DEF Layout!Surviving
<1>11. Layout!BelowFold(i) \/ Layout!AboveFold(i)
  BY <1>6, <1>7, <1>8, <1>10 DEF Layout!Elements
<1>12. b.top > Height \/ Layout!Bottom(b) < 0
  BY <1>6, <1>11 DEF Layout!BelowFold, Layout!AboveFold
<1> QED BY <1>3, <1>4, <1>11, <1>12 DEF Layout!Bottom

-----------------------------------------------------------------------------
(* inspect_at_point: what is named of a point.                             *)

MountFiber == [up : Nat, host : BOOLEAN, name : STRING, acts : BOOLEAN,
            box : [top : Int, size : Int], sheet : BOOLEAN, throws : BOOLEAN]
MountOK(v) ==
    /\ v.fibers \in Seq(MountFiber)
    /\ \A i \in DOMAIN v.fibers : v.fibers[i].up < i
    /\ \A i \in DOMAIN v.fibers :
          v.fibers[i].host /\ (\A k \in 1..i-1 : ~v.fibers[k].host) =>
              v.fibers[i].box = [top |-> 0, size |-> Height] /\ \A k \in 1..i : ~v.fibers[k].sheet

\* The lines of the first n fibers.
LineUpto(g, n, v) ==
    /\ g = [k \in 0..n |-> g[k]]
    /\ \A k \in 0..n : g[k] = IF k = 0 THEN <<>> ELSE <<k>> \o g[v.fibers[k].up]

LEMMA LinesExist ==
  ASSUME NEW v, MountOK(v)
  PROVE  \E g : LineUpto(g, Len(v.fibers), v)
<1>0. Len(v.fibers) \in Nat /\ \A i \in 1..Len(v.fibers) : v.fibers[i].up \in 0..i-1
  <2>1. Len(v.fibers) \in Nat /\ \A i \in 1..Len(v.fibers) : v.fibers[i] \in MountFiber /\ v.fibers[i].up < i
    BY DEF MountOK
  <2> QED BY <2>1 DEF MountFiber
<1> DEFINE S == {m \in Nat : m <= Len(v.fibers) => \E g : LineUpto(g, m, v)}
<1>1. 0 \in S
  <2> DEFINE none == [k \in 0..0 |-> <<>>]
  <2>1. LineUpto(none, 0, v)
    BY DEF LineUpto
  <2> QED BY <2>1
<1>2. ASSUME NEW m \in Nat, m \in S PROVE m + 1 \in S
  <2> SUFFICES ASSUME m + 1 <= Len(v.fibers) PROVE \E g : LineUpto(g, m + 1, v)
    OBVIOUS
  <2>1. PICK g : LineUpto(g, m, v)
    BY <1>0, <1>2
  <2>2. PICK last : last = <<m + 1>> \o g[v.fibers[m + 1].up]
    OBVIOUS
  <2>3. PICK h : h = [k \in 0..m + 1 |-> IF k = m + 1 THEN last ELSE g[k]]
    OBVIOUS
  <2>4. h = [k \in 0..m + 1 |-> h[k]] /\ h[m + 1] = last /\ \A k \in 0..m : h[k] = g[k]
    BY <2>3
  <2>5. ASSUME NEW k \in 0..m + 1 PROVE h[k] = IF k = 0 THEN <<>> ELSE <<k>> \o h[v.fibers[k].up]
    <3>1. CASE k = m + 1
      <4>1. PICK u : u = v.fibers[m + 1].up
        OBVIOUS
      <4>2. u \in 0..m
        BY <1>0, <4>1
      <4>3. h[u] = g[u] /\ h[m + 1] = <<m + 1>> \o g[u]
        BY <2>2, <2>4, <4>1, <4>2
      <4>4. h[m + 1] = <<m + 1>> \o h[v.fibers[m + 1].up]
        BY <4>1, <4>3
      <4> QED BY <3>1, <4>4
    <3>2. CASE k \in 0..m
      <4>1. g[k] = IF k = 0 THEN <<>> ELSE <<k>> \o g[v.fibers[k].up]
        BY <2>1, <3>2 DEF LineUpto
      <4>2. k # 0 => v.fibers[k].up \in 0..m
        BY <1>0, <3>2
      <4> QED BY <2>4, <3>2, <4>1, <4>2
    <3> QED BY <3>1, <3>2
  <2>6. LineUpto(h, m + 1, v)
    BY <2>4, <2>5 DEF LineUpto
  <2> QED BY <2>6
<1> HIDE DEF S
<1>3. Len(v.fibers) \in S
  BY <1>0, <1>1, <1>2, Induction
<1> QED BY <1>0, <1>3 DEF S

LEMMA LineIs ==
  ASSUME MountOK(view)
  PROVE  \A k \in 0..Len(view.fibers) :
            Inspect!Line(k) = IF k = 0 THEN <<>> ELSE <<k>> \o Inspect!Line(view.fibers[k].up)
<1> DEFINE F(g) == [k \in 0..Len(view.fibers) |-> IF k = 0 THEN <<>> ELSE <<k>> \o g[Inspect!fib(k).up]]
<1>1. PICK g : LineUpto(g, Len(view.fibers), view)
  BY LinesExist
<1>2. g = F(g)
  BY <1>1 DEF LineUpto, Inspect!fib
<1>3. PICK f : f = CHOOSE h : h = F(h)
  OBVIOUS
<1>4. \A k : Inspect!Line(k) = f[k]
  BY <1>3 DEF Inspect!Line
<1>5. f = F(f)
  <2> HIDE DEF F
  <2> QED BY <1>2, <1>3
<1>6. ASSUME NEW k \in 0..Len(view.fibers)
      PROVE  f[k] = IF k = 0 THEN <<>> ELSE <<k>> \o f[view.fibers[k].up]
  <2>1. PICK h : h = F(f)
    OBVIOUS
  <2>2. h[k] = IF k = 0 THEN <<>> ELSE <<k>> \o f[view.fibers[k].up]
    BY <2>1 DEF Inspect!fib
  <2>3. h = f
    BY <1>5, <2>1
  <2> QED BY <2>2, <2>3
<1> HIDE DEF F
<1> QED BY <1>4, <1>6

Around(i) == Inspect!Range(Inspect!Line(i))

\* The line of a fiber holds the fiber and earlier ones, each with its own line.
LineOK(i) == /\ Inspect!Line(i) \in Seq(1..i) /\ (i > 0 => i \in Around(i))
             /\ \A k \in Around(i) : Around(k) \subseteq Around(i)

LEMMA LinesOK ==
  ASSUME MountOK(view)
  PROVE  \A i \in 0..Len(view.fibers) : LineOK(i)
<1>0. Len(view.fibers) \in Nat /\ \A i \in 1..Len(view.fibers) : view.fibers[i].up \in 0..i-1
  <2>1. Len(view.fibers) \in Nat
        /\ \A i \in 1..Len(view.fibers) : view.fibers[i] \in MountFiber /\ view.fibers[i].up < i
    BY DEF MountOK
  <2> QED BY <2>1 DEF MountFiber
<1> DEFINE S == {n \in Nat : \A i \in 0..n : i <= Len(view.fibers) => LineOK(i)}
<1>1. 0 \in S
  <2>1. Inspect!Line(0) = <<>>
    <3>1. \A k \in 0..Len(view.fibers) :
             Inspect!Line(k) = IF k = 0 THEN <<>> ELSE <<k>> \o Inspect!Line(view.fibers[k].up)
      BY LineIs
    <3>2. 0 \in 0..Len(view.fibers)
      BY <1>0
    <3> QED BY <3>1, <3>2
  <2>2. Around(0) = {}
    BY <2>1 DEF Around, Inspect!Range
  <2>3. LineOK(0)
    <3>1. <<>> \in Seq(1..0)
      OBVIOUS
    <3>2. Inspect!Line(0) \in Seq(1..0)
      BY <2>1, <3>1
    <3>3. \A k \in Around(0) : Around(k) \subseteq Around(0)
      BY <2>2
    <3>4. ~(0 > 0)
      OBVIOUS
    <3> QED BY <3>2, <3>3, <3>4 DEF LineOK
  <2> QED BY <2>3
<1>2. ASSUME NEW n \in Nat, n \in S PROVE n + 1 \in S
  <2> SUFFICES ASSUME n + 1 <= Len(view.fibers) PROVE LineOK(n + 1)
    BY <1>2
  <2>1. PICK u \in 0..n : u = view.fibers[n + 1].up
    BY <1>0
  <2>2. Inspect!Line(n + 1) = <<n + 1>> \o Inspect!Line(u)
    BY <1>0, <2>1, LineIs
  <2>3. LineOK(u)
    BY <1>0, <1>2, <2>1
  <2>4. PICK s : s = Inspect!Line(u)
    OBVIOUS
  <2>5. s \in Seq(1..u)
    BY <2>3, <2>4 DEF LineOK
  <2>6. s \in Seq(1..n + 1)
    <3>1. Len(s) \in Nat /\ \A k \in 1..Len(s) : s[k] \in 1..n + 1
      BY <2>5
    <3>2. s = [k \in 1..Len(s) |-> s[k]]
      BY <2>5
    <3> QED BY <3>1, <3>2
  <2>7. <<n + 1>> \o s \in Seq(1..n + 1)
    BY <2>6
  <2>8. Around(n + 1) = {n + 1} \cup Around(u)
    <3>1. PICK t : t = <<n + 1>> \o s
      OBVIOUS
    <3>2. /\ DOMAIN t = 1..1 + Len(s) /\ t[1] = n + 1 /\ \A k \in 1..Len(s) : t[1 + k] = s[k]
          /\ DOMAIN s = 1..Len(s) /\ Len(s) \in Nat
      BY <2>5, <3>1
    <3>3. ASSUME NEW k \in 1..1 + Len(s) PROVE t[k] \in {n + 1} \cup {s[j] : j \in DOMAIN s}
      <4>1. CASE k = 1
        BY <3>2, <4>1
      <4>2. CASE k # 1
        <5>1. k - 1 \in 1..Len(s) /\ 1 + (k - 1) = k
          BY <3>2, <4>2
        <5> QED BY <3>2, <5>1
      <4> QED BY <4>1, <4>2
    <3>4. ASSUME NEW j \in DOMAIN s PROVE s[j] \in {t[k] : k \in DOMAIN t}
      <4>1. 1 + j \in DOMAIN t /\ t[1 + j] = s[j]
        BY <3>2
      <4> QED BY <4>1
    <3>5. n + 1 \in {t[k] : k \in DOMAIN t}
      BY <3>2
    <3>6. {t[k] : k \in DOMAIN t} = {n + 1} \cup {s[j] : j \in DOMAIN s}
      BY <3>2, <3>3, <3>4, <3>5
    <3>7. Around(n + 1) = {t[k] : k \in DOMAIN t}
      BY <2>2, <2>4, <3>1 DEF Around, Inspect!Range
    <3>8. Around(u) = {s[j] : j \in DOMAIN s}
      BY <2>4 DEF Around, Inspect!Range
    <3> QED BY <3>6, <3>7, <3>8
  <2>9. \A k \in Around(n + 1) : Around(k) \subseteq Around(n + 1)
    BY <2>3, <2>8 DEF LineOK
  <2> QED BY <2>2, <2>4, <2>7, <2>8, <2>9 DEF LineOK
<1>3. Len(view.fibers) \in S
  <2> HIDE DEF S
  <2> QED BY <1>0, <1>1, <1>2, Induction
<1> QED BY <1>0, <1>3

LEMMA AroundAre ==
  ASSUME MountOK(view), NEW i \in Inspect!Fibers
  PROVE  /\ i \in Around(i) /\ Around(i) \subseteq 1..i /\ Around(i) \subseteq Inspect!Fibers
         /\ \A k \in Around(i) : Around(k) \subseteq Around(i)
<1>1. i \in 1..Len(view.fibers) /\ Len(view.fibers) \in Nat /\ Inspect!Fibers = 1..Len(view.fibers)
  BY DEF MountOK, Inspect!Fibers
<1>2. LineOK(i)
  BY <1>1, LinesOK
<1>3. Around(i) \subseteq 1..i
  <2>1. PICK s : s = Inspect!Line(i)
    OBVIOUS
  <2>2. s \in Seq(1..i)
    BY <1>2, <2>1 DEF LineOK
  <2>3. \A k \in DOMAIN s : s[k] \in 1..i
    <3>1. PICK D : D = 1..i
      OBVIOUS
    <3>2. s \in Seq(D)
      BY <2>2, <3>1
    <3>3. \A k \in DOMAIN s : s[k] \in D
      BY <3>2
    <3> QED BY <3>1, <3>3
  <2>4. Around(i) = {s[k] : k \in DOMAIN s}
    BY <2>1 DEF Around, Inspect!Range
  <2> QED BY <2>3, <2>4
<1> QED BY <1>1, <1>2, <1>3 DEF LineOK

-----------------------------------------------------------------------------
(* The largest and the least of some fibers.                               *)

LEMMA MaxIs ==
  ASSUME NEW n \in Nat, NEW S, S \subseteq 1..n, S # {}
  PROVE  Inspect!Max(S) \in S /\ \A k \in S : k <= Inspect!Max(S)
<1> DEFINE B == {n - k : k \in S}
<1>1. B \subseteq Nat /\ B # {}
  <2>1. \A k \in S : k \in 1..n
    OBVIOUS
  <2>2. \A k \in S : n - k \in Nat
    BY <2>1
  <2> QED BY <2>2
<1>2. PICK b \in B : \A c \in B : b <= c
  BY <1>1, LeastNumber
<1>3. PICK m \in S : b = n - m
  BY <1>2
<1>4. \A k \in S : m >= k
  BY <1>2, <1>3
<1> QED BY <1>4 DEF Inspect!Max

LEMMA MinIs ==
  ASSUME NEW S, S \subseteq Nat, S # {}
  PROVE  Inspect!Min(S) \in S /\ \A k \in S : Inspect!Min(S) <= k
<1>1. \E m \in S : \A k \in S : m <= k
  BY LeastNumber
<1> QED BY <1>1 DEF Inspect!Min

\* What is named is around the fiber, and is or owns its nearest handler.
LEMMA PickIs ==
  ASSUME MountOK(view), Lookahead \in Nat, NEW i \in Inspect!Fibers
  PROVE  LET e == Inspect!PickElement(i)
             handlers == {h \in Around(i) : Inspect!Named(h) /\ Inspect!fib(h).acts}
         IN  /\ IF e = 0 THEN \A k \in Around(i) : ~Inspect!Named(k) ELSE e \in Around(i)
             /\ handlers # {} => e \in Around(Inspect!Max(handlers))
<1> DEFINE named    == {k \in Around(i) : Inspect!Named(k)}
           handlers == {k \in named : Inspect!fib(k).acts}
           customs  == {k \in named : Inspect!Custom(k)}
<1>0. /\ Around(i) \subseteq 1..i /\ i \in Nat
      /\ \A k \in Around(i) : Around(k) \subseteq Around(i) /\ k \in Inspect!Fibers
  BY AroundAre DEF MountOK, Inspect!Fibers
<1>1. Inspect!PickElement(i) =
         IF handlers # {} THEN Inspect!OwnerOf(Inspect!Nearest(handlers))
         ELSE IF customs # {} THEN Inspect!Nearest(customs) ELSE Inspect!Nearest(named)
  BY DEF Inspect!PickElement, Around
<1>2. handlers = {h \in Around(i) : Inspect!Named(h) /\ Inspect!fib(h).acts}
  OBVIOUS
<1>3. ASSUME NEW S, S \subseteq Around(i), S # {}
      PROVE  Inspect!Nearest(S) = Inspect!Max(S) /\ Inspect!Max(S) \in S
  BY <1>0, <1>3, MaxIs DEF Inspect!Nearest
<1>4. CASE handlers # {}
  <2>1. PICK h : h = Inspect!Max(handlers)
    OBVIOUS
  <2>2. h \in handlers /\ Inspect!PickElement(i) = Inspect!OwnerOf(h)
    BY <1>1, <1>3, <1>4, <2>1
  <2>3. Inspect!OwnerOf(h) \in Around(h)
    <3> DEFINE near   == {Inspect!Line(h)[k] : k \in 1 .. Inspect!Min({Lookahead + 1, Len(Inspect!Line(h))})}
               owners == {k \in near : Inspect!Custom(k)}
    <3>0. h \in Inspect!Fibers /\ h \in Nat
      BY <1>0, <2>2
    <3>1. /\ h \in Around(h) /\ Around(h) \subseteq 1..h
      BY <3>0, AroundAre
    <3>2. Len(Inspect!Line(h)) \in Nat /\ DOMAIN Inspect!Line(h) = 1..Len(Inspect!Line(h))
      BY <3>0, LinesOK DEF MountOK, Inspect!Fibers, LineOK
    <3>3. Inspect!Min({Lookahead + 1, Len(Inspect!Line(h))}) <= Len(Inspect!Line(h))
          /\ Inspect!Min({Lookahead + 1, Len(Inspect!Line(h))}) \in Nat
      <4>1. PICK a, b : a = Lookahead + 1 /\ b = Len(Inspect!Line(h))
        OBVIOUS
      <4>2. a \in Nat /\ b \in Nat
        BY <3>2, <4>1
      <4>3. {a, b} \subseteq Nat /\ {a, b} # {}
        BY <4>2
      <4>4. Inspect!Min({a, b}) \in {a, b} /\ \A k \in {a, b} : Inspect!Min({a, b}) <= k
        BY <4>3, MinIs
      <4> QED BY <4>1, <4>2, <4>4
    <3>4. near \subseteq Around(h)
      BY <3>2, <3>3 DEF Around, Inspect!Range
    <3>5. Inspect!OwnerOf(h) = IF owners = {} THEN h ELSE Inspect!Nearest(owners)
      BY DEF Inspect!OwnerOf
    <3>6. owners \subseteq Around(h)
      BY <3>4
    <3> HIDE DEF near, owners
    <3>7. owners # {} => Inspect!Nearest(owners) \in Around(h)
      <4> SUFFICES ASSUME owners # {} PROVE Inspect!Nearest(owners) \in Around(h)
        OBVIOUS
      <4>1. owners \subseteq 1..h
        BY <3>1, <3>6
      <4>2. Inspect!Max(owners) \in owners
        BY <3>0, <4>1, MaxIs
      <4> QED BY <3>6, <4>2 DEF Inspect!Nearest
    <3> QED BY <3>1, <3>5, <3>7
  <2>4. Inspect!OwnerOf(h) # 0 /\ Inspect!OwnerOf(h) \in Around(i)
    BY <1>0, <2>2, <2>3
  <2> QED BY <1>2, <2>1, <2>2, <2>3, <2>4
<1>5. CASE handlers = {} /\ customs # {}
  <2>1. Inspect!PickElement(i) \in customs
    BY <1>1, <1>3, <1>5
  <2> QED BY <1>0, <1>2, <1>5, <2>1
<1>6. CASE handlers = {} /\ customs = {} /\ named # {}
  <2>1. Inspect!PickElement(i) \in named
    BY <1>1, <1>3, <1>6
  <2> QED BY <1>0, <1>2, <1>6, <2>1
<1>7. CASE named = {}
  <2>1. Inspect!PickElement(i) = 0
    BY <1>1, <1>7 DEF Inspect!Nearest
  <2> QED BY <1>2, <1>7, <2>1
<1> QED BY <1>4, <1>5, <1>6, <1>7
-----------------------------------------------------------------------------
(* The frames that have arrived, and the answer made of all of them.       *)

Measurable == Inspect!Asked \ Inspect!Throws
OwnFrames(f) == \A x \in DOMAIN f : f[x] = Inspect!FrameOf(x)

\* What is said of an answer that carries no note.
SaysTruly(a) ==
    Inspect!Root \notin Inspect!Throws /\ Inspect!BandIsEmpty =>
        LET handlers == {h \in Around(a.hit) : Inspect!Named(h) /\ Inspect!fib(h).acts}
        IN  /\ Inspect!Holds(Inspect!fib(a.hit).box, view.point)
            /\ \A k \in Inspect!Hosts \ Inspect!Throws :
                  Inspect!Holds(Inspect!fib(k).box, view.point) =>
                      Inspect!fib(a.hit).box.size <= Inspect!fib(k).box.size
            /\ IF a.element = 0 THEN \A k \in Around(a.hit) : ~Inspect!Named(k)
                                ELSE a.element \in Around(a.hit)
            /\ handlers # {} => a.element \in Around(Inspect!Max(handlers))
            /\ a.hitFrame = Inspect!fib(a.hit).box

InspectInv ==
    /\ MountOK(view)
    /\ DOMAIN got \subseteq Measurable /\ OwnFrames(got)
    /\ IF left = -1 THEN DOMAIN got = {} ELSE left = Cardinality(Measurable \ DOMAIN got)
    /\ told.kind = "element" /\ ~told.incomplete => SaysTruly(told)

LEMMA SameView ==
  ASSUME UNCHANGED view
  PROVE  /\ Measurable' = Measurable /\ \A x : Inspect!FrameOf(x)' = Inspect!FrameOf(x)
         /\ \A a : SaysTruly(a)' <=> SaysTruly(a)
<1>1. Inspect!Fibers' = Inspect!Fibers /\ \A i : Inspect!fib(i)' = Inspect!fib(i)
  BY DEF Inspect!Fibers, Inspect!fib
<1>2. \A i : Inspect!Line(i)' = Inspect!Line(i)
  <2> DEFINE F(g) == [k \in 0..Len(view.fibers) |-> IF k = 0 THEN <<>> ELSE <<k>> \o g[Inspect!fib(k).up]]
             G(g) == [k \in 0..Len(view'.fibers) |-> IF k = 0 THEN <<>> ELSE <<k>> \o g[Inspect!fib(k)'.up]]
  <2>1. \A g : F(g) = G(g)
    BY <1>1
  <2>2. PICK f : f = CHOOSE g : g = F(g)
    OBVIOUS
  <2>3. PICK h : h = CHOOSE g : g = G(g)
    OBVIOUS
  <2>4. \A i : Inspect!Line(i) = f[i]
    BY <2>2 DEF Inspect!Line
  <2>5. \A i : Inspect!Line(i)' = h[i]
    BY <2>3 DEF Inspect!Line
  <2> HIDE DEF F, G
  <2>6. f = h
    BY <2>1, <2>2, <2>3
  <2> QED BY <2>4, <2>5, <2>6
<1>3. \A i : Around(i)' = Around(i) /\ (Inspect!Named(i)' <=> Inspect!Named(i))
  BY <1>1, <1>2 DEF Around, Inspect!Range, Inspect!Named
<1>4. \A i : Inspect!InSheet(i)' <=> Inspect!InSheet(i)
  BY <1>1, <1>3 DEF Inspect!InSheet, Around
<1>5. Inspect!Hosts' = Inspect!Hosts
  BY <1>1 DEF Inspect!Hosts
<1>6. Inspect!Throws' = Inspect!Throws /\ Inspect!Root' = Inspect!Root
  BY <1>1, <1>5 DEF Inspect!Throws, Inspect!Root
<1>7. Measurable' = Measurable
  BY <1>4, <1>5, <1>6 DEF Measurable, Inspect!Asked, Inspect!Sheet
<1>8. \A x : Inspect!FrameOf(x)' = Inspect!FrameOf(x)
  BY <1>1, <1>4 DEF Inspect!FrameOf, Inspect!Box, Inspect!Sheet
<1>9. ASSUME NEW a PROVE SaysTruly(a)' <=> SaysTruly(a)
  <2> DEFINE hs == {h \in Around(a.hit) : Inspect!Named(h) /\ Inspect!fib(h).acts}
             ks == {h \in Around(a.hit)' : Inspect!Named(h)' /\ Inspect!fib(h)'.acts}
  <2>1. hs = ks
    BY <1>1, <1>3
  <2>2. Inspect!Max(hs) = Inspect!Max(ks)
    BY <2>1
  <2>3. view' = view
    OBVIOUS
  <2>4. Inspect!BandIsEmpty' <=> Inspect!BandIsEmpty
    BY <1>1, <1>5, <1>6, <2>3 DEF Inspect!BandIsEmpty, Inspect!Tall
  <2> QED BY <1>1, <1>3, <1>5, <1>6, <2>1, <2>2, <2>3, <2>4 DEF SaysTruly, Inspect!Holds, Inspect!Bottom
<1> QED BY <1>7, <1>8, <1>9

LEMMA HostsAre ==
  ASSUME MountOK(view)
  PROVE  /\ Inspect!Hosts \subseteq Inspect!Fibers /\ Inspect!Fibers \subseteq Nat \ {0}
         /\ \A i \in Inspect!Fibers : /\ Inspect!fib(i).box = [top |-> Inspect!fib(i).box.top, size |-> Inspect!fib(i).box.size]
                                      /\ Inspect!fib(i).box.top \in Int /\ Inspect!fib(i).box.size \in Int
         /\ IsFiniteSet(Measurable) /\ Inspect!Sheet \notin Inspect!Throws
<1>0. Len(view.fibers) \in Nat /\ Inspect!Fibers = 1..Len(view.fibers)
  BY DEF MountOK, Inspect!Fibers
<1>1. Inspect!Hosts \subseteq Inspect!Fibers /\ Inspect!Fibers \subseteq Nat \ {0}
  BY <1>0 DEF Inspect!Hosts
<1>2. ASSUME NEW i \in Inspect!Fibers
      PROVE  /\ Inspect!fib(i).box = [top |-> Inspect!fib(i).box.top, size |-> Inspect!fib(i).box.size]
             /\ Inspect!fib(i).box.top \in Int /\ Inspect!fib(i).box.size \in Int
  <2>1. view.fibers[i] \in MountFiber
    BY <1>0, <1>2 DEF MountOK
  <2>2. Inspect!fib(i).box \in [top : Int, size : Int]
    BY <2>1 DEF MountFiber, Inspect!fib
  <2> QED BY <2>2
<1>3. IsFiniteSet(Measurable)
  <2>1. Measurable \subseteq 0..Len(view.fibers)
    <3>1. 1..Len(view.fibers) \subseteq 0..Len(view.fibers) /\ 0 \in 0..Len(view.fibers)
      BY <1>0
    <3>2. Inspect!Hosts \subseteq 1..Len(view.fibers)
      BY <1>0, <1>1
    <3>3. Inspect!Asked \subseteq Inspect!Hosts \cup {0}
      BY DEF Inspect!Asked, Inspect!Sheet
    <3> QED BY <3>1, <3>2, <3>3 DEF Measurable
  <2>2. IsFiniteSet(0..Len(view.fibers))
    BY <1>0, FS_Interval
  <2> QED BY <2>1, <2>2, FS_Subset
<1>4. Inspect!Sheet \notin Inspect!Throws
  BY <1>1 DEF Inspect!Throws, Inspect!Sheet
<1> QED BY <1>1, <1>2, <1>3, <1>4

\* With every frame there, each host is placed where it is drawn.
LEMMA AllPlaced ==
  ASSUME MountOK(view), NEW f, DOMAIN f = Measurable, OwnFrames(f),
         Inspect!Root \notin Inspect!Throws, Inspect!BandIsEmpty,
         NEW k \in Inspect!Hosts \ Inspect!Throws
  PROVE  Inspect!Placed(f, k) = Inspect!fib(k).box
<1>0. Height \in Nat /\ Height > 0 /\ Inset \in Nat
  BY ScreenAssumption, InspectAssumption
<1>1. PICK r : r = Inspect!Root
  OBVIOUS
<1>2. r \in Inspect!Hosts /\ \A i \in Inspect!Hosts : r <= i
  <2>1. Inspect!Hosts \subseteq Nat /\ Inspect!Hosts # {}
    BY HostsAre
  <2> QED BY <1>1, <2>1, MinIs DEF Inspect!Root
<1>3. r \in Inspect!Fibers /\ r \in Nat \ {0} /\ k \in Inspect!Fibers /\ k \in Nat \ {0}
  BY <1>2, HostsAre
<1>4. Inspect!fib(r).box = [top |-> 0, size |-> Height] /\ \A i \in 1..r : ~Inspect!fib(i).sheet
  <2>1. \A i \in 1..r-1 : ~view.fibers[i].host
    <3>1. Inspect!Fibers = 1..Len(view.fibers) /\ Len(view.fibers) \in Nat
      BY DEF MountOK, Inspect!Fibers
    <3>2. \A i \in 1..r-1 : i \in Inspect!Fibers /\ i \notin Inspect!Hosts
      BY <1>2, <1>3, <3>1
    <3> QED BY <3>2 DEF Inspect!Hosts, Inspect!fib
  <2> QED BY <1>2, <1>3, <2>1 DEF MountOK, Inspect!Hosts, Inspect!fib, Inspect!Fibers
<1>5. ~Inspect!InSheet(r)
  <2>1. Around(r) \subseteq 1..r
    BY <1>3, AroundAre
  <2> QED BY <1>4, <2>1 DEF Inspect!InSheet, Around
<1>6. r \in DOMAIN f /\ k \in DOMAIN f
  BY <1>1, <1>2 DEF Measurable, Inspect!Asked
<1>7. f[r] = [top |-> 0, size |-> Height]
  BY <1>3, <1>4, <1>5, <1>6 DEF OwnFrames, Inspect!FrameOf, Inspect!Sheet
<1>8. f[k] = IF Inspect!InSheet(k)
             THEN [top |-> Inspect!fib(k).box.top - Inset, size |-> Inspect!fib(k).box.size]
             ELSE Inspect!fib(k).box
  BY <1>3, <1>6 DEF OwnFrames, Inspect!FrameOf, Inspect!Sheet, Inspect!Box
<1>9. ASSUME ~Inspect!InSheet(k)
      PROVE  Inspect!Shifted(f, k) = Inspect!fib(k).box
  BY <1>8, <1>9 DEF Inspect!Shifted
<1>10. ASSUME Inspect!InSheet(k)
       PROVE  Inspect!Shifted(f, k) = Inspect!fib(k).box
  <2>1. Inspect!Sheet \in DOMAIN f
    BY <1>10, HostsAre DEF Measurable, Inspect!Asked
  <2>2. f[Inspect!Sheet] = [top |-> 0, size |-> Height - Inset]
    BY <2>1 DEF OwnFrames, Inspect!FrameOf, Inspect!Box
  <2>3. \A n \in Nat : Inspect!Max({n, 0}) = n
    <3> SUFFICES ASSUME NEW n \in Nat PROVE Inspect!Max({n, 0}) = n
      OBVIOUS
    <3>1. \E x \in {n, 0} : \A y \in {n, 0} : x >= y
      OBVIOUS
    <3> QED BY <3>1 DEF Inspect!Max
  <2>4. Inspect!Max({f[r].top, 0}) = 0 /\ f[r].size = Height
    BY <1>7, <2>3
  <2>5. Inspect!Max({f[r].top, 0}) + f[r].size - Inspect!Bottom(f[Inspect!Sheet]) = Inset
    BY <1>0, <2>2, <2>4 DEF Inspect!Bottom
  <2>6. Inspect!SheetShift(f) = Inspect!Max({Inset, 0})
    BY <1>0, <1>1, <1>6, <2>1, <2>4, <2>5 DEF Inspect!SheetShift, Inspect!Measured
  <2>7. Inspect!SheetShift(f) = Inset
    BY <1>0, <2>3, <2>6
  <2>8. Inspect!Shifted(f, k) = [top |-> (Inspect!fib(k).box.top - Inset) + Inset, size |-> Inspect!fib(k).box.size]
    BY <1>8, <1>10, <2>7 DEF Inspect!Shifted, Inspect!Box
  <2>9. /\ Inspect!fib(k).box = [top |-> Inspect!fib(k).box.top, size |-> Inspect!fib(k).box.size]
        /\ Inspect!fib(k).box.top \in Int
    BY <1>3, HostsAre
  <2> QED BY <1>0, <2>8, <2>9
<1>11. PICK b : b = Inspect!Shifted(f, k) /\ b = Inspect!fib(k).box
  BY <1>9, <1>10
<1>12. b.top < view.topInset => Inspect!Measured(f, Inspect!Root) /\ Inspect!Tall(b, f[Inspect!Root].size)
  <2>1. Inspect!fib(Inspect!Root).box.size = f[Inspect!Root].size
    BY <1>1, <1>4, <1>7
  <2> QED BY <1>1, <1>6, <1>11, <2>1 DEF Inspect!BandIsEmpty, Inspect!Measured
<1> QED BY <1>11, <1>12 DEF Inspect!Placed, Inspect!Lifted

\* The hit is one, and no other is smaller.
LEMMA BestIs ==
  ASSUME NEW f, Inspect!Hits(f) # {}, Inspect!Hits(f) \subseteq Nat,
         \A k \in Inspect!Hits(f) : Inspect!Placed(f, k).size \in Nat
  PROVE  /\ Inspect!Best(f) \in Inspect!Hits(f)
         /\ \A k \in Inspect!Hits(f) : Inspect!Placed(f, Inspect!Best(f)).size <= Inspect!Placed(f, k).size
<1> DEFINE sz(k) == Inspect!Placed(f, k).size
           H     == Inspect!Hits(f)
           sizes == {sz(k) : k \in H}
<1>1. sizes \subseteq Nat /\ sizes # {}
  OBVIOUS
<1>2. PICK m \in sizes : \A n \in sizes : m <= n
  BY <1>1, LeastNumber
<1>3. PICK K : K = {k \in H : sz(k) = m}
  OBVIOUS
<1>4. K \subseteq Nat /\ K # {}
  BY <1>3
<1>5. PICK i \in K : \A k \in K : i <= k
  BY <1>4, LeastNumber
<1>6. \A k \in H \ {i} : sz(i) < sz(k) \/ (sz(i) = sz(k) /\ i < k)
  <2> SUFFICES ASSUME NEW k \in H \ {i} PROVE sz(i) < sz(k) \/ (sz(i) = sz(k) /\ i < k)
    OBVIOUS
  <2>1. sz(i) = m /\ m <= sz(k) /\ m \in Nat /\ sz(k) \in Nat /\ i \in Nat /\ k \in Nat
    BY <1>1, <1>2, <1>3, <1>4
  <2>2. sz(k) = m => i <= k
    BY <1>3, <1>5
  <2> QED BY <2>1, <2>2
<1>7. i \in H
  BY <1>3
<1>8. PICK b : b = Inspect!Best(f)
  OBVIOUS
<1>9. b \in H /\ \A k \in H \ {b} : sz(b) < sz(k) \/ (sz(b) = sz(k) /\ b < k)
  BY <1>6, <1>7, <1>8 DEF Inspect!Best
<1>10. \A k \in H : sz(b) <= sz(k)
  <2> SUFFICES ASSUME NEW k \in H PROVE sz(b) <= sz(k)
    OBVIOUS
  <2>1. sz(b) \in Nat /\ sz(k) \in Nat
    BY <1>9
  <2> QED BY <1>9, <2>1
<1> QED BY <1>8, <1>9, <1>10

LEMMA BuildsTruly ==
  ASSUME MountOK(view), NEW f, DOMAIN f = Measurable, OwnFrames(f), Inspect!Hits(f) # {},
         NEW a, a.hit = Inspect!Best(f), a.element = Inspect!PickElement(a.hit),
         a.hitFrame = Inspect!Placed(f, a.hit)
  PROVE  SaysTruly(a)
<1> SUFFICES ASSUME Inspect!Root \notin Inspect!Throws, Inspect!BandIsEmpty PROVE SaysTruly(a)
  BY DEF SaysTruly
<1>1. Inspect!Hits(f) = {k \in Inspect!Hosts \ Inspect!Throws : Inspect!Holds(Inspect!fib(k).box, view.point)}
  <2>1. \A k \in Inspect!Hosts : Inspect!Measured(f, k) <=> k \notin Inspect!Throws
    BY DEF Inspect!Measured, Measurable, Inspect!Asked
  <2>2. \A k \in Inspect!Hosts \ Inspect!Throws : Inspect!Placed(f, k) = Inspect!fib(k).box
    BY AllPlaced
  <2> QED BY <2>1, <2>2 DEF Inspect!Hits
<1>2. \A k \in Inspect!Hits(f) : /\ Inspect!Placed(f, k) = Inspect!fib(k).box
                                 /\ k \in Nat /\ k \in Inspect!Fibers
                                 /\ Inspect!fib(k).box.size \in Int /\ Inspect!fib(k).box.size > 0
  BY <1>1, AllPlaced, HostsAre DEF Inspect!Holds
<1>3. \A k \in Inspect!Hits(f) : Inspect!Placed(f, k).size \in Nat
  BY <1>2
<1>4. /\ a.hit \in Inspect!Hits(f)
      /\ \A k \in Inspect!Hits(f) : Inspect!Placed(f, a.hit).size <= Inspect!Placed(f, k).size
  BY <1>2, <1>3, BestIs
<1>5. \A k \in Inspect!Hits(f) : Inspect!fib(a.hit).box.size <= Inspect!fib(k).box.size
  BY <1>2, <1>4
<1>6. PICK i \in Inspect!Fibers : i = a.hit
  BY <1>2, <1>4
<1>7. LET e == Inspect!PickElement(i)
          handlers == {h \in Around(i) : Inspect!Named(h) /\ Inspect!fib(h).acts}
      IN  /\ IF e = 0 THEN \A k \in Around(i) : ~Inspect!Named(k) ELSE e \in Around(i)
          /\ handlers # {} => e \in Around(Inspect!Max(handlers))
  BY PickIs, InspectAssumption
<1>8. a.hitFrame = Inspect!fib(a.hit).box
  BY <1>2, <1>4
<1> QED BY <1>1, <1>4, <1>5, <1>6, <1>7, <1>8 DEF SaysTruly
LEMMA InspectStart == InspectOff \/ Inspect!Init => InspectInv
<1> SUFFICES ASSUME InspectOff \/ Inspect!Init PROVE InspectInv
  OBVIOUS
<1>1. MountOK(view)
  <2>1. CASE InspectOff
    <3>1. view.fibers = <<>>
      BY <2>1 DEF InspectOff
    <3>2. DOMAIN view.fibers = {}
      BY <3>1
    <3> QED BY <3>1, <3>2 DEF MountOK
  <2>2. CASE Inspect!Init
    <3>1. view \in Views
      BY <2>2 DEF Inspect!Init
    <3> QED BY <3>1, InspectAssumption DEF MountOK, MountFiber
  <2> QED BY <2>1, <2>2
<1>2. DOMAIN got = {} /\ told = [kind |-> "none"] /\ left \in {0, -1}
  BY DEF InspectOff, Inspect!Init, Inspect!NoAnswer
<1>3. left = 0 => Measurable = {}
  <2> SUFFICES ASSUME left = 0 PROVE Measurable = {}
    OBVIOUS
  <2>1. view.fibers = <<>>
    BY DEF InspectOff, Inspect!Init
  <2>2. Inspect!Hosts = {}
    BY <2>1 DEF Inspect!Hosts, Inspect!Fibers
  <2> QED BY <2>2 DEF Measurable, Inspect!Asked
<1>4. left = 0 => left = Cardinality(Measurable \ DOMAIN got)
  BY <1>3, FS_EmptySet
<1> QED BY <1>1, <1>2, <1>4 DEF InspectInv, OwnFrames

\* An answer that is built is right when every frame that can be had is there.
LEMMA ResultTrue ==
  ASSUME MountOK(view), NEW f, DOMAIN f = Measurable, OwnFrames(f), NEW out,
         NEW a, a = Inspect!BuildResult(f, out), a.kind = "element"
  PROVE  SaysTruly(a)
<1>1. Inspect!Hits(f) # {}
  BY DEF Inspect!BuildResult
<1>2. a.hit = Inspect!Best(f) /\ a.element = Inspect!PickElement(a.hit)
      /\ a.hitFrame = Inspect!Placed(f, a.hit)
  BY <1>1 DEF Inspect!BuildResult
<1> QED BY <1>1, <1>2, BuildsTruly

LEMMA InspectNext == InspectInv /\ (Inspect!Next \/ UNCHANGED inspectVars) => InspectInv'
<1> SUFFICES ASSUME InspectInv, Inspect!Next \/ UNCHANGED inspectVars PROVE InspectInv'
  OBVIOUS
<1>0. /\ MountOK(view) /\ DOMAIN got \subseteq Measurable /\ OwnFrames(got)
      /\ IF left = -1 THEN DOMAIN got = {} ELSE left = Cardinality(Measurable \ DOMAIN got)
      /\ told.kind = "element" /\ ~told.incomplete => SaysTruly(told)
  BY DEF InspectInv
<1>1. UNCHANGED view
  BY DEF Inspect!Next, Inspect!Start, Inspect!BudgetOver, Inspect!Report, inspectVars
<1>2. /\ Measurable' = Measurable /\ \A x : Inspect!FrameOf(x)' = Inspect!FrameOf(x)
      /\ \A a : SaysTruly(a)' <=> SaysTruly(a)
  BY <1>1, SameView
<1>3. MountOK(view)'
  BY <1>0, <1>1 DEF MountOK
<1>4. UNCHANGED got => DOMAIN got' \subseteq Measurable' /\ OwnFrames(got)'
  BY <1>0, <1>2 DEF OwnFrames
<1>5. ASSUME NEW a, a = told', a.kind = "element" /\ ~a.incomplete => SaysTruly(a)
      PROVE  (told.kind = "element" /\ ~told.incomplete => SaysTruly(told))'
  <2>1. SaysTruly(a)' => SaysTruly(told)'
    BY <1>5 DEF SaysTruly
  <2> QED BY <1>2, <1>5, <2>1
<1>6. UNCHANGED told => (told.kind = "element" /\ ~told.incomplete => SaysTruly(told))'
  <2> SUFFICES ASSUME UNCHANGED told
               PROVE  (told.kind = "element" /\ ~told.incomplete => SaysTruly(told))'
    OBVIOUS
  <2>1. PICK a : a = told
    OBVIOUS
  <2>2. a = told' /\ (a.kind = "element" /\ ~a.incomplete => SaysTruly(a))
    BY <1>0, <2>1
  <2> QED BY <1>5, <2>2
<1>7. IsFiniteSet(Measurable)
  BY <1>0, HostsAre
<1>8. CASE UNCHANGED inspectVars
  <2>1. UNCHANGED <<got, left, told>>
    BY <1>8 DEF inspectVars
  <2> QED BY <1>0, <1>2, <1>3, <1>4, <1>6, <2>1 DEF InspectInv
<1>9. CASE Inspect!Start
  <2>1. left = -1 /\ UNCHANGED got /\ left' = Cardinality(Measurable)
    <3>1. \A S : Inspect!Cardinality(S) = Cardinality(S)
      BY DEF Inspect!Cardinality, Cardinality
    <3> QED BY <1>9, <3>1 DEF Inspect!Start, Measurable
  <2>2. DOMAIN got = {} /\ DOMAIN got' = {}
    BY <1>0, <2>1
  <2>3. left' = Cardinality(Measurable' \ DOMAIN got')
    BY <1>2, <2>1, <2>2
  <2>4. left' # -1
    BY <1>7, <2>1, FS_CardinalityType
  <2>5. PICK a : a = told'
    OBVIOUS
  <2>6. a.kind = "element" => SaysTruly(a)
    <3> SUFFICES ASSUME a.kind = "element" PROVE SaysTruly(a)
      OBVIOUS
    <3>1. PICK b : b = Inspect!BuildResult(<<>>, 0)
      OBVIOUS
    <3>2. a = CASE Inspect!Hosts = {} -> [kind |-> "error"]
                [] Inspect!Hosts # {} /\ left' = 0 -> b
                [] OTHER -> Inspect!NoAnswer
      BY <1>9, <2>5, <3>1 DEF Inspect!Start
    <3>3. a = b /\ left' = 0
      BY <3>2 DEF Inspect!NoAnswer
    <3>4. Measurable = {}
      BY <1>7, <2>1, <3>3, FS_EmptySet
    <3>5. DOMAIN <<>> = Measurable /\ OwnFrames(<<>>)
      BY <3>4 DEF OwnFrames
    <3> QED BY <1>0, <3>1, <3>3, <3>5, ResultTrue
  <2>7. (told.kind = "element" /\ ~told.incomplete => SaysTruly(told))'
    BY <1>5, <2>5, <2>6
  <2> QED BY <1>3, <1>4, <2>1, <2>3, <2>4, <2>7 DEF InspectInv
<1>10. CASE Inspect!BudgetOver
  <2>1. left > 0 /\ UNCHANGED <<got, left>> /\ timedOut' = TRUE
    BY <1>10 DEF Inspect!BudgetOver
  <2>2. IF left' = -1 THEN DOMAIN got' = {} ELSE left' = Cardinality(Measurable' \ DOMAIN got')
    BY <1>0, <1>2, <2>1
  <2>3. CASE UNCHANGED told
    BY <1>3, <1>4, <1>6, <2>1, <2>2, <2>3 DEF InspectInv
  <2>4. CASE told' = Inspect!BuildResult(got, left)
    <3>1. PICK a : a = told'
      OBVIOUS
    <3>2. a.kind = "element" => a.incomplete
      BY <2>1, <2>4, <3>1 DEF Inspect!BuildResult, Inspect!Incomplete
    <3>3. (told.kind = "element" /\ ~told.incomplete => SaysTruly(told))'
      BY <1>5, <3>1, <3>2
    <3> QED BY <1>3, <1>4, <2>1, <2>2, <3>3 DEF InspectInv
  <2> QED BY <1>10, <2>3, <2>4 DEF Inspect!BudgetOver
<1>11. ASSUME NEW x \in Inspect!Asked \ Inspect!Throws, Inspect!Report(x) PROVE InspectInv'
  <2>1. /\ left > 0 /\ x \notin DOMAIN got /\ x \in Measurable /\ left' = left - 1
        /\ got' = [k \in DOMAIN got \cup {x} |-> IF k = x THEN Inspect!FrameOf(x) ELSE got[k]]
    BY <1>11 DEF Inspect!Report, Measurable
  <2>2. PICK f : f = got'
    OBVIOUS
  <2>3. DOMAIN f = DOMAIN got \cup {x} /\ OwnFrames(f)
    BY <1>0, <2>1, <2>2 DEF OwnFrames
  <2>4. DOMAIN got' \subseteq Measurable' /\ OwnFrames(got)'
    BY <1>0, <1>2, <2>1, <2>2, <2>3 DEF OwnFrames
  <2>5. PICK R : R = Measurable \ DOMAIN got
    OBVIOUS
  <2>6. IsFiniteSet(R) /\ x \in R /\ left = Cardinality(R) /\ Measurable \ DOMAIN f = R \ {x}
    <3>1. left # -1
      BY <2>1
    <3>2. IsFiniteSet(R)
      BY <1>7, <2>5, FS_Subset
    <3> QED BY <1>0, <2>1, <2>3, <2>5, <3>1, <3>2
  <2>7. IsFiniteSet(R \ {x}) /\ Cardinality(R \ {x}) = Cardinality(R) - 1
    BY <2>6, FS_RemoveElement
  <2>8. left' = Cardinality(Measurable' \ DOMAIN got')
    BY <1>2, <2>1, <2>2, <2>6, <2>7
  <2>9. left' # -1
    BY <2>6, <2>7, <2>1, FS_CardinalityType
  <2>10. PICK a : a = told'
    OBVIOUS
  <2>11. a.kind = "element" /\ ~a.incomplete => SaysTruly(a)
    <3>1. CASE UNCHANGED told
      <4>1. a = told
        BY <2>10, <3>1
      <4> QED BY <1>0, <4>1
    <3>2. CASE left' = 0 /\ told' = Inspect!BuildResult(got', 0)
      <4>1. R \ {x} = {}
        BY <2>1, <2>6, <2>7, <3>2, FS_EmptySet
      <4>2. DOMAIN f = Measurable
        BY <1>0, <2>1, <2>3, <2>6, <4>1
      <4>3. a = Inspect!BuildResult(f, 0)
        BY <2>2, <2>10, <3>2
      <4> QED BY <1>0, <2>3, <4>2, <4>3, ResultTrue
    <3> QED BY <1>11, <3>1, <3>2 DEF Inspect!Report
  <2>12. (told.kind = "element" /\ ~told.incomplete => SaysTruly(told))'
    BY <1>5, <2>10, <2>11
  <2> QED BY <1>3, <2>4, <2>8, <2>9, <2>12 DEF InspectInv
<1> QED BY <1>8, <1>9, <1>10, <1>11 DEF Inspect!Next

LEMMA InspectTells == InspectInv => Inspect!NamedTruly
BY DEF InspectInv, SaysTruly, Inspect!NamedTruly, Around

-----------------------------------------------------------------------------
(* The reads: a behaviour is one of one tool, and a step of another leaves *)
(* what is claimed here as it was.                                         *)

readsVars == <<stateVars, layoutVars, staleVars, lookupVars, inspectVars, routeVars>>

LEMMA ReadsStart == ReadsInit => WalkInv /\ MoveInv /\ RouteInv /\ SlotInv /\ LayoutInv /\ InspectInv
<1>1. ReadsInit => WalkInv /\ MoveInv /\ RouteInv
  BY WalkStart, MoveStart, RouteStart DEF ReadsInit
<1>2. ReadsInit => SlotInv /\ LayoutInv /\ InspectInv
  BY SlotStart, LayoutStart, InspectStart DEF ReadsInit
<1> QED BY <1>1, <1>2

LEMMA ReadsStep ==
  ASSUME [ReadsNext]_readsVars
  PROVE  /\ State!Next \/ UNCHANGED stateVars
         /\ Layout!Next \/ UNCHANGED layoutVars
         /\ Stale!Next \/ UNCHANGED staleVars
         /\ Inspect!Next \/ UNCHANGED inspectVars
         /\ Nav!Next \/ UNCHANGED routeVars
<1>1. CASE UNCHANGED readsVars
  BY <1>1 DEF readsVars
<1>2. CASE ReadsNext
  BY <1>2 DEF ReadsNext
<1> QED BY <1>1, <1>2

\* Whatever calls of get_screen_state overlap: what a call left in the app is still of a
\* call that has walked and is not answered yet, and a call that finds nothing there was
\* overtaken.
THEOREM WalksAreKnown == ReadsSpec => []WalkInv
<1>1. WalkInv /\ [ReadsNext]_readsVars => WalkInv'
  BY ReadsStep, WalkNext
<1> QED BY <1>1, ReadsStart, PTL DEF ReadsSpec, readsVars

\* No two calls of get_screen_state answer from one walk, for any number of calls and
\* scenes.
THEOREM WalksAreTakenOnce == ReadsSpec => []TakenOnce
<1>1. WalkInv => TakenOnce
  BY DEF WalkInv, TakenOnce
<1> QED BY <1>1, WalksAreKnown, PTL

\* What was remembered of a device's screen keeps count of the agent's calls that moved
\* it since: each has returned, or is about to return from a tool that moves screens.
THEOREM MovesAreRemembered == ReadsSpec => []MoveInv
<1>1. MoveInv /\ [ReadsNext]_readsVars => MoveInv'
  BY ReadsStep, MoveNext
<1> QED BY <1>1, ReadsStart, PTL DEF ReadsSpec, readsVars

\* A move of the agent's own that had returned when an element was missed is not called
\* somebody else's, whatever calls overlapped on whatever devices.
THEOREM MovesAreExcused == ReadsSpec => []OwnMoveExcused
<1>1. MoveInv => OwnMoveExcused
  BY DEF MoveInv, OwnMoveExcused
<1> QED BY <1>1, MovesAreRemembered, PTL

\* Every buffer of the app and every trail of the server joins up: reads, samples,
\* installs, moves and restarts in any order, each read merging an epoch and a buffer of
\* its own past.
THEOREM TrailsJoin == ReadsSpec => []RouteInv
<1>1. RouteInv /\ [ReadsNext]_readsVars => RouteInv'
  BY ReadsStep, RouteNext
<1> QED BY <1>1, ReadsStart, PTL DEF ReadsSpec, readsVars

\* At most the last visit of a trail is open, "from" names the visit before or nothing,
\* and "changed" and "unchanged" say what was read, for any places, calls and restarts and
\* any bound of the trail.
THEOREM TrailsAreTrue == ReadsSpec => []TrailTrue
<1> QED BY TrailsJoin, RouteTells, PTL

\* What get_screen_state takes has one slot for everything its own scene has, so an
\* element is listed with the frame it is drawn with, what is offered is under no overlay
\* and no keyboard, and with every frame measured nothing on screen is left out.
THEOREM ScreenIsTrue ==
    ReadsSpec => [](State!ReachableReached /\ State!SilenceIsComplete /\ State!FrameTruth)
<1>1. SlotInv /\ [ReadsNext]_readsVars => SlotInv'
  BY ReadsStep, SlotNext
<1>2. SlotInv => State!ReachableReached /\ State!SilenceIsComplete /\ State!FrameTruth
  BY SlotReach, SlotSilence, SlotTells
<1> QED BY <1>1, <1>2, ReadsStart, PTL DEF ReadsSpec, readsVars

\* With every frame measured, nothing inside the window is left out of the layout but what
\* fills the window, for any tree of any size.
THEOREM LayoutIsComplete == ReadsSpec => []Layout!LayoutComplete
<1>1. LayoutInv /\ [ReadsNext]_readsVars => LayoutInv'
  BY ReadsStep, LayoutNext
<1> QED BY <1>1, ReadsStart, LayoutTells, PTL DEF ReadsSpec, readsVars

\* An answer of inspect_at_point without a note starts from the smallest host at the point
\* and names what is around it and handles its press, for any tree and in any order of
\* the measurements, the end of the budget included.
THEOREM PointsAreNamed == ReadsSpec => []Inspect!NamedTruly
<1>1. InspectInv /\ [ReadsNext]_readsVars => InspectInv'
  BY ReadsStep, InspectNext
<1> QED BY <1>1, ReadsStart, InspectTells, PTL DEF ReadsSpec, readsVars

\* What the reads answer of the screen is so, for any app and window.
THEOREM ReadsAreTrue == ReadsSpec => []ReachedOrSaid
<1>1. (State!ReachableReached /\ State!SilenceIsComplete /\ State!FrameTruth)
         /\ Layout!LayoutComplete /\ Inspect!NamedTruly => ReachedOrSaid
  BY DEF ReachedOrSaid
<1> QED BY <1>1, ScreenIsTrue, LayoutIsComplete, PointsAreNamed, PTL
=============================================================================
