-------------------------------- MODULE Tap --------------------------------
(***************************************************************************)
(* One call of the tap tool (pro/tap.ts): it resolves a device, asks the   *)
(* overlay guard, and then tries its strategies in order -- accessibility, *)
(* fiber, OCR, or a bare coordinate -- until one of them delivers a touch. *)
(* Every strategy ends in a touch command of the platform's driver (adb,   *)
(* axe, idb), and the driver may deliver the touch and fail to say so.     *)
(*                                                                         *)
(* What a strategy sees on the screen is the world's choice at the moment  *)
(* it looks: the person at the simulator, an animation or a reload change  *)
(* the screen between two looks.  Time is the single fact the code asks    *)
(* for, whether less than MIN_STRATEGY_BUDGET_MS of TAP_TIMEOUT_MS is left.*)
(***************************************************************************)
EXTENDS Naturals, SequencesExt

CONSTANT Asks        \* the queries the tool is called with

Queries == [platform : {"ios", "android"},
            kind     : {"nothing", "native", "coordinate", "testID",
                        "component", "text", "emoji"},
            strategy : {"auto", "fiber", "accessibility", "ocr"},
            indexed  : BOOLEAN]

ASSUME AsksAssumption == Asks \subseteq Queries

VARIABLES
    ask,        \* the query of this call
    pc,         \* where the call is
    metro,      \* hasMetro: some React Native app is connected
    todo,       \* filteredStrategies the loop has not reached
    cur,        \* strat, the strategy under way
    again,      \* the strategies the empty-screen replay still has to ask
    replayed,   \* emptyScreenReplayed
    attempted,  \* the attempts reported to the caller
    ran,        \* element strategies whose evidence says they ran
    seen,       \* element strategies whose evidence holds a match
    spent,      \* the budget of the call is used up
    adrift,     \* a timed-out touch command is still running
    landed,     \* touches the device received
    acked,      \* touches a driver acknowledged while the call waited
    swallowed,  \* a delivered fiber touch was taken for a failed one
    answer      \* what the caller got

vars == <<ask, pc, metro, todo, cur, again, replayed, attempted, ran, seen,
          spent, adrift, landed, acked, swallowed, answer>>

device == <<adrift, landed, acked, swallowed>>
looks  == <<again, replayed, ran, seen>>

Elements  == {"fiber", "accessibility"}
Lookups   == Elements \union {"ocr"}
Touching  == Lookups \union {"coordinate", "native"}
Outcomes  == {"notFound", "timeout", "skipped", "invisible", "ambiguous"}
Failures  == {"invalid", "noDevice", "unavailable", "refused", "ambiguous",
              "timedOut", "invisible", "notFound"}
Attempts  == [strategy : Touching \union {"settle", "guard"},
              outcome  : Outcomes]

Attempt(s, o) == [strategy |-> s, outcome |-> o]

HasText(q) == q.kind \in {"text", "emoji"}

\* getAvailableStrategies
Strategies(q) ==
    CASE q.kind = "coordinate" -> <<"coordinate">>
      [] q.kind # "coordinate" /\ q.strategy # "auto" ->
            IF HasText(q) /\ q.strategy # "ocr" THEN <<q.strategy, "ocr">>
                                                ELSE <<q.strategy>>
      [] q.kind = "component" /\ q.strategy = "auto" -> <<"fiber">>
      [] q.kind = "testID" /\ q.strategy = "auto" -> <<"accessibility", "fiber">>
      [] q.kind = "text" /\ q.strategy = "auto" ->
            <<"accessibility", "fiber", "ocr">>
      [] q.kind = "emoji" /\ q.strategy = "auto" -> <<"accessibility", "ocr">>

\* The strategies that can be tried: fiber needs Metro, the others the iOS UI
\* driver.
Usable(m, driver) ==
    {s \in Touching : IF s = "fiber" THEN m ELSE ask.platform = "android" \/ driver}

\* The members of list that are in S, in their order.  (SelectSeq, which takes
\* an operator, is closed to the provers.)
Among(list, S) ==
    LET kept[n \in 0..Len(list)] ==
            IF n = 0 THEN <<>>
            ELSE IF list[n] \in S THEN Append(kept[n - 1], list[n]) ELSE kept[n - 1]
    IN  kept[Len(list)]

\* What a lookup may report.  The OCR match and an explicit index leave
\* nothing ambiguous; a broken lookup is one that failed inside its own catch.
Results(s) ==
    CASE s = "fiber" -> {"one", "none", "hidden", "broken"}
                        \union IF ask.indexed THEN {"outOfRange"} ELSE {"many"}
      [] s = "accessibility" ->
            IF HasText(ask) \/ ask.kind = "testID"
            THEN {"one", "none", "broken"}
                 \union IF ask.indexed THEN {"outOfRange"} ELSE {"many"}
            ELSE {"none"}
      [] s = "ocr" -> IF HasText(ask) THEN {"one", "none", "broken"}
                                      ELSE {"none"}

\* The evidence a lookup leaves: accessibility records every match, fiber only
\* the lists it returns for a choice.
Leaves(s, r) ==
    IF r \in {"many", "outOfRange"} \/ (s = "accessibility" /\ r = "one")
    THEN {s} ELSE {}

\* screenLooksUnmounted
Unmounted == ran = Elements /\ seen = {}

\* The lookups the timer can cut: withCancelableTimeout only cuts what listens
\* to its signal, and the iOS accessibility dump does not.
Cuttable(s) == /\ Results(s) # {"none"}
               /\ s \in {"fiber", "ocr"} \/ ask.platform = "android"

\* The touches a timer races (withTimeout) instead of waiting for.
RacedAll == Touching                              \* mutant: nothing is aborted
Raced == {"coordinate", "native"}

\* iosTap's result is dropped by these two strategies.
UncheckedMore(s) == s \in {"accessibility", "fiber", "coordinate"}   \* mutant
Unchecked(s) == ask.platform = "ios" /\ s \in Elements

Init == /\ ask \in Asks
        /\ pc = "start" /\ answer = "none" /\ cur = "none"
        /\ metro = FALSE /\ spent = FALSE /\ replayed = FALSE
        /\ todo = <<>> /\ again = <<>> /\ attempted = <<>>
        /\ ran = {} /\ seen = {}
        /\ adrift = FALSE /\ swallowed = FALSE
        /\ landed = 0 /\ acked = 0

-----------------------------------------------------------------------------
(* Helpers: the call answers, moves on, or time passes meanwhile.          *)

Answer(a) == pc' = "done" /\ answer' = a

\* Any await may use up the rest of the budget.
TimePasses == spent' \in {spent, TRUE}

MoveOn == pc' = "loop" /\ cur' = "none" /\ UNCHANGED answer

Report(att) == attempted' = Append(attempted, att)

-----------------------------------------------------------------------------
(* Before the loop.                                                        *)

\* Validation and resolveDeviceTarget.  A native tap goes straight to the
\* driver; everything else looks for a Metro connection first.
Resolve ==
    /\ pc = "start"
    /\ \/ ask.kind = "nothing" /\ Answer("invalid") /\ UNCHANGED cur
       \/ ask.kind # "nothing" /\ Answer("noDevice") /\ UNCHANGED cur
       \/ ask.kind = "native" /\ pc' = "touch" /\ cur' = "native"
          /\ UNCHANGED answer
       \/ ask.kind \notin {"nothing", "native"} /\ pc' = "connect"
          /\ UNCHANGED <<answer, cur>>
    /\ TimePasses
    /\ UNCHANGED <<ask, metro, todo, attempted, looks, device>>

\* The auto-connect (at most 3 s), the UI driver check, and the filter that
\* reports every strategy it drops.
Connect ==
    /\ pc = "connect"
    /\ \E m, driver \in BOOLEAN :
          LET all == Strategies(ask)
              kept == Among(all, Usable(m, driver))
              dropped == Among(all, Touching \ Usable(m, driver))
          IN /\ metro' = m
             /\ attempted' = [i \in DOMAIN dropped |->
                                 Attempt(dropped[i], "skipped")]
             /\ todo' = kept
             /\ IF kept = <<>> THEN Answer("unavailable")
                               ELSE pc' = "guard" /\ UNCHANGED answer
    /\ TimePasses
    /\ UNCHANGED <<ask, cur, looks, device>>

\* checkOverlayBlocking: it refuses only on a definite verdict, and a slow or
\* failing guard lets the tap through.  The before-screenshot follows.
Guard ==
    /\ pc = "guard"
    /\ \/ MoveOn /\ UNCHANGED attempted
       \/ /\ metro /\ ~spent
          /\ Report(Attempt("guard", "skipped"))
          /\ Answer("refused") /\ UNCHANGED cur
    /\ TimePasses
    /\ UNCHANGED <<ask, metro, todo, looks, device>>

-----------------------------------------------------------------------------
(* The loop over the strategies.                                           *)

SkipStrategy ==
    /\ pc = "loop" /\ todo # <<>> /\ spent
    /\ todo' = Tail(todo)
    /\ Report(Attempt(Head(todo), "skipped"))
    /\ UNCHANGED <<ask, pc, metro, cur, looks, spent, device, answer>>

BeginLookup ==
    /\ pc = "loop" /\ todo # <<>> /\ ~spent
    /\ Head(todo) \in Lookups
    /\ ~(Head(todo) = "ocr" /\ ~replayed /\ Unmounted)
    /\ todo' = Tail(todo) /\ cur' = Head(todo)
    /\ ran' = ran \union ({Head(todo)} \intersect Elements)
    /\ pc' = "lookup"
    /\ UNCHANGED <<ask, metro, again, replayed, attempted, seen, spent,
                   device, answer>>

BeginCoordinate ==
    /\ pc = "loop" /\ todo # <<>> /\ ~spent
    /\ Head(todo) = "coordinate"
    /\ todo' = Tail(todo) /\ cur' = "coordinate"
    /\ pc' = "touch"
    /\ UNCHANGED <<ask, metro, attempted, looks, spent, device, answer>>

\* OCR's turn on a screen on which neither element strategy saw anything:
\* wait EMPTY_SCREEN_SETTLE_MS and ask both again first.
BeginReplay ==
    /\ pc = "loop" /\ todo # <<>> /\ ~spent
    /\ Head(todo) = "ocr" /\ ~replayed /\ Unmounted
    /\ todo' = Tail(todo) /\ cur' = "ocr"
    /\ replayed' = TRUE
    /\ again' = <<"fiber", "accessibility">>
    /\ Report(Attempt("settle", "notFound"))
    /\ pc' = "replay"
    /\ TimePasses
    /\ UNCHANGED <<ask, metro, ran, seen, device, answer>>

\* A lookup of the loop ends by itself.
EndLookup ==
    /\ pc = "lookup"
    /\ \E r \in Results(cur) :
          /\ seen' = seen \union (Leaves(cur, r) \intersect Elements)
          /\ \/ /\ r = "one"
                /\ pc' = "touch" /\ UNCHANGED <<cur, answer>>
                /\ IF cur = "fiber" THEN Report(Attempt(cur, "notFound"))
                                    ELSE UNCHANGED attempted
             \/ /\ r = "many"
                /\ Report(Attempt(cur, "ambiguous"))
                /\ Answer("ambiguous") /\ UNCHANGED cur
             \/ /\ r = "hidden"
                /\ Report(Attempt(cur, "invisible")) /\ MoveOn
             \/ /\ r \in {"none", "outOfRange", "broken"}
                /\ Report(Attempt(cur, "notFound")) /\ MoveOn
    /\ TimePasses
    /\ UNCHANGED <<ask, metro, todo, again, replayed, ran, device>>

\* The cap of a strategy passes.  The fiber lookup is raced and abandoned; the
\* others are aborted, and their own catch turns the abort into a plain result.
CutLookup ==
    /\ pc = "lookup" /\ Cuttable(cur)
    /\ Report(Attempt(cur, IF cur = "fiber" THEN "timeout" ELSE "notFound"))
    /\ MoveOn
    /\ TimePasses
    /\ UNCHANGED <<ask, metro, todo, looks, device>>

\* One lookup of the replay.  Only a success counts, and only accessibility
\* can succeed; with nothing left to ask, OCR goes ahead.
Replay ==
    /\ pc = "replay" /\ again # <<>>
    /\ \/ /\ spent
          /\ again' = Tail(again) /\ UNCHANGED <<pc, cur, seen>>
       \/ /\ ~spent
          /\ \E r \in Results(Head(again)) :
                /\ seen' = seen \union Leaves(Head(again), r)
                /\ IF Head(again) = "accessibility" /\ r = "one"
                   THEN /\ pc' = "touch" /\ cur' = "accessibility"
                        /\ UNCHANGED again
                   ELSE again' = Tail(again) /\ UNCHANGED <<pc, cur>>
       \/ /\ ~spent /\ Cuttable(Head(again))
          /\ again' = Tail(again) /\ UNCHANGED <<pc, cur, seen>>
    /\ TimePasses
    /\ UNCHANGED <<ask, metro, todo, replayed, attempted, ran, device, answer>>

EndReplay ==
    /\ pc = "replay" /\ again = <<>>
    /\ pc' = "lookup"
    /\ UNCHANGED <<ask, metro, todo, cur, looks, attempted, spent, device,
                   answer>>

-----------------------------------------------------------------------------
(* The touch and what follows it.                                          *)

\* A replayed touch that fails is no worse than no replay: OCR goes ahead.
SameReplay == pc' = "replay" /\ cur' = "ocr" /\ again' = again     \* mutant
NextReplay == pc' = "replay" /\ cur' = "ocr" /\ again' = Tail(again)

\* A touch command that is not acknowledged.  The fiber branch's catch moves
\* on with no attempt of its own.
NotTouched ==
    \/ /\ cur = "native"
       /\ Report(Attempt("native", "notFound")) /\ Answer("notFound")
       /\ UNCHANGED <<cur, again>>
    \/ /\ cur = "fiber" /\ MoveOn /\ UNCHANGED <<attempted, again>>
    \/ again # <<>> /\ NextReplay /\ UNCHANGED <<attempted, answer>>
    \/ /\ cur \notin {"native", "fiber"} /\ again = <<>>
       /\ Report(Attempt(cur, "notFound")) /\ MoveOn /\ UNCHANGED again

TouchDelivered ==
    /\ pc = "touch"
    /\ landed' = landed + 1 /\ acked' = acked + 1
    /\ pc' = "verify"
    /\ TimePasses
    /\ UNCHANGED <<ask, metro, todo, cur, looks, attempted, adrift, swallowed,
                   answer>>

\* The driver reports a failure: it sent nothing, or the device got the touch
\* and the command still failed or ran into its own timeout.
TouchFails ==
    /\ pc = "touch"
    /\ landed' \in {landed, landed + 1}
    /\ IF Unchecked(cur)
       THEN pc' = "verify" /\ UNCHANGED <<cur, again, attempted, answer>>
       ELSE NotTouched
    /\ TimePasses
    /\ UNCHANGED <<ask, metro, todo, replayed, ran, seen, adrift, acked,
                   swallowed>>

\* Something before the fiber strategy's command throws: the safe-area or the
\* density lookup.
FiberTouchThrows ==
    /\ pc = "touch" /\ cur = "fiber"
    /\ MoveOn
    /\ TimePasses
    /\ UNCHANGED <<ask, metro, todo, looks, attempted, device>>

\* A raced touch runs into its cap; the command itself is not stopped.
TouchTimesOut ==
    /\ pc = "touch" /\ cur \in Raced
    /\ adrift' = TRUE
    /\ Report(Attempt(cur, "timeout"))
    /\ IF cur = "native" THEN Answer("timedOut") /\ UNCHANGED cur ELSE MoveOn
    /\ TimePasses
    /\ UNCHANGED <<ask, metro, todo, looks, landed, acked, swallowed>>

LateTouch ==
    /\ adrift /\ adrift' = FALSE
    /\ landed' \in {landed, landed + 1}
    /\ UNCHANGED <<ask, pc, metro, todo, cur, looks, attempted, spent, acked,
                   swallowed, answer>>

\* verifyAndCapture or burstCaptureAndVerify, then the report.
VerifyGoesOn ==                       \* mutant: the fiber branch does not return
    /\ pc = "verify"
    /\ IF cur = "fiber" THEN MoveOn ELSE Answer("success") /\ UNCHANGED cur
    /\ UNCHANGED <<ask, metro, todo, looks, attempted, spent, device>>

ReplayGoesOn ==                       \* mutant: a replayed success is not taken
    /\ pc = "verify"
    /\ IF again # <<>> THEN pc' = "lookup" /\ cur' = "ocr" /\ UNCHANGED answer
                       ELSE Answer("success") /\ UNCHANGED cur
    /\ UNCHANGED <<ask, metro, todo, looks, attempted, spent, device>>

Verify ==
    /\ pc = "verify"
    /\ Answer("success")
    /\ TimePasses
    /\ UNCHANGED <<ask, metro, todo, cur, looks, attempted, device>>

\* The image comparison throws.  Only the fiber branch catches it, in the catch
\* meant for the touch; elsewhere the whole call fails.
VerifyThrows ==
    /\ pc = "verify"
    /\ IF cur = "fiber" THEN MoveOn /\ swallowed' = TRUE
                        ELSE Answer("threw") /\ UNCHANGED <<cur, swallowed>>
    /\ TimePasses
    /\ UNCHANGED <<ask, metro, todo, looks, attempted, adrift, landed, acked>>

\* No strategy is left: isTapTimeout first, then the invisible match.
Conclude ==
    /\ pc = "loop" /\ todo = <<>>
    /\ LET tried == ToSet(attempted)
       IN IF \E a \in tried : a.outcome \in {"timeout", "skipped"}
          THEN Answer("timedOut")
          ELSE IF \E a \in tried : a.strategy = "fiber"
                                   /\ a.outcome = "invisible"
               THEN Answer("invisible")
               ELSE Answer("notFound")
    /\ UNCHANGED <<ask, metro, todo, cur, looks, attempted, spent, device>>

Next == \/ Resolve \/ Connect \/ Guard
        \/ SkipStrategy \/ BeginLookup \/ BeginCoordinate \/ BeginReplay
        \/ EndLookup \/ CutLookup \/ Replay \/ EndReplay
        \/ TouchDelivered \/ TouchFails \/ FiberTouchThrows \/ TouchTimesOut
        \/ LateTouch \/ Verify \/ VerifyThrows \/ Conclude

Spec == Init /\ [][Next]_vars

\* The lookups, the driver commands and the screenshots all have timeouts of
\* their own, so a call that can go on does.
LiveSpec == Spec /\ WF_vars(Next)

-----------------------------------------------------------------------------
(* Properties.                                                             *)

TypeOK ==
    /\ ask \in Asks
    /\ pc \in {"start", "connect", "guard", "loop", "lookup", "replay", "touch",
              "verify", "done"}
    /\ cur \in Touching \union {"none"}
    /\ todo \in Seq(Touching) /\ again \in Seq(Elements)
    /\ attempted \in Seq(Attempts)
    /\ ran \subseteq Elements /\ seen \subseteq Elements
    /\ {metro, replayed, spent, adrift, swallowed} \subseteq BOOLEAN
    /\ landed \in Nat /\ acked \in Nat
    /\ answer \in Failures \union {"none", "success", "threw"}
    /\ (pc = "done") = (answer # "none")

\* One call presses once: after a driver acknowledged a touch no other strategy
\* of the call, replayed or not, delivers a second one.  (The fiber branch's
\* catch breaks this when the verification of its touch throws: swallowed.)
OneTouch == ~swallowed => acked <= 1

\* An answer that tells the caller that nothing was pressed -- refused,
\* ambiguous, not found, invisible, timed out -- is never given after a touch
\* the driver acknowledged.
FailureUntouched == answer \in Failures /\ ~swallowed => acked = 0

\* A tap reports success only after a driver acknowledged a touch, but for the
\* two iOS strategies that drop the driver's result.
SuccessTouched ==
    answer = "success"
        => acked > 0 \/ (ask.platform = "ios" /\ cur \in Elements)

\* The answer tells what the device got, both ways.
AnswerTrue == FailureUntouched /\ SuccessTouched

\* A touch reaches the device behind the caller's back, after the answer, only
\* when the answer was that the tap timed out: no other path leaves a touch
\* command running.
LateOnlyAfterTimeout ==
    [][pc = "done" /\ landed' # landed => answer = "timedOut"]_vars

\* Every call is answered, whatever the strategies run into.
Answers == <>(pc = "done")

=============================================================================
