------------------------------ MODULE Chromium ------------------------------
(***************************************************************************)
(* Input on a Chromium page (core/chromium.ts, chromiumDialogs.ts,          *)
(* chromiumDialogAnswer.ts, cdpCommand.ts, pro/chromiumTap.ts, Keys, Swipe). *)
(*                                                                         *)
(* A tool is a sequence of tasks sent to the page, each awaited before the  *)
(* next.  The page runs them in order; a JavaScript dialog pauses it, and    *)
(* the answers of the input that opened it wait too.  Elements found are     *)
(* kept in one global of the page, whichever call looked.  Answers and       *)
(* dialog events reach the server in order, and late.                        *)
(***************************************************************************)
EXTENDS Naturals, Sequences, FiniteSets, SequencesExt

CONSTANTS Elements,   \* elements of the page, in document order
          Agents,     \* tool calls, one each
          JobsOf,     \* the tools each of them may call
          Rank,       \* how an element answers the query of a call
          MaxDialogs  \* bounds the dialogs

ToolJobs == {"tap", "tapAt", "text", "key", "swipe"}
ASSUME PageAssumption == \A c \in Agents : JobsOf[c] \subseteq ToolJobs \cup {"answer"}

VARIABLES page, fields, targets, toPage, toServer, known, web
webVars == <<page, fields, targets, toPage, toServer, known, web>>

None == "none"
Unsaid == [job |-> None, step |-> 0, pc |-> "idle", index |-> 0, picked |-> None, slot |-> 0,
           aimed |-> None, alone |-> TRUE, before |-> <<>>, named |-> 0, sent |-> FALSE,
           report |-> None]

Init ==
    /\ page = [mounted |-> Range(Elements), focus |-> None, dialog |-> 0, opened |-> 0, held |-> <<>>]
    /\ fields = [e \in Range(Elements) |-> <<>>]
    /\ targets = <<>> /\ toPage = <<>> /\ toServer = <<>> /\ known = 0
    /\ web = [c \in Agents |-> Unsaid]

-----------------------------------------------------------------------------
(* The tools as sequences of tasks.  The frame before a tap and the insert   *)
(* of a text are not raced with a dialog, everything else is.               *)
Tasks(job) ==
    CASE job = "tap" -> <<"collect", "prepare", "capture", "click", "shot">>
      [] job = "tapAt" -> <<"viewport", "click">>
      [] job = "text" -> <<"collect", "focus", "insert", "read">>
      [] job = "key" -> <<"collect", "focus", "key", "key", "active">>
      [] job = "swipe" -> <<"probe", "wheel", "settled">>
      [] OTHER -> <<>>
Inputs == {"click", "key", "wheel", "insert"}
Raced(task) == task \notin {"capture", "insert"}
Task(c) == Tasks(web[c].job)[web[c].step]
\* With a dialog open the input is taken to be delivered, and a reading is an error.
OnDialog(task) == IF task \in {"click", "key", "wheel", "shot", "active"} THEN "delivered" ELSE "error"

Ended(call, report) == [call EXCEPT !.pc = "end", !.report = report, !.before = <<>>,
                                    !.index = 0, !.slot = 0, !.aimed = None]
\* Once the input is delivered, a frame that cannot be captured is no failure.
CaughtAfterwards(task) == IF task = "shot" THEN "done" ELSE "error"
Uncaught(task) == "error" \* mutant
Failed(task) == CaughtAfterwards(task)

Begin(c) == \E job \in JobsOf[c], index \in 0..2 :
    /\ web[c].pc = "idle" /\ job # "answer"
    /\ job # "tap" => index = 0
    /\ web' = [web EXCEPT ![c] =
          IF known # 0 THEN Ended([Unsaid EXCEPT !.job = job], "blocked")
          ELSE [Unsaid EXCEPT !.job = job, !.step = 1, !.pc = "ready", !.index = index]]
    /\ UNCHANGED <<page, fields, targets, toPage, toServer, known>>

\* An already-open dialog wins without the task ever being sent.
SentAnyway(c) == TRUE \* mutant
MaySend(c) == known = 0 \/ ~Raced(Task(c))
RaceDialog(c) ==
    /\ web[c].pc = "ready"
    /\ IF MaySend(c)
       THEN /\ toPage' = Append(toPage, [by |-> c, task |-> Task(c), slot |-> web[c].slot, told |-> known # 0])
            /\ web' = [web EXCEPT ![c].pc = "wait", ![c].sent = @ \/ Task(c) \in Inputs]
       ELSE UNCHANGED toPage /\ web' = [web EXCEPT ![c] = Ended(@, OnDialog(Task(c)))]
    /\ UNCHANGED <<page, fields, targets, toServer, known>>
TimesOut(c) ==
    /\ web[c].pc = "wait"
    /\ web' = [web EXCEPT ![c] = Ended(@, Failed(Task(c)))]
    /\ UNCHANGED <<page, fields, targets, toPage, toServer, known>>

-----------------------------------------------------------------------------
(* The page.                                                               *)
BuildDomCollectJs(c) ==
    SelectSeq(Elements, LAMBDA e : e \in page.mounted /\ Rank[c][e] \in {"exact", "folded", "part"})
\* The best tier that has candidates, and the one of them the index names.
PickDomTarget(c) ==
    LET cands == BuildDomCollectJs(c)
        Tier(q) == {i \in DOMAIN cands : Rank[c][cands[i]] \in q}
        pool  == IF Tier({"exact"}) # {} THEN Tier({"exact"})
                 ELSE IF Tier({"exact", "folded"}) # {} THEN Tier({"exact", "folded"})
                 ELSE DOMAIN cands
        index == web[c].index
        named == {i \in pool : index = 0 \/ Cardinality({j \in pool : j <= i}) = index}
    IN IF named = {} THEN [kind |-> "none"]
       ELSE IF Cardinality(named) # 1 THEN [kind |-> "ambiguous"]
       ELSE [kind |-> "ok", cand |-> cands[CHOOSE i \in named : TRUE]]

\* A candidate keeps its place among all of them.
PlaceInPool(c, e) == IF web[c].index = 0 THEN 1 ELSE web[c].index \* mutant
PlaceOf(c, e) == CHOOSE i \in DOMAIN BuildDomCollectJs(c) : BuildDomCollectJs(c)[i] = e
\* What is at a place of the global, and still on the page.
Target(slot) ==
    IF slot \in DOMAIN targets /\ targets[slot] \in page.mounted THEN targets[slot] ELSE None

Value(c, t) ==
    CASE t.task = "collect" -> PickDomTarget(c)
      [] t.task \in {"prepare", "focus"} -> [elem |-> Target(t.slot),
                before |-> IF Target(t.slot) = None THEN <<>> ELSE fields[Target(t.slot)]]
      [] t.task = "read" -> [elem |-> Target(t.slot),
                value |-> IF Target(t.slot) = None THEN <<>> ELSE fields[Target(t.slot)]]
      [] OTHER -> [elem |-> None]
Reply(t) == [kind |-> "reply", by |-> t.by, task |-> t.task, value |-> Value(t.by, t),
             slot |-> IF t.task = "collect" /\ PickDomTarget(t.by).kind = "ok"
                      THEN PlaceOf(t.by, PickDomTarget(t.by).cand) ELSE t.slot]
Opening(d) == [kind |-> "opened", dialog |-> d]

\* A collection takes the global from every call that is about to use it.
Watched(t) ==
    [c \in Agents |->
        IF t.task = "collect" THEN [web[c] EXCEPT !.alone = c = t.by] ELSE web[c]]
Runs == \E opens \in BOOLEAN :
    LET t == Head(toPage) IN
    /\ toPage # <<>> /\ page.dialog = 0
    /\ opens => t.task \in Inputs /\ page.opened < MaxDialogs
    /\ toPage' = Tail(toPage)
    /\ targets' = IF t.task = "collect" THEN BuildDomCollectJs(t.by) ELSE targets
    /\ fields' = IF t.task = "insert" /\ page.focus # None
                 THEN [fields EXCEPT ![page.focus] = Append(@, t.by)] ELSE fields
    /\ page' = IF opens THEN [page EXCEPT !.dialog = page.opened + 1, !.opened = @ + 1, !.held = <<Reply(t)>>]
               ELSE IF t.task = "focus" /\ Target(t.slot) # None
               THEN [page EXCEPT !.focus = Target(t.slot)] ELSE page
    /\ toServer' = Append(toServer, IF opens THEN Opening(page.opened + 1) ELSE Reply(t))
    /\ web' = Watched(t)
    /\ UNCHANGED known
TimerOpens ==
    /\ page.dialog = 0 /\ page.opened < MaxDialogs
    /\ page' = [page EXCEPT !.dialog = page.opened + 1, !.opened = @ + 1]
    /\ toServer' = Append(toServer, Opening(page.opened + 1))
    /\ UNCHANGED <<fields, targets, toPage, known, web>>
Closes(after) == /\ page' = [page EXCEPT !.dialog = 0, !.held = <<>>]
                 /\ toServer' = (Append(toServer, [kind |-> "closed"]) \o page.held) \o after
PersonCloses ==
    /\ page.dialog # 0 /\ Closes(<<>>)
    /\ UNCHANGED <<fields, targets, toPage, known, web>>
Unmounts == \E e \in page.mounted :
    /\ page' = [page EXCEPT !.mounted = @ \ {e}, !.focus = IF @ = e THEN None ELSE @]
    /\ UNCHANGED <<fields, targets, toPage, toServer, known, web>>
FocusMoves == \E e \in page.mounted :
    /\ page.dialog = 0 /\ page.focus \notin {e, None}
    /\ page' = [page EXCEPT !.focus = e]
    /\ UNCHANGED <<fields, targets, toPage, toServer, known, web>>

-----------------------------------------------------------------------------
(* The server hears of dialogs and gets its answers in the order sent.      *)
NoteDialogOpened(d) ==
    /\ known' = d
    /\ web' = [c \in Agents |-> IF web[c].pc = "wait" /\ Raced(Task(c))
                                THEN Ended(web[c], OnDialog(Task(c))) ELSE web[c]]
NoteDialogClosed ==
    /\ known' = 0
    /\ web' = [c \in Agents |-> IF web[c].pc = "closing" THEN Ended(web[c], "answered") ELSE web[c]]

\* A write is verified if the field holds what it held and what was sent.
JudgeTextEntry(c, landed) ==
    IF landed.elem # None /\ landed.value = Append(web[c].before, c) THEN "verified" ELSE "mismatch"
Advance(call) == IF call.step = Len(Tasks(call.job)) THEN Ended(call, "done")
                 ELSE [call EXCEPT !.step = @ + 1, !.pc = "ready"]
Answered(c, m) ==
    LET call == web[c] IN
    CASE m.task = "collect" ->
            IF m.value.kind = "ok"
            THEN Advance([call EXCEPT !.picked = m.value.cand, !.slot = m.slot])
            ELSE Ended(call, m.value.kind)
      [] m.task \in {"prepare", "focus"} ->
            IF m.value.elem = None THEN Ended(call, "gone")
            ELSE Advance([call EXCEPT !.aimed = m.value.elem, !.before = m.value.before])
      [] m.task = "read" -> Ended(call, JudgeTextEntry(c, m.value))
      [] OTHER -> Advance(call)
OnMessage ==
    /\ toServer # <<>> /\ toServer' = Tail(toServer)
    /\ LET m == Head(toServer) IN
         \/ m.kind = "opened" /\ NoteDialogOpened(m.dialog)
         \/ m.kind = "closed" /\ NoteDialogClosed
         \/ /\ m.kind = "reply" /\ UNCHANGED known
            /\ web' = IF web[m.by].pc = "wait" /\ Task(m.by) = m.task
                      THEN [web EXCEPT ![m.by] = Answered(m.by, m)] ELSE web
         \/ /\ m.kind = "handled" /\ UNCHANGED known
            /\ web' = [web EXCEPT ![m.by] = IF known = 0 THEN Ended(@, "answered")
                                            ELSE [@ EXCEPT !.pc = "closing"]]
         \/ /\ m.kind = "noDialog" /\ UNCHANGED known
            /\ web' = [web EXCEPT ![m.by] = Ended(@, "noDialog")]
    /\ UNCHANGED <<page, fields, targets, toPage>>

-----------------------------------------------------------------------------
(* handle_dialog: answers what the page shows, and waits until it is closed. *)
AnswerDialog(c) ==
    /\ web[c].pc = "idle" /\ "answer" \in JobsOf[c]
    /\ web' = [web EXCEPT ![c] = IF known = 0 THEN Ended([Unsaid EXCEPT !.job = "answer"], "noDialog")
                                 ELSE [Unsaid EXCEPT !.job = "answer", !.pc = "answering", !.named = known]]
    /\ UNCHANGED <<page, fields, targets, toPage, toServer, known>>
HandleJavaScriptDialog(c) ==
    /\ web[c].pc = "answering"
    /\ IF page.dialog # 0 THEN Closes(<<[kind |-> "handled", by |-> c]>>)
       ELSE UNCHANGED page /\ toServer' = Append(toServer, [kind |-> "noDialog", by |-> c])
    /\ web' = [web EXCEPT ![c].pc = "sent"]
    /\ UNCHANGED <<fields, targets, toPage, known>>
CloseWaitEnds(c) ==
    /\ web[c].pc = "closing" /\ web' = [web EXCEPT ![c] = Ended(@, "unconfirmed")]
    /\ UNCHANGED <<page, fields, targets, toPage, toServer, known>>

Next == \/ Runs \/ TimerOpens \/ PersonCloses \/ Unmounts \/ FocusMoves \/ OnMessage
        \/ \E c \in Agents : \/ Begin(c) \/ RaceDialog(c) \/ TimesOut(c)
                             \/ AnswerDialog(c) \/ HandleJavaScriptDialog(c) \/ CloseWaitEnds(c)
Spec == Init /\ [][Next]_webVars

-----------------------------------------------------------------------------
\* Unless another call looked for elements in between, the element a tap clicks is the one
\* its query picked, and a text reported verified is in the field its query picked.
\* (chromium.ts:267-330: one global of the page holds the elements found.)
ActsOnThePicked == \A c \in Agents : web[c].alone =>
    /\ web[c].aimed \in {None, web[c].picked}
    /\ web[c].report = "verified" => c \in Range(fields[web[c].picked])

\* A click the page has answered is not reported as failed, whatever happens to the frame
\* after it: a failure would invite a retry that acts twice.  (chromiumTap.ts:137-149)
AnsweredNotFailed == \A c \in Agents :
    web[c].job = "tap" /\ web[c].step = 5 /\ web[c].pc = "end" => web[c].report \in {"done", "delivered"}

\* No input waits behind a dialog the server knew of when it sent it: it would land when the
\* dialog closes.  (chromiumDialogs.ts:82-92)
NothingLandsLate == \A i \in DOMAIN toPage :
    toPage[i].told => toPage[i].task \notin {"click", "key", "wheel"}

\* The code breaks this one (README, section 6).
\* "The input was delivered and opened" a dialog is said of input that was sent.
\* (chromiumTap.ts:191)
DeliveredWasSent == \A c \in Agents : web[c].report = "delivered" => web[c].sent
=============================================================================
