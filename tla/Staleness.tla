----------------------------- MODULE Staleness -----------------------------
(***************************************************************************)
(* Did the screen move under the agent, or did the agent aim at the wrong  *)
(* thing?  core/screenStaleness.ts remembers what the agent was last shown *)
(* on a device and, on a targeting miss, compares it with what is there    *)
(* now.  Three tools write that memory, each with the elements it looks    *)
(* at: get_screen_state (tools/componentTools.ts), input_text              *)
(* (core/textEntry.ts) and tap (pro/tap.ts); the record of which tool ran  *)
(* is made when the tool returns (core/register.ts) and names no device.   *)
(*                                                                         *)
(* A screen is a name; every screen has its own pressables and its own     *)
(* inputs.  Time is the number of steps that read a clock.                 *)
(***************************************************************************)
EXTENDS Naturals, FiniteSets

CONSTANTS
    Devices,
    Screens,
    Calls,      \* tool calls of the agent
    MaxMoves,   \* bound: changes of the screen by somebody else
    MaxClock    \* bound: a call starts before this time

VARIABLES
    screen, keyboard,   \* per device: what it shows, whether a field has the focus
    snapshots,          \* per device: what the agent was last shown
    lastMutatingAt,
    clock,
    calls,              \* per call: tool, device and how far it is
    verdict,            \* history: of the calls that missed
    moves               \* how often somebody else has changed a screen

vars == <<screen, keyboard, snapshots, lastMutatingAt, clock, calls, verdict, moves>>
shown == <<screen, keyboard>>

\* A snapshot also says, as history, who has changed the screen since: somebody
\* else, or calls of the agent, and whether one of those has returned.
Unchanged  == [moved |-> FALSE, acted |-> {}, returned |-> FALSE]
NoSnapshot == [elements |-> {}, focused |-> FALSE, at |-> 0, since |-> Unchanged]
Idle       == [tool |-> "none", dev |-> CHOOSE d \in Devices : TRUE, step |-> "idle"]
NoVerdict  == [kind |-> "none", since |-> Unchanged]

\* What each tool calls the elements of a screen: a read names its
\* pressables and its inputs, input_text its inputs, tap those that matched.
Vocabulary(tool) == CASE tool = "read" -> {"press", "input"}
                      [] tool = "type" -> {"input"}
                      [] OTHER         -> {"press"}
ElementsOf(tool, s) == {<<s, e>> : e \in Vocabulary(tool)}
\* Only the read and a resolved input know the focus; a miss assumes none.
FocusOf(tool, d) == tool # "tap" /\ keyboard[d]

Mutating == {"type", "tap"}

Init ==
    /\ screen \in [Devices -> {CHOOSE s \in Screens : TRUE}]
    /\ keyboard \in [Devices -> BOOLEAN]
    /\ snapshots = [d \in Devices |-> NoSnapshot]
    /\ lastMutatingAt = 0 /\ clock = 1
    /\ calls = [c \in Calls |-> Idle]
    /\ verdict = [c \in Calls |-> NoVerdict]
    /\ moves = 0

Snapshot(tool, d) ==
    [elements |-> ElementsOf(tool, screen[d]), focused |-> FocusOf(tool, d),
     at |-> clock, since |-> Unchanged]

Start(c, tool, d) ==
    /\ calls[c].step = "idle" /\ clock < MaxClock
    /\ calls' = [calls EXCEPT ![c] = [tool |-> tool, dev |-> d, step |-> "running"]]
    /\ UNCHANGED <<shown, snapshots, lastMutatingAt, clock, verdict, moves>>

\* recordScreen: the call found its target, or read the screen; a tap without
\* a list of matches has nothing to record, nor to compare.
Silent(tool) == IF tool = "tap" THEN BOOLEAN ELSE {FALSE}
Record(c) ==
    /\ calls[c].step = "running"
    /\ \E silent \in Silent(calls[c].tool) :
          snapshots' = IF silent THEN snapshots
                       ELSE [snapshots EXCEPT ![calls[c].dev] = Snapshot(calls[c].tool, calls[c].dev)]
    /\ calls' = [calls EXCEPT ![c].step = IF calls[c].tool = "read" THEN "ends" ELSE "acts"]
    /\ clock' = clock + 1
    /\ UNCHANGED <<shown, lastMutatingAt, verdict, moves>>

\* diagnoseStaleness: the comparison, which also replaces the baseline.
Excused(p) == lastMutatingAt >= p.at
KindOf(p, n) ==
    LET lostFocus == p.focused /\ ~n.focused
        same      == p.elements = n.elements
    IN  IF p.at = 0 \/ Excused(p) \/ (same /\ ~lostFocus) THEN "genuine_miss"
        ELSE IF p.elements # {} /\ n.elements # {} /\ p.elements \cap n.elements = {}
        THEN "stale_navigation"
        ELSE "stale_inscreen"

Miss(c) ==
    LET d == calls[c].dev
        p == snapshots[d]
        n == [Snapshot(calls[c].tool, d) EXCEPT !.focused = FALSE]
    IN  /\ calls[c].step = "running" /\ calls[c].tool \in Mutating
        /\ \E silent \in Silent(calls[c].tool) :
              IF silent THEN UNCHANGED <<snapshots, verdict>>
              ELSE /\ snapshots' = [snapshots EXCEPT ![d] = n]
                   /\ verdict' = [verdict EXCEPT ![c] =
                         [kind |-> KindOf(p, n), since |-> p.since]]
        /\ calls' = [calls EXCEPT ![c].step = "ends"]
        /\ clock' = clock + 1
        /\ UNCHANGED <<shown, lastMutatingAt, moves>>

\* The tool does its work, which may move the screen, ...
Act(c) ==
    /\ calls[c].step = "acts"
    /\ calls' = [calls EXCEPT ![c].step = "ends"]
    /\ \E s \in Screens, k \in BOOLEAN :
          /\ screen' = [screen EXCEPT ![calls[c].dev] = s]
          /\ keyboard' = [keyboard EXCEPT ![calls[c].dev] = k]
    /\ snapshots' = [snapshots EXCEPT ![calls[c].dev].since.acted = @ \cup {c}]
    /\ UNCHANGED <<lastMutatingAt, clock, verdict, moves>>

OfTheLastTool(tool) == IF tool \in Mutating THEN clock ELSE 0 \* mutant
Latest(tool) == IF tool \in Mutating THEN clock ELSE lastMutatingAt
\* ... and the wrapper's finally calls recordToolCall.
End(c) ==
    /\ calls[c].step = "ends"
    /\ lastMutatingAt' = Latest(calls[c].tool)
    /\ clock' = clock + 1
    /\ calls' = [calls EXCEPT ![c] = Idle]
    /\ verdict' = [verdict EXCEPT ![c] = NoVerdict]
    /\ snapshots' = [d \in Devices |-> LET p == snapshots[d]
                                       IN  IF c \in p.since.acted THEN [p EXCEPT !.since.returned = TRUE] ELSE p]
    /\ UNCHANGED <<shown, moves>>

\* A person uses the app.
Interfere(d) ==
    /\ moves < MaxMoves
    /\ \E s \in Screens, k \in BOOLEAN :
          /\ s # screen[d] \/ k # keyboard[d]
          /\ screen' = [screen EXCEPT ![d] = s] /\ keyboard' = [keyboard EXCEPT ![d] = k]
    /\ moves' = moves + 1
    /\ snapshots' = [snapshots EXCEPT ![d].since.moved = TRUE]
    /\ UNCHANGED <<lastMutatingAt, clock, calls, verdict>>

Next ==
    \/ \E c \in Calls : \/ \E tool \in {"read", "type", "tap"}, d \in Devices : Start(c, tool, d)
                        \/ Record(c) \/ Miss(c) \/ Act(c) \/ End(c)
    \/ \E d \in Devices : Interfere(d)

Spec == Init /\ [][Next]_vars

-----------------------------------------------------------------------------
Stale(v) == v.kind \in {"stale_navigation", "stale_inscreen"}

\* A change that a call of the agent made since the baseline, and that has
\* returned, is never blamed on somebody else, however the calls overlap: what
\* was read afterwards, here or on another device, does not make it forget that
\* it moved the screen.  Before that call returns it is: a move is recorded
\* when its call ends.  (screenStaleness.ts:75-98)
OwnMoveExcused == \A c \in Calls : Stale(verdict[c]) => ~verdict[c].since.returned

\* The code breaks this one (README, section 6).
\* A miss is blamed on somebody else only when the screen did change since
\* the baseline: never for the difference between two tools' views of one
\* screen.  (screenStaleness.ts:7-17: the three situations to tell apart)
BlamedTruly == \A c \in Calls : Stale(verdict[c]) => verdict[c].since.moved \/ verdict[c].since.acted # {}
=============================================================================
