---------------------------- MODULE Navigation ----------------------------
(***************************************************************************)
(* Where the app is and how it got there: navigate (core/navigate.ts,      *)
(* navigation.ts) moves the app's router and polls until it has moved;     *)
(* get_screen_state and the timeline read the trail of screens             *)
(* (core/routeHistory.ts), which a listener in the app keeps for one run   *)
(* of the app and the server for all, next to what it sampled itself.      *)
(*                                                                         *)
(* A place is a route's name and what tells two visits of it apart, its    *)
(* key and params.  Times are left out of visits: what matters of leftAt   *)
(* is whether it is null, the visit open.                                  *)
(***************************************************************************)
EXTENDS Naturals, Sequences, SequencesExt

CONSTANTS
  Callers,            \* tool calls
  Settings,           \* an app, and what each call is: records of the app's router, "ref", "expo",
                      \* "screen" or "none", whether it can be read, and ops, of "trail", "navigate"
  Places,             \* where the app's router can be
  MaxVisits,          \* routeHistorySize
  NavPolls,           \* length of POLL_DELAYS_MS
  MaxMoves, MaxRuns   \* bounds

VARIABLES
  router, readable,   \* what buildNavHandlesSource resolves; whether it has a stateReader
  place, moves, run,  \* the app's: where it is, how often it moved, its run
  heading,            \* a move dispatched and not yet made
  store,              \* __ebRouteHistory
  epoch, sampled,     \* the server's: runs noticed, and the trail kept per device argument
  nav                 \* the calls

navVars == <<router, readable, place, moves, run, heading, store, epoch, sampled, nav>>
theApp  == <<router, readable, place, moves, run, heading, store>>

Nowhere    == <<"nowhere", 0>>
Registered == {p \in Places : p[2] > 0}
NoStore == [mode |-> "none", entries |-> <<>>]
Args    == {"name", "omitted"}    \* the device argument: its full name, or none

Unasked == [op |-> "none", pc |-> "idle", arg |-> "name", epoch |-> 1, got |-> NoStore, polls |-> 0,
            to |-> Nowhere, was |-> Nowhere, at |-> Nowhere, settled |-> FALSE, answer |-> "none"]

Init ==
  /\ \E s \in Settings :
       /\ router = s.router /\ readable = s.readable
       /\ nav = [c \in Callers |-> [Unasked EXCEPT !.op = s.ops[c]]]
  /\ place = Nowhere /\ moves = 0 /\ run = 1 /\ heading = Nowhere
  /\ store = NoStore /\ epoch = 1 /\ sampled = [a \in Args |-> <<>>]

-----------------------------------------------------------------------------
(* The app *)

Latest(s) == SubSeq(s, IF Len(s) > MaxVisits THEN Len(s) - MaxVisits + 1 ELSE 1, Len(s))
CloseLast(s) == IF s = <<>> THEN s ELSE [s EXCEPT ![Len(s)].open = FALSE]
Entry(name, from) == [route |-> name, from |-> from, open |-> TRUE]

(* record, the listener: a visit of the place the router is at now *)
Recorded(s, p) ==
  IF p = Nowhere \/ (s # <<>> /\ Last(s).route = p[1]) THEN s
  ELSE Latest(Append(CloseLast(s), Entry(p[1], IF s = <<>> THEN "unknown" ELSE Last(s).route)))

Move(p) ==
  /\ moves < MaxMoves /\ moves' = moves + 1 /\ p # place /\ place' = p
  /\ store' = IF store.mode = "listener" THEN [store EXCEPT !.entries = Recorded(@, p)] ELSE store
  /\ UNCHANGED <<router, readable, run, epoch, sampled, nav>>

(* the user, or what a tool dispatched, unless a guard takes it back *)
UserMoves == \E p \in Registered : Move(p) /\ UNCHANGED heading
Arrives   == heading # Nowhere /\ Move(heading) /\ heading' = Nowhere
Bounced   ==
  /\ heading # Nowhere /\ heading' = Nowhere
  /\ UNCHANGED <<router, readable, place, moves, run, store, epoch, sampled, nav>>

(* a reload or a new process: the server may hear of it at once, or when the
   mirror next asks (state.ts bumpEpoch) *)
Restart ==
  /\ run < MaxRuns /\ run' = run + 1 /\ store' = NoStore /\ heading' = Nowhere
  /\ place' = Nowhere
  /\ UNCHANGED <<router, readable, moves, epoch, sampled, nav>>
Notice ==
  /\ epoch < run /\ epoch' = epoch + 1
  /\ UNCHANGED <<theApp, sampled, nav>>

(* buildRouteHistoryInstallSource: on connect and by the reader; a second one
   changes nothing *)
Installed ==
  IF store # NoStore THEN store
  ELSE IF readable THEN [mode |-> "listener", entries |-> Recorded(<<>>, place)]
  ELSE [mode |-> "sampled", entries |-> <<>>]
ConnectInstalls ==
  /\ store' = Installed
  /\ UNCHANGED <<router, readable, place, moves, run, heading, epoch, sampled, nav>>

-----------------------------------------------------------------------------
(* The trail *)

(* getEpoch of the argument as it was given: no device has the name "default" *)
EpochOf(arg) == IF arg = "name" THEN epoch ELSE 1

(* the filter by epoch: the visits of the other runs *)
OtherRuns(trail, e) ==
  LET kept[n \in 0..Len(trail)] ==
        IF n = 0 THEN <<>>
        ELSE IF trail[n].epoch = e THEN kept[n - 1] ELSE Append(kept[n - 1], trail[n])
  IN  kept[Len(trail)]

MergedOpen(trail, entries, e) ==            \* mutant: the last visit of the run before stays open
  Latest(OtherRuns(trail, e)
         \o [i \in DOMAIN entries |-> [route |-> entries[i].route, from |-> entries[i].from,
                                       open |-> entries[i].open, epoch |-> e]])

(* mergeListenerEntries: what the app holds stands for its whole run *)
Merged(trail, entries, e) ==
  LET before  == OtherRuns(trail, e)
      thisRun == [i \in DOMAIN entries |->
                    [route |-> entries[i].route, from |-> entries[i].from,
                     open |-> entries[i].open, epoch |-> e]]
  IN  Latest((IF entries = <<>> THEN before ELSE CloseLast(before)) \o thisRun)
(* recordSampledRoute: a new run is a new visit although the route is the same *)
Visit(name, from, e) == [route |-> name, from |-> from, open |-> TRUE, epoch |-> e]
SampledOn(trail, name, e) ==                \* mutant
  IF trail = <<>> THEN <<Visit(name, "unknown", e)>>
  ELSE IF Last(trail).route = name /\ Last(trail).epoch = e THEN trail
  ELSE Latest(Append(CloseLast(trail), Visit(name, Last(trail).route, e)))
Sampled(trail, name, e) ==
  IF trail = <<>> \/ ~Last(trail).open THEN Latest(Append(trail, Visit(name, "unknown", e)))
  ELSE IF Last(trail).route = name /\ Last(trail).epoch = e THEN trail
  ELSE LET from == IF Last(trail).epoch = e THEN Last(trail).route ELSE "unknown"
       IN  Latest(Append(CloseLast(trail), Visit(name, from, e)))

Asks(c, pc, got) == nav' = [nav EXCEPT ![c].pc = pc, ![c].got = got]

(* get_screen_state: the walk has read the route *)
Walked(c) ==
  /\ nav[c].op = "trail" /\ nav[c].pc = "idle"
  /\ \E arg \in Args :
       nav' = [nav EXCEPT ![c].pc = "walked", ![c].arg = arg, ![c].at = place]
  /\ UNCHANGED <<theApp, epoch, sampled>>

(* the sample is taken; readRouteHistory, if asked for, begins with the epoch of now *)
Sample(c) ==
  /\ nav[c].pc = "walked"
  /\ LET arg == nav[c].arg
         e   == EpochOf(arg)
     IN  /\ sampled' = IF nav[c].at = Nowhere THEN sampled
                       ELSE [sampled EXCEPT ![arg] = Sampled(@, nav[c].at[1], e)]
         /\ \E pc \in {"read", "done"} : nav' = [nav EXCEPT ![c].pc = pc, ![c].epoch = e]
  /\ UNCHANGED <<theApp, epoch>>

(* the app evaluates, or the call fails, which reads as no buffer *)
Evaluated(c) ==
  /\ nav[c].pc \in {"read", "again"}
  /\ \E got \in {store, NoStore} :
       Asks(c, IF nav[c].pc = "read" THEN "told" ELSE "told again", got)
  /\ UNCHANGED <<theApp, epoch, sampled>>

Merge(c) ==
  /\ nav[c].pc \in {"told", "told again"} /\ nav[c].got.mode = "listener"
  /\ sampled' = [sampled EXCEPT ![nav[c].arg] = Merged(@, nav[c].got.entries, nav[c].epoch)]
  /\ Asks(c, "done", NoStore)
  /\ UNCHANGED <<theApp, epoch>>

Install(c) ==
  /\ nav[c].pc = "told" /\ nav[c].got = NoStore
  /\ store' = Installed
  /\ \E heard \in BOOLEAN : Asks(c, IF heard /\ store'.mode = "listener" THEN "again" ELSE "done", NoStore)
  /\ UNCHANGED <<router, readable, place, moves, run, heading, epoch, sampled>>

Fallback(c) ==
  /\ \/ nav[c].pc = "told" /\ nav[c].got.mode = "sampled"
     \/ nav[c].pc = "told again" /\ nav[c].got.mode # "listener"
  /\ Asks(c, "done", NoStore)
  /\ UNCHANGED <<theApp, epoch, sampled>>

-----------------------------------------------------------------------------
(* navigate *)

NameOnly(p) == p[1]                         \* mutant
Identity(p) == p
Read == IF readable THEN place ELSE Nowhere

(* a route name is checked against the table, if there is one; a path is not;
   "back" and "reset" have no destination *)
Refuses(c) ==
  router = "none" \/ (router = "ref" /\ nav[c].to # Nowhere /\ nav[c].to \notin Registered)

(* what is dispatched: a name or path the router does not know does nothing *)
Targets(c) ==
  IF nav[c].to = Nowhere THEN Registered
  ELSE IF nav[c].to \in Registered THEN {nav[c].to} ELSE {heading}

Begin(c) ==
  /\ nav[c].op = "navigate" /\ nav[c].pc = "idle"
  /\ \E p \in Places \union {Nowhere} : nav' = [nav EXCEPT ![c].pc = "asking", ![c].to = p]
  /\ UNCHANGED <<theApp, epoch, sampled>>

Dispatch(c) ==
  /\ nav[c].op = "navigate" /\ nav[c].pc = "asking"
  /\ \/ /\ nav' = [nav EXCEPT ![c].pc = "done", ![c].answer = "error"]   \* or the router throws
        /\ UNCHANGED heading
     \/ /\ ~Refuses(c)
        /\ nav' = [nav EXCEPT ![c].pc = "poll", ![c].was = Read, ![c].at = Read]
        /\ heading' \in Targets(c)
  /\ UNCHANGED <<router, readable, place, moves, run, store, epoch, sampled>>

Outcome(c, settled, at) ==
  IF ~settled THEN "indeterminate"
  ELSE IF Identity(at) # Identity(nav[c].was) THEN "changed" ELSE "unchanged"

(* one poll: it fails, or the app says where it is; the first difference ends them *)
Poll(c) ==
  /\ nav[c].pc = "poll"
  /\ \E heard \in BOOLEAN :
       LET at      == IF heard THEN Read ELSE nav[c].at
           settled == heard \/ nav[c].settled
           over    == nav[c].polls + 1 = NavPolls \/ (heard /\ Identity(at) # Identity(nav[c].was))
       IN  nav' = [nav EXCEPT ![c].polls = @ + 1, ![c].at = at, ![c].settled = settled,
                              ![c].pc = IF over THEN "done" ELSE "poll",
                              ![c].answer = IF over THEN Outcome(c, settled, at) ELSE "none"]
  /\ UNCHANGED <<theApp, epoch, sampled>>

-----------------------------------------------------------------------------
CallStep(c) ==
  \/ Begin(c) \/ Walked(c) \/ Sample(c) \/ Evaluated(c) \/ Merge(c) \/ Install(c)
  \/ Fallback(c) \/ Dispatch(c) \/ Poll(c)

Next ==
  \/ UserMoves \/ Arrives \/ Bounced \/ Restart \/ Notice \/ ConnectInstalls
  \/ \E c \in Callers : CallStep(c)

NavSpec == Init /\ [][Next]_navVars

-----------------------------------------------------------------------------
(* At most the last visit of a trail has no end, whatever reads, samples and
   restarts overlapped: no dwell runs on after its screen was left
   (routeHistory.ts:252). *)
OneCurrent ==
  \A a \in Args : \A i \in DOMAIN sampled[a] : sampled[a][i].open => i = Len(sampled[a])

(* "<- from X" names the visit before in the trail, of the same run: a screen of
   the run before is no way here, "null when unknown (first visit, or after a
   restart)" (routeHistory.ts:21); also where the app's buffer has lost its
   head and an earlier run's entries come in after a later one's. *)
FromIsPrevious ==
  \A a \in Args : \A i \in 2..Len(sampled[a]) :
    LET v == sampled[a][i]  u == sampled[a][i - 1]
    IN  v.from \in {"unknown"} \union (IF u.epoch = v.epoch THEN {u.route} ELSE {})

(* "The route did not change" is not said of a move that was in place when the
   app was last asked, nor "changed" where the app is where it was; to the same
   route with other params is a move (navigate.ts:192). *)
ChangedTrue ==
  \A c \in Callers :
    readable => /\ nav[c].answer = "unchanged" => nav[c].at = nav[c].was
                /\ nav[c].answer = "changed" => nav[c].at # nav[c].was

(* The code breaks this one (README, section 6).
   "changed: false and indeterminate mean different things and must not be
   collapsed: the first says a guard bounced us or the destination was already
   current; the second says we never obtained a settled reading at all"
   (navigate.ts:30): without a state reader every move reads as unchanged. *)
UnchangedWasRead == \A c \in Callers : nav[c].answer = "unchanged" => readable

(* The code breaks this one (README, section 6).
   Entries of this run are replaced "while older runs are left intact"
   (routeHistory.ts:236): no read drops a visit of an earlier run but for the cap. *)
OlderRunsKept ==
  [][\A a \in Args : \A e \in 1..run - 1 :
       Len(sampled'[a]) < MaxVisits =>
         Len(SelectSeq(sampled'[a], LAMBDA v : v.epoch = e)) >= Len(SelectSeq(sampled[a], LAMBDA v : v.epoch = e))]_navVars
=============================================================================
