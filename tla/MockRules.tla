----------------------------- MODULE MockRules -----------------------------
(* network_mock and network_condition (mockRules.ts, networkTools.ts): the
   server owns a device's rules and pushes them whole, fire-and-forget, over
   a connection that may drop; the app's interceptor (networkInterceptor.ts)
   answers from the last list it was given and reports each use back.  A new
   JavaScript context forgets everything until the server hears of it. *)
EXTENDS Naturals, Sequences, Functions

CONSTANTS
    Times,          \* the budgets network_mock gives a rule; 0 is no limit
    MaxEdits, MaxFires, MaxRuns, MaxDrops       \* bounds on what happens

ASSUME MockAssumption == Times \subseteq Nat /\ MaxEdits \in Nat

VARIABLES
    made,           \* rulesByDevice after each edit; the last is what holds.  A list
                    \* is a function of its ids: a new rule takes the next id and
                    \* goes to the end, so the order of the ids is the list's
    hits,           \* what the server counted for each rule
    nextId,
    up,             \* is the app connected?
    hears,          \* is the connection's message handler attached?
    wire,           \* what was sent and not yet evaluated: Inject, or the number of a list
    back,           \* console events on their way: a rule that fired, or a new context
    seat,           \* the context's interceptor: "none", "old" (an older execbro's) or "new"
    app,            \* __RN_NET_MOCKS__: rules and how often each was used
    at,             \* the number of the list it came from
    fires, runs, drops

mockVars == <<made, hits, nextId, up, hears, wire, back, seat, app, at, fires, runs, drops>>
server == <<made, hits, nextId>>
context == <<seat, app, at>>
spent == <<fires, runs, drops>>

MockIds == 1..MaxEdits
Rule == [owner : {"mock", "condition"}, times : Times \union {0}, op : BOOLEAN]
NoRules == [i \in {} |-> 0]
Rules == made[Len(made)]
Edits == Len(made) - 1

(* what a push leaves in the app: rules the interceptor cannot honour are held
   back, and a rule it already had keeps its budget *)
Supported(rules) == {i \in DOMAIN rules : rules[i].op => seat = "new"}

RearmedPush(rules) ==           \* mutant
    [i \in Supported(rules) |-> [rule |-> rules[i], used |-> 0]]

AfterPush(rules) ==
    [i \in Supported(rules) |->
        [rule |-> rules[i], used |-> IF i \in DOMAIN app THEN app[i].used ELSE 0]]

Inject == 0
Push(m) == <<m>>

Ungreeted(m) == <<Inject>>    \* mutant

(* inject, then the rules: on connecting, and on hearing of a new context *)
Greeting(m) == <<Inject>> \o Push(m)

(* an older execbro may have left its interceptor in the context, with no rules *)
MockInit ==
    /\ made = <<NoRules>> /\ hits = [i \in MockIds |-> 0] /\ nextId = 1
    /\ up = TRUE /\ hears \in BOOLEAN /\ wire = Greeting(1) /\ back = <<>>
    /\ seat \in {"none", "old"} /\ app = NoRules /\ at = 0
    /\ fires = 0 /\ runs = 0 /\ drops = 0

-----------------------------------------------------------------------------
(* the tools; each edit is followed by a push of the whole list *)

Edited(rules) ==
    /\ Edits < MaxEdits
    /\ made' = Append(made, rules)
    /\ wire' = IF up THEN wire \o Push(Len(made')) ELSE wire
    /\ UNCHANGED <<hits, up, hears, back, context, spent>>

(* the rules that stay, and a new one behind them *)
With(rules, rule) ==
    [i \in DOMAIN rules \union {nextId} |-> IF i = nextId THEN rule ELSE rules[i]]

New(owner, times, op) == [owner |-> owner, times |-> times, op |-> op]

AddRule(times, op) ==
    /\ up /\ Edited(With(Rules, New("mock", times, op)))
    /\ nextId' = nextId + 1

RemoveRule(id) ==
    /\ up /\ Edited(Restrict(Rules, DOMAIN Rules \ {id}))
    /\ UNCHANGED nextId

(* a clear that names no device needs no connection *)
ClearRules == DOMAIN Rules # {} /\ Edited(NoRules) /\ UNCHANGED nextId

(* network_condition replaces its own rule and no other *)
NetworkCondition(on) ==
    LET others == Restrict(Rules, {i \in DOMAIN Rules : Rules[i].owner # "condition"})
    IN  /\ up /\ Edited(IF on THEN With(others, New("condition", 0, FALSE)) ELSE others)
        /\ nextId' = IF on THEN nextId + 1 ELSE nextId

-----------------------------------------------------------------------------
(* the app evaluates what it was sent, in order *)
AppEvaluates ==
    /\ up /\ wire # <<>>
    /\ wire' = Tail(wire)
    /\ IF Head(wire) = Inject
       THEN seat' = (IF seat = "none" THEN "new" ELSE seat) /\ UNCHANGED <<app, at>>
       ELSE app' = AfterPush(made[Head(wire)]) /\ at' = Head(wire) /\ UNCHANGED seat
    /\ UNCHANGED <<server, up, hears, back, spent>>

(* an interceptor of before operations matches every request on the url *)
RuleMatches(entry, query) ==
    /\ entry.rule.times = 0 \/ entry.used < entry.rule.times
    /\ entry.rule.op => query \/ seat = "old"

(* a request meets the first rule that matches it and is not spent *)
MatchRule(query) == \E i \in DOMAIN app :
    /\ seat # "none" /\ fires < MaxFires
    /\ RuleMatches(app[i], query)
    /\ \A j \in DOMAIN app : j < i => ~RuleMatches(app[j], query)
    /\ app' = IF app[i].rule.times > 0 THEN [app EXCEPT ![i].used = @ + 1] ELSE app
    /\ back' = IF up THEN Append(back, [fired |-> i]) ELSE back
    /\ fires' = fires + 1
    /\ UNCHANGED <<server, up, hears, wire, seat, at, runs, drops>>

(* reload: the context goes with its list; the server learns of it by an event *)
ContextCreated ==
    /\ runs < MaxRuns /\ runs' = runs + 1
    /\ seat' = "none" /\ app' = NoRules /\ at' = 0
    /\ back' = IF up THEN Append(back, [fired |-> 0]) ELSE back
    /\ UNCHANGED <<server, up, hears, wire, fires, drops>>

ServerHears ==
    /\ hears /\ back # <<>> /\ back' = Tail(back)
    /\ LET id == Head(back).fired
       IN  IF id = 0
           THEN wire' = wire \o Greeting(Len(made)) /\ UNCHANGED hits
           ELSE /\ hits' = IF id \in DOMAIN Rules THEN [hits EXCEPT ![id] = @ + 1] ELSE hits
                /\ UNCHANGED wire
    /\ UNCHANGED <<made, nextId, up, hears, context, spent>>

(* an event of a socket whose handler is not attached yet is lost *)
EventLost ==
    /\ ~hears /\ back # <<>> /\ back' = Tail(back)
    /\ UNCHANGED <<server, up, hears, wire, context, spent>>

Disconnect ==
    /\ up /\ drops < MaxDrops /\ drops' = drops + 1
    /\ up' = FALSE /\ wire' = <<>> /\ back' = <<>>
    /\ UNCHANGED <<server, hears, context, fires, runs>>

(* connectToDevice greets the app and, but for a page or an app whose device has
   no name, awaits simctl and adb before it attaches the handler *)
Connect ==
    /\ ~up /\ up' = TRUE /\ wire' = Greeting(Len(made)) /\ hears' \in BOOLEAN
    /\ UNCHANGED <<server, back, context, spent>>

HandlerAttached ==
    /\ up /\ ~hears /\ hears' = TRUE
    /\ UNCHANGED <<server, up, wire, back, context, spent>>

MockNext ==
    \/ \E times \in Times, op \in BOOLEAN : AddRule(times, op)
    \/ \E id \in MockIds : RemoveRule(id)
    \/ ClearRules
    \/ \E on \in BOOLEAN : NetworkCondition(on)
    \/ AppEvaluates
    \/ \E query \in BOOLEAN : MatchRule(query)
    \/ ContextCreated
    \/ ServerHears
    \/ EventLost
    \/ Disconnect
    \/ Connect
    \/ HandlerAttached

MockSpec == MockInit /\ [][MockNext]_mockVars

-----------------------------------------------------------------------------
Answering == [i \in DOMAIN app |-> app[i].rule]

(* used of a rule without a budget is not kept; the promise does not ask for it *)
Table == INSTANCE MockTable WITH
    Id <- MockIds, versions <- made, force <- Answering, knows <- seat = "new",
    used <- [i \in DOMAIN app |-> app[i].used]

(* Pushing whole lists behaves as the table of MockTable: budgets are carried by
   id, no older list comes back within a run, an interceptor that cannot tell
   operations apart is never given a rule that needs it (networkInterceptor.ts:814). *)
MocksAsPromised == Table!TableSpec

(* A connected app that runs this execbro's interceptor, with nothing under way
   to it, answers from exactly the server's rules: no reload, drop or bare clear
   leaves it with others.  Nothing is said of a context without it. *)
SettledIsSame ==
    up /\ wire = <<>> /\ seat = "new" => Answering = Rules

(* The code breaks these two (README, section 6).
   A connected app has the interceptor once nothing is under way: "without this
   every reload_app would silently drop the agent's mocks" (connection.ts:1127);
   a context made before the handler is attached (connection.ts:1546) is not
   greeted. *)
ReloadIsGreeted == up /\ hears /\ wire = <<>> /\ back = <<>> => seat # "none"

(* What list shows as "spent" (mockRules.ts:308) fires no more: "fire at most
   N times, then pass through" (networkTools.ts:433). *)
SpentMeansSpent == \A i \in DOMAIN Rules \intersect DOMAIN app :
    Rules[i].times > 0 /\ hits[i] >= Rules[i].times => app[i].used >= Rules[i].times
=============================================================================
