----------------------------- MODULE MockTable -----------------------------
(* What mocking promises the agent: the app answers from one of the rule
   lists the server has had, never from an older one than it already used in
   this run, and a rule with a budget fires within it in one run of the app,
   however often the list around it was edited meanwhile.  MockRules shows
   that pushing whole lists over a connection that comes and goes keeps it. *)
EXTENDS Naturals, Sequences, Functions

CONSTANTS
    Rule,           \* every rule there may be: [owner, times, op]
    Id              \* every id one may be given

VARIABLES
    versions,       \* the lists the server has had, the latest last; a list is
                    \* a function of its ids, which grow towards its end
    at,             \* the one the app answers from; 0 before the first
    force,          \* its rules the app can honour
    used,           \* how often each of them fired in this run
    knows           \* can the app tell one GraphQL operation from another?

tableVars == <<versions, at, force, used, knows>>

Nothing == [i \in {} |-> 0]
Latest == versions[Len(versions)]

Fresh(i) == force[i].times = 0 \/ used[i] < force[i].times

Honoured(rules) == IF knows THEN rules
                   ELSE Restrict(rules, {i \in DOMAIN rules : ~rules[i].op})

TableInit ==
    /\ versions = <<Nothing>> /\ at = 0 /\ force = Nothing /\ used = Nothing
    /\ knows \in BOOLEAN

(* some rules go, and at most one comes, behind the others *)
Edit ==
    /\ \E kept \in SUBSET DOMAIN Latest :
          \/ versions' = Append(versions, Restrict(Latest, kept))
          \/ \E id \in Id, rule \in Rule :
                /\ \A i \in DOMAIN Latest : i < id
                /\ versions' = Append(versions, [i \in kept \union {id} |->
                                                    IF i = id THEN rule ELSE Latest[i]])
    /\ UNCHANGED <<at, force, used, knows>>

(* the app takes over a list no older than its own, budgets and all *)
Sync == \E n \in at..Len(versions) \ {0} :
    /\ at' = n /\ force' = Honoured(versions[n])
    /\ used' = [i \in DOMAIN force' |-> IF i \in DOMAIN used THEN used[i] ELSE 0]
    /\ UNCHANGED <<versions, knows>>

(* the first rule that is not spent and matches the request *)
Fire(query) == \E i \in DOMAIN force :
    LET Hits(k) == Fresh(k) /\ (force[k].op => query)
    IN  /\ Hits(i) /\ \A j \in DOMAIN force : j < i => ~Hits(j)
        /\ used' = IF force[i].times = 0 THEN used ELSE [used EXCEPT ![i] = @ + 1]
        /\ UNCHANGED <<versions, at, force, knows>>

(* a new run of the app: no list, every budget whole *)
Restart ==
    /\ at' = 0 /\ force' = Nothing /\ used' = Nothing /\ knows' = FALSE
    /\ UNCHANGED versions

Learn == knows' = TRUE /\ UNCHANGED <<versions, at, force, used>>

TableNext == Edit \/ Sync \/ Restart \/ Learn \/ \E query \in BOOLEAN : Fire(query)

TableSpec == TableInit /\ [][TableNext]_tableVars
=============================================================================
