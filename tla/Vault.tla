------------------------------- MODULE Vault -------------------------------
(* The credential vault (vault.ts): a credential that comes past on its way to
   the agent is kept and shown as a handle; vault_capture fetches one out of
   the app; http_request sends one, by its handle or by the host it is the
   current one for (vaultCapture.ts, redact.ts, httpRequest.ts), and app_request
   one the app holds (appRequest.ts).  A credential is a number, in the order
   the app came by them. *)
EXTENDS Naturals, Sequences, FiniteSets, SequencesExt

CONSTANTS Host, App,            \* App: seen in the app, on no host
          MaxEntries, MaxSteps      \* bounds; the code keeps 200 entries

VARIABLES
    token, minted,      \* the app's credential for each host; 0 is none
    network,            \* the captured requests: [host, token]
    entries,            \* byHash, in order of insertion: [value, handle, origin]
    issued,             \* every handle there was: <<base, n>>
    slots,              \* the current credential of a host; 0 is none
    capture,            \* the vault_capture call under way, or last answered
    sent,               \* the last request: [host, value, ours]
    seen, named,        \* history: where each value was observed; what each handle named
    steps

vaultVars == <<token, minted, network, entries, issued, slots, capture, sent, seen, named, steps>>
theApp == <<token, minted, network>>
vault == <<entries, issued, slots, seen, named>>

NoCapture == [step |-> "none", host |-> App, value |-> 0]
NotSent == [host |-> App, value |-> 0, ours |-> FALSE]

VaultInit ==
    /\ token = [h \in Host |-> 0] /\ minted = 0 /\ network = <<>>
    /\ entries = <<>> /\ issued = {} /\ slots = [h \in Host |-> 0]
    /\ capture = NoCapture /\ sent = NotSent /\ seen = {} /\ named = {} /\ steps = 0

Step == steps < MaxSteps /\ steps' = steps + 1

-----------------------------------------------------------------------------
(* The app: a login gives it a credential one host takes, or several.  A login
   that no step follows might as well come later, and is not followed by another. *)

Login(hosts) ==
    /\ minted <= steps /\ minted < MaxSteps /\ minted' = minted + 1
    /\ token' = [h \in Host |-> IF h \in hosts THEN minted' ELSE token[h]]
    /\ UNCHANGED <<network, vault, capture, sent, steps>>

AppSends(h) ==
    /\ token[h] > 0 /\ network' = Append(network, [host |-> h, token |-> token[h]]) /\ Step
    /\ UNCHANGED <<token, minted, vault, capture, sent>>

-----------------------------------------------------------------------------
ReassignedHandle(base) ==               \* mutant
    LET held == {entries[i].handle : i \in DOMAIN entries}
    IN  <<base, CHOOSE n \in 1..MaxSteps :
                    <<base, n>> \notin held /\ \A m \in 1..n-1 : <<base, m>> \in held>>

(* the first name of its kind and host that was never given *)
AssignHandle(base) ==
    <<base, CHOOSE n \in 1..Cardinality(issued) + 1 :
                <<base, n>> \notin issued /\ \A m \in 1..n-1 : <<base, m>> \in issued>>

Holding(value) == {i \in DOMAIN entries : entries[i].value = value}
Current(h, value) == IF h = App THEN slots ELSE [slots EXCEPT ![h] = value]

(* a value that is there keeps its handle, and its host once it has one: it
   becomes that host's current one.  The oldest entry makes room for a new one,
   and what slots point at it stay. *)
VaultAdd(value, origin) ==
    /\ seen' = seen \union {<<value, origin>>}
    /\ IF Holding(value) # {}
       THEN LET i == CHOOSE i \in Holding(value) : TRUE
                host == IF entries[i].origin = App THEN origin ELSE entries[i].origin
            IN  /\ entries' = [entries EXCEPT ![i].origin = host]
                /\ slots' = Current(host, value)
                /\ UNCHANGED <<issued, named>>
       ELSE LET handle == AssignHandle(origin)
                all == Append(entries, [value |-> value, handle |-> handle, origin |-> origin])
            IN  /\ issued' = issued \union {handle} /\ named' = named \union {<<handle, value>>}
                /\ entries' = IF Len(all) > MaxEntries THEN Tail(all) ELSE all
                /\ slots' = Current(origin, value)

(* get_request_details: the header of one captured request, however old *)
RedactHeaderValue(i) ==
    /\ Step /\ VaultAdd(network[i].token, network[i].host)
    /\ capture' = NoCapture /\ UNCHANGED <<theApp, sent>>

(* any other result with a credential in it: one that is held is only masked *)
RedactSecrets(value, origin) ==
    /\ Step
    /\ IF Holding(value) # {} THEN UNCHANGED vault
       ELSE VaultAdd(value, origin)
    /\ capture' = NoCapture /\ UNCHANGED <<theApp, sent>>

-----------------------------------------------------------------------------
(* vault_capture: the app evaluates, and what it holds may change meanwhile *)
CaptureToVault(h) ==
    /\ Step /\ capture.step \in {"none", "captured"}
    /\ capture' = [step |-> "asked", host |-> h, value |-> 0]
    /\ UNCHANGED <<theApp, vault, sent>>

AppEvaluated ==
    /\ capture.step = "asked"
    /\ capture' = [capture EXCEPT !.step = "told", !.value = token[capture.host]]
    /\ UNCHANGED <<theApp, vault, sent, steps>>

Captured ==
    /\ capture.step = "told"
    /\ IF capture.value = 0 THEN capture' = NoCapture /\ UNCHANGED vault
       ELSE capture' = [capture EXCEPT !.step = "captured"] /\ VaultAdd(capture.value, capture.host)
    /\ UNCHANGED <<theApp, sent, steps>>

-----------------------------------------------------------------------------
None == [value |-> 0, handle |-> <<App, 0>>, origin |-> App]

(* a handle names its value, a host its current one, unless it was evicted *)
VaultResolve(name) ==
    LET by == {i \in DOMAIN entries : entries[i].handle = name}
               \union {i \in DOMAIN entries : name \in Host /\ entries[i].value = slots[name]}
    IN  IF by = {} THEN None ELSE entries[CHOOSE i \in by : TRUE]

ResolveUnbound(name, target) == VaultResolve(name).value        \* mutant

(* only to the host the entry was observed on *)
ResolveAuth(name, target) ==
    IF VaultResolve(name).origin = target THEN VaultResolve(name).value ELSE 0

HttpRequest(name, target) ==
    /\ Step /\ ResolveAuth(name, target) > 0
    /\ sent' = [host |-> target, value |-> ResolveAuth(name, target), ours |-> TRUE]
    /\ UNCHANGED <<theApp, vault, capture>>

(* app_request: what redux holds, or else the header of the app's last request *)
BuildRequestExpression(h, redux) ==
    /\ Step /\ (redux => token[h] > 0)
    /\ sent' = [host |-> h, ours |-> FALSE,
                value |-> IF redux THEN token[h] ELSE IF network = <<>> THEN 0 ELSE Last(network).token]
    /\ network' = Append(network, [host |-> h, token |-> sent'.value])
    /\ UNCHANGED <<token, minted, vault, capture>>

VaultNext ==
    \/ \E hosts \in SUBSET Host \ {{}} : Login(hosts)
    \/ \E h \in Host :
        \/ AppSends(h) \/ CaptureToVault(h)
        \/ \E redux \in BOOLEAN : BuildRequestExpression(h, redux)
        \/ \E name \in Host \union issued : HttpRequest(name, h)
    \/ \E i \in DOMAIN network : network[i].token > 0 /\ RedactHeaderValue(i)
    \/ \E value \in 1..minted, origin \in Host \union {App} : RedactSecrets(value, origin)
    \/ AppEvaluated
    \/ Captured

VaultSpec == VaultInit /\ [][VaultNext]_vaultVars

-----------------------------------------------------------------------------
(* A handle read in the transcript names one value for good, though entries are
   evicted (vault.ts:57). *)
HandleNamesOne == \A x, y \in named : x[1] = y[1] => x = y

(* What http_request sends to a host was observed on it, by whatever name it
   was asked for and whatever was added, moved or evicted since. *)
SentWasSeenThere == sent.ours => <<sent.value, sent.host>> \in seen

(* Both: a name stands for one credential, and a credential stays where it was
   seen (vault.ts). *)
VaultNames == HandleNamesOne /\ SentWasSeenThere

(* The code breaks this one (README, section 6).
   "Captured for <host>. Use it with http_request({ auth: { secret: host } })"
   (vaultCapture.ts:74): that sends what was captured. *)
CapturedIsUsable ==
    capture.step = "captured" => ResolveAuth(capture.host, capture.host) = capture.value
=============================================================================
