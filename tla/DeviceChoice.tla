---------------------------- MODULE DeviceChoice ----------------------------
(***************************************************************************)
(* Which device a tool acts on (core/deviceResolver.ts, deviceDiscovery.ts, *)
(* tools/_deviceArg.ts, the device tools and the simulator half of ios.ts). *)
(*                                                                         *)
(* A hint is an identifier, a name or nothing.  It is resolved against an   *)
(* inventory of simulators, emulators and phones which is remembered for a  *)
(* while, the apps connected through Metro, and the devices used before.    *)
(* Meanwhile people start and stop devices.  Time only expires the          *)
(* inventory, so whether a remembered one still serves is a choice.         *)
(***************************************************************************)
EXTENDS Naturals, Sequences, FiniteSets, SequencesExt

CONSTANTS Devices,    \* [id, name, kind: "sim", "emulator" or "phone"]
          Holds,      \* Holds[n][m]: the normalised name n contains m
          Callers,
          HintsOf,    \* what each caller passes
          MaxUpsets   \* bounds how often a person starts or stops a device or a listing fails

VARIABLES power, upsets, cache, registry, memory, callers
choiceVars == <<power, upsets, cache, registry, memory, callers>>

Ids == {d.id : d \in Devices}
Dev(id) == CHOOSE d \in Devices : d.id = id
NoInventory == <<>>
\* A simulator that is off is listed too, an Android device that is off is not; and when simctl
\* or adb fails, the list of its platform is empty.
Empty == [id \in Ids |-> "unlisted"]
Running(inv) == {id \in Ids : inv[id] = "up"}
Platform(id) == IF Dev(id).kind = "sim" THEN "ios" ELSE "android"

NoHint == [by |-> "none"]
Target(id, source) == [verdict |-> "ok", id |-> id, source |-> source]
Refusal(code) == [verdict |-> code, source |-> "inventory"]
Resting == [pc |-> "idle"]

Init ==
    /\ power \in [Ids -> {"up", "down"}] /\ upsets = 0
    /\ cache = NoInventory /\ memory = <<>>
    /\ registry = {}
    /\ callers = [c \in Callers |-> Resting]

-----------------------------------------------------------------------------
(* Outside: devices start, stop and drop off adb; apps connect and leave.   *)
\* What each call in flight has seen: the devices up since it began, and up at any time.
Watched(after) ==
    [c \in Callers |-> IF callers[c].pc \in {"idle", "boot"} THEN callers[c]
        ELSE [callers[c] EXCEPT !.steady = @ \cap Running(after), !.seen = @ \cup Running(after)]]
Power(id) == \E p \in {"up", "down", "offline"} :
    /\ upsets < MaxUpsets /\ upsets' = upsets + 1
    /\ p # power[id] /\ (p = "offline" => Dev(id).kind = "phone")
    /\ power' = [power EXCEPT ![id] = p]
    /\ callers' = Watched(power')
    /\ UNCHANGED <<cache, registry, memory>>
\* The identity of an app is looked up at connect time, and may be missed.
AppConnects(id) == \E linked \in BOOLEAN :
    /\ power[id] = "up" /\ \A a \in registry : a.id # id
    /\ registry' = registry \cup {[id |-> id, linked |-> linked]}
    /\ UNCHANGED <<power, upsets, cache, memory, callers>>
AppLeaves == \E a \in registry :
    /\ registry' = registry \ {a}
    /\ UNCHANGED <<power, upsets, cache, memory, callers>>
Expire == /\ cache # NoInventory /\ cache' = NoInventory
          /\ UNCHANGED <<power, upsets, registry, memory, callers>>

-----------------------------------------------------------------------------
(* Resolving against one inventory.                                        *)
Named(ids, name) ==
    LET exact == {id \in ids : Dev(id).name = name}
    IN IF exact # {} THEN exact ELSE {id \in ids : Holds[Dev(id).name][name]}

ByUdid(hint, inv) ==
    IF inv[hint.id] = "up" \/ (hint.shutdown /\ inv[hint.id] # "unlisted")
    THEN Target(hint.id, "udid")
    ELSE Refusal("SIMULATOR_NOT_BOOTED")
\* A serial is what adb lists, whatever state it lists it in.
BySerial(hint, inv) ==
    IF inv[hint.id] \notin {"down", "unlisted"} THEN Target(hint.id, "adb-serial")
    ELSE Refusal("DEVICE_NOT_FOUND")

\* An app whose simulator was missed is looked up by its name among the booted ones.
OfApp(a, inv) ==
    LET twins == {id \in Running(inv) : Dev(id).kind = "sim" /\ Dev(id).name = Dev(a.id).name}
    IN IF a.linked THEN Target(a.id, "registry")
       ELSE IF Platform(a.id) = "android" THEN Target("unknown", "registry")
       ELSE IF twins # {} THEN Target(CHOOSE id \in twins : TRUE, "registry")
       ELSE [verdict |-> "DEVICE_NOT_FOUND", source |-> "registry"]
RegistryNamed(name) == Named({a.id : a \in registry}, name)
ByRegistry(hint, inv) ==
    LET hits == RegistryNamed(hint.name)
    IN IF Cardinality(hits) = 1
       THEN OfApp(CHOOSE a \in registry : a.id \in hits, inv)
       ELSE Refusal("MULTIPLE_DEVICES_MATCH")

ByName(hint, inv) ==
    LET hits == Named(Running(inv), hint.name)
    IN IF hits = {} THEN Refusal("DEVICE_NOT_FOUND")
       ELSE IF Cardinality(hits) = 1 THEN Target(CHOOSE id \in hits : TRUE, "name-match")
       ELSE Refusal("MULTIPLE_DEVICES_MATCH")

\* Without a hint: the only running device, else the one used last, else the only app.
Remembered(inv) == SelectSeq(memory, LAMBDA id : id \in Running(inv))
Default(inv) ==
    IF Cardinality(Running(inv)) = 1 THEN Target(CHOOSE id \in Running(inv) : TRUE, "default")
    ELSE IF Running(inv) # {}
    THEN IF Remembered(inv) # <<>> THEN Target(Head(Remembered(inv)), "default")
         ELSE Refusal("MULTIPLE_DEVICES_MATCH")
    ELSE IF Cardinality(registry) = 1
    THEN LET a == CHOOSE a \in registry : TRUE
         IN Target(IF a.linked THEN a.id ELSE "unknown", "default")
    ELSE Refusal("NO_DEVICES_FOUND")

ResolveInner(hint, inv) ==
    CASE hint.by = "udid" -> ByUdid(hint, inv)
      [] hint.by = "serial" -> BySerial(hint, inv)
      [] hint.by = "name" -> IF RegistryNamed(hint.name) # {} THEN ByRegistry(hint, inv)
                             ELSE ByName(hint, inv)
      [] OTHER -> Default(inv)

-----------------------------------------------------------------------------
(* A resolution: ask for the inventory, decide, and after a refusal that a  *)
(* stale inventory could explain once more against a new one.               *)
Stale == {"NO_DEVICES_FOUND", "DEVICE_NOT_FOUND", "SIMULATOR_NOT_BOOTED"}
\* What was resolved is remembered as the device used last.
Remember(answer) ==
    IF answer.verdict = "ok" /\ answer.id # "unknown"
    THEN <<answer.id>> \o SelectSeq(memory, LAMBDA id : id # answer.id) ELSE memory

KeptInventory(inv) == inv \* mutant
\* The retry drops what is remembered, and asks anew in the same breath.
AfterRefusal(inv) == NoInventory

Decide(c, call, inv) ==
    LET answer == ResolveInner(call.hint, inv)
    IN IF answer.verdict \in Stale /\ ~call.again /\ AfterRefusal(inv) = NoInventory
       THEN /\ cache' = NoInventory /\ UNCHANGED memory
            /\ callers' = [callers EXCEPT ![c] = [call EXCEPT !.again = TRUE, !.pc = "discover"]]
       ELSE /\ memory' = Remember(answer) /\ cache' = inv
            /\ callers' = [callers EXCEPT ![c] = [call EXCEPT !.pc = "answered", !.answer = answer,
                                                              !.ios = <<>>]]

Begun(hint) == [pc |-> "discover", hint |-> hint, again |-> FALSE, ios |-> <<>>, failed |-> {},
                answer |-> Refusal("none"), steady |-> Running(power), seen |-> Running(power)]
CallCached(c) == \E hint \in HintsOf[c] :
    /\ callers[c].pc = "idle" /\ cache # NoInventory
    /\ Decide(c, Begun(hint), cache)
    /\ UNCHANGED <<power, upsets, registry>>
Call(c) == \E hint \in HintsOf[c] :
    /\ callers[c].pc = "idle" /\ cache = NoInventory
    /\ callers' = [callers EXCEPT ![c] = Begun(hint)]
    /\ UNCHANGED <<power, upsets, cache, registry, memory>>
\* simctl and adb are asked at their own moments, and each may fail: its part of the inventory
\* is then empty, which is remembered like any other.
Heard(heard) == IF heard THEN UNCHANGED upsets ELSE upsets < MaxUpsets /\ upsets' = upsets + 1
Listing(call, heard) ==
    [call EXCEPT !.pc = "listing", !.ios = IF heard THEN power ELSE Empty,
                 !.failed = IF heard THEN {} ELSE {"ios"}]
DiscoverIos(c) == \E heard \in BOOLEAN :
    /\ callers[c].pc = "discover" /\ Heard(heard)
    /\ callers' = [callers EXCEPT ![c] = Listing(callers[c], heard)]
    /\ UNCHANGED <<power, cache, registry, memory>>
ListAllDevices(c) == \E heard \in BOOLEAN :
    LET android == IF heard THEN power ELSE Empty
    IN /\ callers[c].pc = "listing" /\ Heard(heard)
       /\ Decide(c, [callers[c] EXCEPT !.failed = IF heard THEN @ ELSE @ \cup {"android"}],
                 [id \in Ids |-> IF Platform(id) = "ios" THEN callers[c].ios[id] ELSE android[id]])
       /\ UNCHANGED <<power, registry>>
\* The tool acts: the boot tool boots what it resolved, and the others return.
Act(c) ==
    /\ callers[c].pc = "answered"
    /\ callers' = [callers EXCEPT ![c] = IF callers[c].answer.verdict = "ok" /\ callers[c].hint.by = "udid"
                                            /\ callers[c].hint.shutdown
                                         THEN [pc |-> "boot", id |-> callers[c].answer.id] ELSE Resting]
    /\ UNCHANGED <<power, upsets, cache, registry, memory>>
\* Booting what is booted is a success that leaves the inventory alone.
IosBootSimulator(c) ==
    /\ callers[c].pc = "boot"
    /\ power' = [power EXCEPT ![callers[c].id] = "up"]
    /\ cache' = IF power[callers[c].id] = "up" THEN cache ELSE NoInventory
    /\ callers' = [Watched(power') EXCEPT ![c] = Resting]
    /\ UNCHANGED <<upsets, registry, memory>>
BootFails(c) ==
    /\ callers[c].pc = "boot" /\ callers' = [callers EXCEPT ![c] = Resting]
    /\ UNCHANGED <<power, upsets, cache, registry, memory>>

Next == \/ \E id \in Ids : Power(id) \/ AppConnects(id)
        \/ AppLeaves \/ Expire
        \/ \E c \in Callers : \/ Call(c) \/ CallCached(c) \/ DiscoverIos(c) \/ ListAllDevices(c)
                              \/ Act(c) \/ IosBootSimulator(c) \/ BootFails(c)
Spec == Init /\ [][Next]_choiceVars

-----------------------------------------------------------------------------
Answered(c) == callers[c].pc = "answered"
Refused(c) == Answered(c) /\ callers[c].answer.verdict \in Stale

\* The devices up since the call began, of the platforms it got a list of when it last asked.
Shown(call) == {id \in call.steady : Platform(id) \notin call.failed}

\* Nothing that was there all along is denied: a call that answers "not found", "not booted"
\* or "no devices" is right about every device it could have meant, unless a connected app
\* answered for the name, or the call itself asked the device's platform and simctl or adb
\* failed.  An earlier list, a failed one least of all, never makes for a denial.
\* (deviceResolver.ts:437-446: the second, fresh look.)
DenialIsFresh == \A c \in Callers : Refused(c) =>
    LET hint == callers[c].hint
    IN CASE hint.by \in {"udid", "serial"} -> hint.id \notin Shown(callers[c])
         [] hint.by = "name" -> \/ callers[c].answer.source = "registry"
                                \/ \A id \in Shown(callers[c]) : ~Holds[Dev(id).name][hint.name]
         [] OTHER -> Shown(callers[c]) = {}

\* The code breaks this one (README, section 6).
\* The resolver says staleness can cost time, "but never a wrong answer": a device it hands
\* out by name or by default was running at some moment of the call.  (deviceResolver.ts:441)
AnswerWasRunning == \A c \in Callers :
    Answered(c) /\ callers[c].answer.verdict = "ok" /\ callers[c].answer.source \in {"name-match", "default"}
        /\ callers[c].answer.id # "unknown" /\ registry = {}
    => callers[c].answer.id \in callers[c].seen

\* The code breaks this one (README, section 6).
\* "An exact name anywhere wins over substrings": no answer to a name is a device of another
\* name while one of exactly that name runs throughout the call.  (deviceResolver.ts:286)
ExactNameWins == \A c \in Callers :
    Answered(c) /\ callers[c].answer.verdict = "ok" /\ callers[c].hint.by = "name"
        /\ callers[c].answer.id # "unknown"
    => \/ Dev(callers[c].answer.id).name = callers[c].hint.name
       \/ \A id \in callers[c].steady : Dev(id).name # callers[c].hint.name
=============================================================================
