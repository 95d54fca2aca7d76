--------------------------- MODULE Devices_proof ---------------------------
(* What acts on devices, proved of the composed specification of MCDevices,  *)
(* for any devices, hints, elements, callers and bounds.                     *)
EXTENDS MCDevices, FiniteSetTheorems, SequenceTheorems, WellFoundedInduction, TLAPS

(*************************************************************************)
(* Choosing the device.                                                  *)
(*************************************************************************)

\* A refusal of a hint is right about every device of a set.
Justified(hint, answer, steady) ==
    CASE hint.by \in {"udid", "serial"} -> hint.id \notin steady
      [] hint.by = "name" -> \/ answer.source = "registry"
                             \/ \A id \in steady : ~Holds[Choice!Dev(id).name][hint.name]
      [] OTHER -> steady = {}

CallFields == {"pc", "hint", "again", "ios", "answer", "steady", "seen", "failed"}
Resolving(call) == call.pc \in {"discover", "listing", "answered"}

\* What is steady is up now, and was when the simulators were listed, if they were.
SteadyCall(call) ==
    /\ DOMAIN call = CallFields
    /\ call.steady \subseteq Choice!Running(power)
    /\ call.pc = "listing" =>
          \A id \in Choice!Shown(call) : Choice!Platform(id) = "ios" => call.ios[id] = "up"
    /\ call.pc = "answered" /\ call.answer.verdict \in Choice!Stale =>
          Justified(call.hint, call.answer, Choice!Shown(call))

ChoiceInv ==
    /\ choosers = [c \in Choosers |-> choosers[c]]
    /\ \A c \in Choosers : choosers[c].pc \in {"idle", "boot"} \/ Resolving(choosers[c])
    /\ \A c \in Choosers : Resolving(choosers[c]) => SteadyCall(choosers[c])

\* Against an inventory that shows all the steady devices running, a refusal is right.
LEMMA RefusalIsRight ==
    ASSUME NEW hint, NEW inv, NEW steady, steady \subseteq Choice!Running(inv),
           Choice!ResolveInner(hint, inv).verdict \in Choice!Stale
    PROVE  Justified(hint, Choice!ResolveInner(hint, inv), steady)
<1> DEFINE answer == Choice!ResolveInner(hint, inv)
<1>1. CASE hint.by = "udid"
  <2>1. answer = Choice!ByUdid(hint, inv)
    BY <1>1 DEF Choice!ResolveInner
  <2>2. inv[hint.id] # "up"
    BY <2>1 DEF Choice!ByUdid, Choice!Target, Choice!Stale
  <2> QED BY <1>1, <2>2 DEF Justified, Choice!Running
<1>2. CASE hint.by = "serial"
  <2>1. answer = Choice!BySerial(hint, inv)
    BY <1>2 DEF Choice!ResolveInner
  <2>2. inv[hint.id] \in {"down", "unlisted"}
    BY <2>1 DEF Choice!BySerial, Choice!Target, Choice!Stale
  <2> QED BY <1>2, <2>2 DEF Justified, Choice!Running
<1>3. CASE hint.by = "name"
  <2>1. CASE Choice!RegistryNamed(hint.name) # {}
    <3>1. answer = Choice!ByRegistry(hint, inv)
      BY <1>3, <2>1 DEF Choice!ResolveInner
    <3>2. answer.source = "registry"
      BY <3>1 DEF Choice!ByRegistry, Choice!OfApp, Choice!Target, Choice!Refusal, Choice!Stale
    <3> QED BY <1>3, <3>2 DEF Justified
  <2>2. CASE Choice!RegistryNamed(hint.name) = {}
    <3>1. answer = Choice!ByName(hint, inv)
      BY <1>3, <2>2 DEF Choice!ResolveInner
    <3>2. Choice!Named(Choice!Running(inv), hint.name) = {}
      BY <3>1 DEF Choice!ByName, Choice!Target, Choice!Refusal, Choice!Stale
    <3>3. \A id \in Choice!Running(inv) : ~Holds[Choice!Dev(id).name][hint.name]
      BY <3>2 DEF Choice!Named
    <3> QED BY <1>3, <3>3 DEF Justified
  <2> QED BY <2>1, <2>2
<1>4. CASE hint.by \notin {"udid", "serial", "name"}
  <2>1. answer = Choice!Default(inv)
    BY <1>4 DEF Choice!ResolveInner
  <2>2. Choice!Running(inv) = {}
    BY <2>1 DEF Choice!Default, Choice!Target, Choice!Refusal, Choice!Stale
  <2> QED BY <1>4, <2>2 DEF Justified
<1> QED BY <1>1, <1>2, <1>3, <1>4

-----------------------------------------------------------------------------
\* A device that stops is no longer steady for any call.
LEMMA WatchedStep ==
    ASSUME ChoiceInv, NEW after
    PROVE  LET next == Choice!Watched(after)
           IN  /\ next = [c \in Choosers |-> next[c]]
               /\ \A c \in Choosers :
                    /\ next[c].pc = choosers[c].pc
                    /\ choosers[c].pc \in {"idle", "boot"} => next[c] = choosers[c]
                    /\ Resolving(choosers[c]) =>
                         /\ DOMAIN next[c] = CallFields
                         /\ next[c].hint = choosers[c].hint /\ next[c].ios = choosers[c].ios
                         /\ next[c].answer = choosers[c].answer
                         /\ next[c].failed = choosers[c].failed
                         /\ next[c].steady \subseteq choosers[c].steady
                         /\ next[c].steady \subseteq Choice!Running(after)
<1> DEFINE next == Choice!Watched(after)
<1>1. next = [c \in Choosers |-> next[c]]
  BY DEF Choice!Watched
<1>2. ASSUME NEW c \in Choosers
      PROVE  /\ next[c].pc = choosers[c].pc
             /\ choosers[c].pc \in {"idle", "boot"} => next[c] = choosers[c]
             /\ Resolving(choosers[c]) =>
                  /\ DOMAIN next[c] = CallFields
                  /\ next[c].hint = choosers[c].hint /\ next[c].ios = choosers[c].ios
                  /\ next[c].answer = choosers[c].answer
                  /\ next[c].failed = choosers[c].failed
                  /\ next[c].steady \subseteq choosers[c].steady
                  /\ next[c].steady \subseteq Choice!Running(after)
  <2>1. CASE choosers[c].pc \in {"idle", "boot"}
    BY <2>1 DEF Choice!Watched, Resolving
  <2>2. CASE Resolving(choosers[c])
    <3>1. DOMAIN choosers[c] = CallFields
      BY <2>2 DEF ChoiceInv, SteadyCall
    <3>2. next[c] = [choosers[c] EXCEPT !.steady = @ \cap Choice!Running(after),
                                        !.seen = @ \cup Choice!Running(after)]
      BY <2>2 DEF Choice!Watched, Resolving
    <3> QED BY <2>2, <3>1, <3>2 DEF CallFields, Resolving
  <2> QED BY <2>1, <2>2 DEF ChoiceInv
<1> QED BY <1>1, <1>2

\* What is justified for a set of steady devices is justified for fewer.
LEMMA FewerSteady ==
    ASSUME NEW hint, NEW answer, NEW S, NEW T, T \subseteq S, Justified(hint, answer, S)
    PROVE  Justified(hint, answer, T)
<1>1. CASE hint.by \in {"udid", "serial"}
  BY <1>1 DEF Justified
<1>2. CASE hint.by = "name"
  BY <1>2 DEF Justified
<1>3. CASE hint.by \notin {"udid", "serial", "name"}
  BY <1>3 DEF Justified
<1> QED BY <1>1, <1>2, <1>3

\* Each call keeps its place in the invariant when the power of devices changes.
LEMMA PowerKeeps ==
    ASSUME ChoiceInv, choosers' = [c \in Choosers |-> choosers'[c]],
           \A c \in Choosers : choosers'[c] \in {Choice!Resting, Choice!Watched(power')[c]}
    PROVE  ChoiceInv'
<1>2. ASSUME NEW c \in Choosers
      PROVE  /\ choosers'[c].pc \in {"idle", "boot"} \/ Resolving(choosers'[c])
             /\ Resolving(choosers'[c]) => SteadyCall(choosers[c])'
  <2>0. CASE choosers'[c] = Choice!Resting
    BY <2>0 DEF Choice!Resting, Resolving
  <2> SUFFICES ASSUME choosers'[c] = Choice!Watched(power')[c]
               PROVE  /\ choosers'[c].pc \in {"idle", "boot"} \/ Resolving(choosers'[c])
                      /\ Resolving(choosers'[c]) => SteadyCall(choosers[c])'
    BY <2>0
  <2>1. choosers'[c].pc = choosers[c].pc
    BY WatchedStep
  <2>2. CASE choosers[c].pc \in {"idle", "boot"}
    BY <2>1, <2>2 DEF Resolving
  <2>3. CASE Resolving(choosers[c])
    <3>1. /\ DOMAIN choosers'[c] = CallFields
          /\ choosers'[c].hint = choosers[c].hint /\ choosers'[c].ios = choosers[c].ios
          /\ choosers'[c].answer = choosers[c].answer
          /\ choosers'[c].failed = choosers[c].failed
          /\ choosers'[c].steady \subseteq choosers[c].steady
          /\ choosers'[c].steady \subseteq Choice!Running(power')
      BY <2>3, WatchedStep
    <3>2. SteadyCall(choosers[c])
      BY <2>3 DEF ChoiceInv
    <3>3. Choice!Running(power') = Choice!Running(power)'
      BY DEF Choice!Running
    <3>0. Choice!Shown(choosers'[c]) \subseteq Choice!Shown(choosers[c])
      BY <3>1 DEF Choice!Shown
    <3>4. choosers'[c].pc = "listing" =>
            \A id \in Choice!Shown(choosers'[c]) :
               Choice!Platform(id) = "ios" => choosers'[c].ios[id] = "up"
      BY <2>1, <3>0, <3>1, <3>2 DEF SteadyCall
    <3>5. choosers'[c].pc = "answered" /\ choosers'[c].answer.verdict \in Choice!Stale =>
            Justified(choosers'[c].hint, choosers'[c].answer, Choice!Shown(choosers'[c]))
      BY <2>1, <3>0, <3>1, <3>2, FewerSteady DEF SteadyCall
    <3>6. SteadyCall(choosers[c])'
      BY <3>1, <3>3, <3>4, <3>5 DEF SteadyCall, Choice!Shown
    <3> QED BY <2>1, <2>3, <3>6 DEF Resolving
  <2> QED BY <2>2, <2>3 DEF ChoiceInv
<1> QED BY <1>2 DEF ChoiceInv

\* One call becomes another, or rests; the devices stay as they are.
LEMMA OneChooserMoves ==
    ASSUME ChoiceInv, UNCHANGED power, NEW c \in Choosers, NEW next,
           choosers' = [choosers EXCEPT ![c] = next],
           \/ next.pc \in {"idle", "boot"}
           \/ Resolving(next) /\ SteadyCall(next)
    PROVE  ChoiceInv'
<1>1. choosers' = [b \in Choosers |-> IF b = c THEN next ELSE choosers[b]]
  BY DEF ChoiceInv
<1> QED BY <1>1 DEF ChoiceInv, SteadyCall, Resolving, Choice!Running

\* A call that decides on a first look asks again instead of refusing, and one that decides
\* on a second look does so on an inventory that shows what is steady.
LEMMA DecideKeeps ==
    ASSUME ChoiceInv, UNCHANGED power, NEW c \in Choosers, NEW call, NEW inv,
           Choice!Decide(c, call, inv), DOMAIN call = CallFields,
           call.steady \subseteq Choice!Running(power),
           call.again => Choice!Shown(call) \subseteq Choice!Running(inv)
    PROVE  ChoiceInv'
<1> DEFINE answer == Choice!ResolveInner(call.hint, inv)
<1>1. CASE answer.verdict \in Choice!Stale /\ ~call.again
  <2> DEFINE next == [call EXCEPT !.again = TRUE, !.pc = "discover"]
  <2>1. choosers' = [choosers EXCEPT ![c] = next]
    BY <1>1 DEF Choice!Decide, Choice!AfterRefusal
  <2>2. Resolving(next) /\ SteadyCall(next)
    BY DEF Resolving, SteadyCall, CallFields
  <2> QED BY <2>1, <2>2, OneChooserMoves
<1>2. CASE ~(answer.verdict \in Choice!Stale /\ ~call.again)
  <2> DEFINE next == [call EXCEPT !.pc = "answered", !.answer = answer, !.ios = <<>>]
  <2>1. choosers' = [choosers EXCEPT ![c] = next]
    BY <1>2 DEF Choice!Decide
  <2>2. answer.verdict \in Choice!Stale => Justified(call.hint, answer, Choice!Shown(call))
    <3> SUFFICES ASSUME answer.verdict \in Choice!Stale
                 PROVE  Justified(call.hint, answer, Choice!Shown(call))
      OBVIOUS
    <3>1. Choice!Shown(call) \subseteq Choice!Running(inv)
      BY <1>2
    <3> QED BY <3>1, RefusalIsRight
  <2> HIDE DEF answer
  <2>4. Choice!Shown(next) = Choice!Shown(call)
    BY DEF CallFields, Choice!Shown
  <2>3. Resolving(next) /\ SteadyCall(next)
    BY <2>2, <2>4 DEF Resolving, SteadyCall, CallFields
  <2> QED BY <2>1, <2>3, OneChooserMoves
<1> QED BY <1>1, <1>2

LEMMA ChoiceStep ==
    ASSUME ChoiceInv, Choice!Next
    PROVE  ChoiceInv'
<1> USE DEF Choice!Platform
<1>1. ASSUME NEW id \in Choice!Ids, Choice!Power(id)
      PROVE  ChoiceInv'
  <2>1. choosers' = Choice!Watched(power')
    BY <1>1 DEF Choice!Power
  <2> QED BY <2>1, WatchedStep, PowerKeeps
<1>2. ASSUME UNCHANGED <<power, choosers>>
      PROVE  ChoiceInv'
  BY <1>2 DEF ChoiceInv, SteadyCall, Choice!Running, Resolving
<1>3. ASSUME NEW c \in Choosers, Choice!Call(c)
      PROVE  ChoiceInv'
  <2>1. PICK hint \in HintsOf[c] : choosers' = [choosers EXCEPT ![c] = Choice!Begun(hint)]
    BY <1>3 DEF Choice!Call
  <2>2. Resolving(Choice!Begun(hint)) /\ SteadyCall(Choice!Begun(hint))
    BY DEF Choice!Begun, Resolving, SteadyCall, CallFields
  <2> QED BY <1>3, <2>1, <2>2, OneChooserMoves DEF Choice!Call
<1>4. ASSUME NEW c \in Choosers, Choice!CallCached(c)
      PROVE  ChoiceInv'
  <2>1. PICK hint \in HintsOf[c] : Choice!Decide(c, Choice!Begun(hint), cache)
    BY <1>4 DEF Choice!CallCached
  <2> DEFINE call == Choice!Begun(hint)
  <2>2. /\ DOMAIN call = CallFields /\ ~call.again
        /\ call.steady \subseteq Choice!Running(power)
    BY DEF Choice!Begun, CallFields
  <2>3. UNCHANGED power
    BY <1>4 DEF Choice!CallCached
  <2> HIDE DEF call
  <2> QED BY <2>1, <2>2, <2>3, DecideKeeps DEF call
<1>5. ASSUME NEW c \in Choosers, Choice!DiscoverIos(c)
      PROVE  ChoiceInv'
  <2>1. choosers[c].pc = "discover" /\ SteadyCall(choosers[c])
    BY <1>5 DEF Choice!DiscoverIos, ChoiceInv, Resolving
  <2>0. PICK heard \in BOOLEAN :
             choosers' = [choosers EXCEPT ![c] = Choice!Listing(choosers[c], heard)]
    BY <1>5 DEF Choice!DiscoverIos
  <2> DEFINE next == Choice!Listing(choosers[c], heard)
  <2>2. choosers' = [choosers EXCEPT ![c] = next]
    BY <2>0
  <2>4. /\ DOMAIN next = CallFields /\ next.pc = "listing" /\ next.steady = choosers[c].steady
        /\ next.ios = IF heard THEN power ELSE Choice!Empty
        /\ next.failed = IF heard THEN {} ELSE {"ios"}
    BY <2>1 DEF SteadyCall, CallFields, Choice!Listing
  <2> HIDE DEF next
  <2>3. Resolving(next) /\ SteadyCall(next)
    BY <2>1, <2>4 DEF Resolving, SteadyCall, Choice!Running, Choice!Shown
  <2> QED BY <1>5, <2>2, <2>3, OneChooserMoves DEF Choice!DiscoverIos
<1>6. ASSUME NEW c \in Choosers, Choice!ListAllDevices(c)
      PROVE  ChoiceInv'
  <2> DEFINE android(h) == IF h THEN power ELSE Choice!Empty
             inv(h) == [id \in Choice!Ids |-> IF Choice!Platform(id) = "ios"
                                              THEN choosers[c].ios[id] ELSE android(h)[id]]
             call(h) == [choosers[c] EXCEPT !.failed = IF h THEN @ ELSE @ \cup {"android"}]
  <2>1. choosers[c].pc = "listing" /\ SteadyCall(choosers[c])
    BY <1>6 DEF Choice!ListAllDevices, ChoiceInv, Resolving
  <2>0. PICK heard \in BOOLEAN : Choice!Decide(c, call(heard), inv(heard))
    BY <1>6 DEF Choice!ListAllDevices
  <2>2. /\ DOMAIN call(heard) = CallFields /\ call(heard).steady = choosers[c].steady
        /\ call(heard).failed = IF heard THEN choosers[c].failed
                                ELSE choosers[c].failed \cup {"android"}
    BY <2>1 DEF SteadyCall, CallFields
  <2>3. Choice!Shown(call(heard)) \subseteq Choice!Running(inv(heard))
    <3> SUFFICES ASSUME NEW id \in Choice!Shown(call(heard))
                 PROVE  id \in Choice!Running(inv(heard))
      OBVIOUS
    <3>1. id \in choosers[c].steady /\ id \in Choice!Ids /\ power[id] = "up"
      BY <2>1, <2>2 DEF Choice!Shown, SteadyCall, Choice!Running
    <3>2. Choice!Platform(id) = "ios" => choosers[c].ios[id] = "up"
      BY <2>1, <2>2, <3>1 DEF Choice!Shown, SteadyCall
    <3>3. Choice!Platform(id) # "ios" => heard
      BY <2>2, <3>1 DEF Choice!Shown
    <3> QED BY <3>1, <3>2, <3>3 DEF Choice!Running
  <2>4. call(heard).steady \subseteq Choice!Running(power) /\ UNCHANGED power
    BY <1>6, <2>1, <2>2 DEF SteadyCall, Choice!ListAllDevices
  <2> HIDE DEF inv, call
  <2> QED BY <2>0, <2>2, <2>3, <2>4, DecideKeeps
<1>7. ASSUME NEW c \in Choosers, Choice!Act(c) \/ Choice!BootFails(c)
      PROVE  ChoiceInv'
  <2> DEFINE boot == [pc |-> "boot", id |-> choosers[c].answer.id]
  <2>1. \/ choosers' = [choosers EXCEPT ![c] = Choice!Resting]
        \/ choosers' = [choosers EXCEPT ![c] = boot]
    BY <1>7 DEF Choice!Act, Choice!BootFails
  <2>2. UNCHANGED power
    BY <1>7 DEF Choice!Act, Choice!BootFails
  <2>3. Choice!Resting.pc = "idle" /\ boot.pc = "boot"
    BY DEF Choice!Resting
  <2> HIDE DEF boot
  <2> QED BY <2>1, <2>2, <2>3, OneChooserMoves
<1>8. ASSUME NEW c \in Choosers, Choice!IosBootSimulator(c)
      PROVE  ChoiceInv'
  <2> DEFINE after == Choice!Watched(power')
  <2>1. choosers' = [after EXCEPT ![c] = Choice!Resting]
    BY <1>8 DEF Choice!IosBootSimulator
  <2>2. after = [b \in Choosers |-> after[b]]
    BY WatchedStep
  <2> HIDE DEF after
  <2>3. choosers' = [b \in Choosers |-> IF b = c THEN Choice!Resting ELSE after[b]]
    BY <2>1, <2>2
  <2>4. \A b \in Choosers : choosers'[b] \in {Choice!Resting, after[b]}
    BY <2>3
  <2>5. choosers' = [b \in Choosers |-> choosers'[b]]
    BY <2>3
  <2> QED BY <2>4, <2>5, PowerKeeps DEF after
<1>9. CASE Choice!AppLeaves \/ Choice!Expire \/ \E id \in Choice!Ids : Choice!AppConnects(id)
  BY <1>2, <1>9 DEF Choice!AppLeaves, Choice!Expire, Choice!AppConnects
<1> QED
  BY <1>1, <1>3, <1>4, <1>5, <1>6, <1>7, <1>8, <1>9 DEF Choice!Next

LEMMA ChoiceInitially ==
    ASSUME DevicesInit
    PROVE  ChoiceInv
<1>1. choosers = [c \in Choosers |-> Choice!Resting]
  BY DEF DevicesInit, Choice!Init, ChoiceOff
<1> QED BY <1>1 DEF ChoiceInv, Choice!Resting, Resolving

\* A device that was running all along is denied only by a call that itself asked for the list
\* of its platform and saw simctl or adb fail: whatever is remembered of the inventory, a failure
\* of an earlier call included, and whoever starts or stops devices meanwhile, a call refuses
\* only on a list that was asked for after it began.  (deviceResolver.ts:437-446)
THEOREM DenialsAreFresh == DevicesSpec => []DenialIsFresh
<1>1. DevicesInit => ChoiceInv
  BY ChoiceInitially
<1>2. ChoiceInv /\ [DevicesNext]_allVars => ChoiceInv'
  <2> SUFFICES ASSUME ChoiceInv, [DevicesNext]_allVars
               PROVE  ChoiceInv'
    OBVIOUS
  <2>1. CASE Choice!Next
    BY <2>1, ChoiceStep
  <2>2. CASE UNCHANGED choiceVars
    BY <2>2 DEF choiceVars, ChoiceInv, SteadyCall, Choice!Running, Resolving
  <2> QED BY <2>1, <2>2 DEF DevicesNext, allVars
<1>3. ChoiceInv => DenialIsFresh
  <2> SUFFICES ASSUME ChoiceInv, NEW c \in Choosers, Choice!Refused(c)
               PROVE  Justified(choosers[c].hint, choosers[c].answer, Choice!Shown(choosers[c]))
    BY DEF DenialIsFresh, Choice!DenialIsFresh, Justified
  <2> QED BY DEF ChoiceInv, SteadyCall, Resolving, Choice!Refused, Choice!Answered
<1> QED BY <1>1, <1>2, <1>3, PTL DEF DevicesSpec

(*************************************************************************)
(* Sequences as the sets of what is in them.                             *)
(*************************************************************************)

IsSeq(s) == s \in Seq(Range(s))

LEMMA SeqOfItsRange ==
    ASSUME NEW S, NEW s \in Seq(S)
    PROVE  IsSeq(s)
<1>1. Len(s) \in Nat /\ DOMAIN s = 1..Len(s) /\ s = [i \in 1..Len(s) |-> s[i]]
  OBVIOUS
<1>2. \A i \in 1..Len(s) : s[i] \in Range(s)
  BY <1>1 DEF Range
<1> QED BY <1>1, <1>2 DEF IsSeq

LEMMA Appended ==
    ASSUME NEW s, NEW e, IsSeq(s)
    PROVE  IsSeq(Append(s, e)) /\ Range(Append(s, e)) = Range(s) \cup {e}
<1> DEFINE t == Append(s, e)
<1>1. /\ t \in Seq(Range(s) \cup {e}) /\ Len(t) = Len(s) + 1 /\ Len(s) \in Nat
      /\ \A i \in 1..Len(s) : t[i] = s[i]
      /\ t[Len(s) + 1] = e /\ DOMAIN t = 1..Len(s) + 1 /\ DOMAIN s = 1..Len(s)
  BY DEF IsSeq
<1> HIDE DEF t
<1>2. Range(t) \subseteq Range(s) \cup {e}
  BY <1>1 DEF Range
<1>3. e \in Range(t)
  BY <1>1 DEF Range
<1>4. ASSUME NEW i \in 1..Len(s) PROVE s[i] \in Range(t)
  BY <1>1, <1>4 DEF Range
<1>5. Range(s) \subseteq Range(t)
  BY <1>1, <1>4 DEF Range
<1>6. Range(t) = Range(s) \cup {e}
  BY <1>2, <1>3, <1>5
<1> QED BY <1>1, <1>6 DEF IsSeq, t

LEMMA TakenOff ==
    ASSUME NEW s, IsSeq(s), s # <<>>
    PROVE  /\ IsSeq(Tail(s)) /\ Range(Tail(s)) \subseteq Range(s) /\ Head(s) \in Range(s)
           /\ 1 \in DOMAIN s /\ Head(s) = s[1]
           /\ \A i \in DOMAIN Tail(s) : i + 1 \in DOMAIN s /\ Tail(s)[i] = s[i + 1] /\ i + 1 # 1
<1> DEFINE t == Tail(s)
<1>1. /\ t \in Seq(Range(s)) /\ Len(t) = Len(s) - 1 /\ Len(s) \in Nat \ {0}
      /\ \A i \in 1..Len(s) - 1 : t[i] = s[i + 1]
      /\ DOMAIN t = 1..Len(s) - 1 /\ DOMAIN s = 1..Len(s) /\ Head(s) = s[1]
  BY DEF IsSeq
<1> HIDE DEF t
<1>2. \A i \in DOMAIN t : i + 1 \in DOMAIN s /\ t[i] = s[i + 1] /\ i + 1 # 1
  BY <1>1
<1>3. Range(t) \subseteq Range(s)
  BY <1>2 DEF Range
<1>4. IsSeq(t)
  BY <1>1, SeqOfItsRange
<1>5. 1 \in DOMAIN s
  BY <1>1
<1> QED BY <1>1, <1>2, <1>3, <1>4, <1>5 DEF IsSeq, t, Range

LEMMA Joined ==
    ASSUME NEW s, NEW t, IsSeq(s), IsSeq(t)
    PROVE  IsSeq(s \o t) /\ Range(s \o t) = Range(s) \cup Range(t)
<1> DEFINE u == s \o t
<1>1. /\ Len(s) \in Nat /\ Len(t) \in Nat /\ Len(u) = Len(s) + Len(t)
      /\ DOMAIN u = 1..Len(s) + Len(t) /\ DOMAIN s = 1..Len(s) /\ DOMAIN t = 1..Len(t)
      /\ \A i \in 1..Len(s) + Len(t) : u[i] = IF i <= Len(s) THEN s[i] ELSE t[i - Len(s)]
  BY DEF IsSeq
<1>6. u \in Seq(Range(s) \cup Range(t))
  <2>1. s \in Seq(Range(s) \cup Range(t)) /\ t \in Seq(Range(s) \cup Range(t))
    BY DEF IsSeq
  <2> QED BY <2>1
<1> HIDE DEF u
<1>2. ASSUME NEW i \in DOMAIN u
      PROVE  u[i] \in Range(s) \cup Range(t)
  <2>1. CASE i <= Len(s)
    BY <1>1, <2>1 DEF Range
  <2>2. CASE ~(i <= Len(s))
    <3>1. i - Len(s) \in 1..Len(t) /\ u[i] = t[i - Len(s)]
      BY <1>1, <2>2
    <3> QED BY <1>1, <3>1 DEF Range
  <2> QED BY <2>1, <2>2
<1>3. ASSUME NEW i \in DOMAIN s
      PROVE  s[i] \in Range(u)
  <2>1. i \in DOMAIN u /\ u[i] = s[i]
    BY <1>1
  <2> QED BY <2>1 DEF Range
<1>4. ASSUME NEW i \in DOMAIN t
      PROVE  t[i] \in Range(u)
  <2>1. i + Len(s) \in DOMAIN u /\ u[i + Len(s)] = t[i]
    BY <1>1
  <2> QED BY <2>1 DEF Range
<1>5. Range(u) = Range(s) \cup Range(t)
  BY <1>2, <1>3, <1>4 DEF Range
<1> QED BY <1>5, <1>6, SeqOfItsRange DEF u

(*************************************************************************)
(* Input on a Chromium page.                                             *)
(*************************************************************************)

Elems == Range(Elements)

WebFields == {"job", "step", "pc", "index", "picked", "slot", "aimed", "alone", "before",
              "named", "sent", "report"}
Underway(call) == call.pc \in {"ready", "wait"}
Answering(call) == call.pc \in {"answering", "sent", "closing"}

\* Tools that look for an element.
Finds(job) == job \in {"tap", "text", "key"}

WebCall(call) ==
    /\ DOMAIN call = WebFields
    /\ call.pc \in {"idle", "ready", "wait", "end", "answering", "sent", "closing"}
    /\ call.alone \in BOOLEAN /\ call.before \in Seq(Agents)
    /\ call.step \in 0..5
    /\ call.pc = "idle" => call.job = None /\ call.step = 0
    /\ Underway(call) => call.job \in ToolJobs /\ call.step \in 1..Len(Tasks(call.job))
    /\ Answering(call) => call.job = "answer"
    /\ call.step <= 1 \/ ~Finds(call.job) =>
          call.picked = None /\ call.aimed = None /\ call.report # "verified"

PageTypes ==
    /\ IsSeq(toPage) /\ IsSeq(toServer) /\ IsSeq(page.held)
    /\ DOMAIN page = {"mounted", "focus", "dialog", "opened", "held"}
    /\ page.mounted \subseteq Elems
    /\ fields \in [Elems -> Seq(Agents)]
    /\ web = [c \in Agents |-> web[c]]
    /\ \A c \in Agents : WebCall(web[c])

\* Answers on their way, from the page or behind its dialog.
Replies == Range(page.held) \cup {m \in Range(toServer) : m.kind = "reply"}
Pending == Range(toPage) \cup Replies

\* The step of a task that a tool has only once.
StepOf(task) == CASE task = "collect" -> 1
                  [] task \in {"prepare", "focus"} -> 2
                  [] task = "read" -> 4
                  [] OTHER -> 0
Awaited(p) == web[p.by].pc = "wait" /\ Task(p.by) = p.task

\* What is on its way was sent by a call that has got that far, ...
SentBefore ==
    /\ \A p \in Pending :
         /\ p.by \in Agents /\ web[p.by].pc \in {"ready", "wait", "end"} /\ web[p.by].job # "answer"
         /\ StepOf(p.task) <= web[p.by].step
         /\ web[p.by].pc = "ready" => StepOf(p.task) < web[p.by].step
         /\ p.task = "collect" => Finds(web[p.by].job)
    /\ \A m \in Replies : m.kind = "reply"
    /\ \A m \in Range(toServer) : m.kind \in {"handled", "noDialog"} =>
         m.by \in Agents /\ web[m.by].job = "answer"

\* ... and a collection that has not run is the first task of its call, and its only one.
CollectsOnce ==
    /\ \A t \in Range(toPage) : t.task = "collect" =>
         /\ web[t.by].step = 1
         /\ \A m \in Replies : m.by = t.by => m.task # "collect"
    /\ \A i, j \in DOMAIN toPage :
         toPage[i].task = "collect" /\ toPage[j].task = "collect" /\ toPage[i].by = toPage[j].by => i = j

At(slot, e) == slot \in DOMAIN targets /\ targets[slot] = e

\* While no other call has looked for elements, the place a call was given is that of the
\* element it picked: in what it was told, in what it asks, in what it is answered.
Located ==
    /\ \A c \in Agents : LET call == web[c] IN
         call.alone /\ Underway(call) /\ call.step >= 2 /\ Finds(call.job) => At(call.slot, call.picked)
    /\ \A t \in Range(toPage) :
         StepOf(t.task) >= 2 /\ Awaited(t) => t.slot = web[t.by].slot
    /\ \A m \in Replies : Awaited(m) =>
         /\ m.task = "collect" =>
              /\ m.value.kind # "verified"
              /\ m.value.kind = "ok" /\ web[m.by].alone => At(m.slot, m.value.cand)
         /\ m.task \in {"prepare", "focus"} =>
              /\ m.value.before \in Seq(Agents)
              /\ web[m.by].alone => m.value.elem \in {None, web[m.by].picked}
         /\ m.task = "read" /\ m.value.elem # None =>
              /\ m.value.elem \in Elems
              /\ Range(m.value.value) \subseteq Range(fields[m.value.elem])
              /\ web[m.by].alone => m.value.elem = web[m.by].picked

OnPicked ==
    \A c \in Agents : web[c].alone =>
        /\ web[c].aimed \in {None, web[c].picked}
        /\ web[c].report = "verified" => web[c].picked \in Elems /\ c \in Range(fields[web[c].picked])

PageInv == /\ PageTypes /\ SentBefore /\ CollectsOnce /\ Located /\ OnPicked
           /\ AnsweredNotFailed /\ NothingLandsLate

-----------------------------------------------------------------------------
\* A call that starts, that ends, or that waits for a dialog.
Settled(c) ==
    /\ web'[c].pc # "wait" /\ web'[c].aimed = None
    /\ web'[c].report = "verified" /\ web'[c].alone =>
          web'[c].picked \in Elems /\ c \in Range(fields[web'[c].picked])
    /\ web'[c].pc = "ready" => web[c].pc = "idle" /\ web'[c].step = 1
    /\ web[c].pc \in {"ready", "wait", "end"} /\ web[c].job # "answer" =>
          web'[c].pc = "end" /\ web'[c].step = web[c].step /\ web'[c].job = web[c].job
    /\ web[c].job = "answer" => web'[c].job = "answer"
    /\ web'[c].job = "tap" /\ web'[c].step = 5 /\ web'[c].pc = "end" =>
          web'[c].report \in {"done", "delivered"}

\* Nothing is sent to the page or done there, and no answer is new.
LEMMA QuietStep ==
    ASSUME PageInv, PageTypes', UNCHANGED <<fields, targets, toPage>>, Replies' \subseteq Replies,
           \A m \in Range(toServer') : m.kind \in {"handled", "noDialog"} =>
              m.by \in Agents /\ web'[m.by].job = "answer",
           \A c \in Agents : web'[c] = web[c] \/ Settled(c)
    PROVE  PageInv'
<1> USE DEF PageInv
<1>1. \A p \in Replies : p.by \in Agents
  BY DEF SentBefore, Pending
<1>2. \A t \in Range(toPage) : t.by \in Agents
  BY DEF SentBefore, Pending
<1>3. SentBefore'
  <2>1. ASSUME NEW p \in Pending
        PROVE  /\ p.by \in Agents /\ web'[p.by].pc \in {"ready", "wait", "end"} /\ web'[p.by].job # "answer"
               /\ StepOf(p.task) <= web'[p.by].step
               /\ web'[p.by].pc = "ready" => StepOf(p.task) < web'[p.by].step
               /\ p.task = "collect" => Finds(web'[p.by].job)
    <3>1. /\ p.by \in Agents /\ web[p.by].pc \in {"ready", "wait", "end"} /\ web[p.by].job # "answer"
          /\ StepOf(p.task) <= web[p.by].step
          /\ web[p.by].pc = "ready" => StepOf(p.task) < web[p.by].step
          /\ p.task = "collect" => Finds(web[p.by].job)
      BY DEF SentBefore
    <3> QED BY <3>1 DEF Settled
  <2>2. Pending' \subseteq Pending
    BY DEF Pending
  <2>3. \A m \in Replies : m.kind = "reply"
    BY DEF SentBefore
  <2> QED BY <2>1, <2>2, <2>3 DEF SentBefore
<1>4. CollectsOnce'
  <2>1. ASSUME NEW t \in Range(toPage), t.task = "collect"
        PROVE  web'[t.by].step = 1
    <3>1. /\ web[t.by].pc \in {"ready", "wait", "end"} /\ web[t.by].job # "answer"
          /\ web[t.by].step = 1 /\ t.by \in Agents
      BY <2>1 DEF CollectsOnce, SentBefore, Pending
    <3> QED BY <3>1 DEF Settled
  <2> QED BY <2>1 DEF CollectsOnce
<1>5. \A p : p.by \in Agents /\ Awaited(p)' => web'[p.by] = web[p.by] /\ Awaited(p)
  BY DEF Awaited, Settled, Task
<1>6. Located'
  <2>1. ASSUME NEW c \in Agents
        PROVE  web'[c].alone /\ Underway(web'[c]) /\ web'[c].step >= 2 /\ Finds(web'[c].job)
                  => At(web[c].slot, web[c].picked)'
    BY DEF Located, At, Settled, Underway
  <2>2. \A t \in Range(toPage) :
           StepOf(t.task) >= 2 /\ Awaited(t)' => t.slot = web'[t.by].slot
    BY <1>2, <1>5 DEF Located
  <2>3. ASSUME NEW m \in Replies, Awaited(m)'
        PROVE  /\ m.task = "collect" =>
                    /\ m.value.kind # "verified"
                    /\ m.value.kind = "ok" /\ web'[m.by].alone => At(m.slot, m.value.cand)'
               /\ m.task \in {"prepare", "focus"} =>
                    /\ m.value.before \in Seq(Agents)
                    /\ web'[m.by].alone => m.value.elem \in {None, web'[m.by].picked}
               /\ m.task = "read" /\ m.value.elem # None =>
                    /\ m.value.elem \in Elems
                    /\ Range(m.value.value) \subseteq Range(fields'[m.value.elem])
                    /\ web'[m.by].alone => m.value.elem = web'[m.by].picked
    <3>1. web'[m.by] = web[m.by] /\ Awaited(m)
      BY <1>1, <1>5, <2>3
    <3> QED BY <3>1 DEF Located, At
  <2> QED BY <2>1, <2>2, <2>3 DEF Located, Elems
<1>7. OnPicked'
  BY DEF OnPicked, Settled, Elems
<1>8. AnsweredNotFailed'
  BY DEF AnsweredNotFailed, Settled
<1>9. NothingLandsLate'
  BY DEF NothingLandsLate
<1> QED BY <1>3, <1>4, <1>6, <1>7, <1>8, <1>9

LEMMA EndedCall ==
    ASSUME NEW call, NEW report, WebCall(call),
           report = "verified" => call.step >= 2 /\ Finds(call.job)
    PROVE  LET e == Ended(call, report) IN
           /\ WebCall(e) /\ e.pc = "end" /\ e.report = report /\ e.aimed = None
           /\ e.job = call.job /\ e.step = call.step /\ e.alone = call.alone /\ e.picked = call.picked
<1> DEFINE e == Ended(call, report)
<1>1. /\ DOMAIN e = WebFields
      /\ e.pc = "end" /\ e.report = report /\ e.aimed = None /\ e.before = <<>>
      /\ e.job = call.job /\ e.step = call.step /\ e.alone = call.alone /\ e.picked = call.picked
  BY DEF Ended, WebCall, WebFields
<1>2. e.before \in Seq(Agents)
  BY <1>1
<1> HIDE DEF e
<1>3. WebCall(e)
  BY <1>1, <1>2 DEF WebCall, Underway, Answering
<1> QED BY <1>1, <1>3 DEF e

LEMMA RefusedCall ==
    ASSUME NEW job, job = "answer" \/ job \in ToolJobs, NEW report, report # "verified"
    PROVE  LET u == Ended([Unsaid EXCEPT !.job = job], report)
           IN  /\ WebCall(u) /\ u.pc = "end" /\ u.step = 0 /\ u.job = job
               /\ u.report = report /\ u.aimed = None
<1> DEFINE u == Ended([Unsaid EXCEPT !.job = job], report)
<1>1. /\ DOMAIN u = WebFields /\ u.pc = "end" /\ u.step = 0 /\ u.job = job /\ u.before = <<>>
      /\ u.report = report /\ u.aimed = None /\ u.picked = None /\ u.alone \in BOOLEAN
  BY DEF Ended, Unsaid, WebFields
<1>2. <<>> \in Seq(Agents)
  OBVIOUS
<1> HIDE DEF u
<1>3. WebCall(u)
  BY <1>1, <1>2 DEF WebCall, Underway, Answering
<1> QED BY <1>1, <1>3 DEF u

LEMMA StartedCall ==
    ASSUME NEW job \in ToolJobs, NEW n
    PROVE  LET v == [Unsaid EXCEPT !.job = job, !.step = 1, !.pc = "ready", !.index = n]
           IN  WebCall(v) /\ v.pc = "ready" /\ v.step = 1 /\ v.aimed = None /\ v.report = None
<1> DEFINE v == [Unsaid EXCEPT !.job = job, !.step = 1, !.pc = "ready", !.index = n]
<1>1. /\ DOMAIN v = WebFields /\ v.pc = "ready" /\ v.step = 1 /\ v.job = job /\ v.before = <<>>
      /\ v.report = None /\ v.aimed = None /\ v.picked = None /\ v.alone \in BOOLEAN
  BY DEF Unsaid, WebFields
<1>2. <<>> \in Seq(Agents) /\ 1 \in 1..Len(Tasks(job))
  BY DEF ToolJobs, Tasks
<1> HIDE DEF v
<1>3. WebCall(v)
  BY <1>1, <1>2 DEF WebCall, Underway, Answering, None
<1> QED BY <1>1, <1>3 DEF v

LEMMA AnsweringCall ==
    ASSUME NEW n
    PROVE  LET w == [Unsaid EXCEPT !.job = "answer", !.pc = "answering", !.named = n]
           IN  /\ WebCall(w) /\ w.pc = "answering" /\ w.step = 0 /\ w.job = "answer"
               /\ w.aimed = None /\ w.report = None
<1> DEFINE w == [Unsaid EXCEPT !.job = "answer", !.pc = "answering", !.named = n]
<1>1. /\ DOMAIN w = WebFields /\ w.pc = "answering" /\ w.step = 0 /\ w.job = "answer"
      /\ w.before = <<>> /\ w.report = None /\ w.aimed = None /\ w.picked = None
      /\ w.alone \in BOOLEAN
  BY DEF Unsaid, WebFields
<1>2. <<>> \in Seq(Agents)
  OBVIOUS
<1> HIDE DEF w
<1>3. WebCall(w)
  BY <1>1, <1>2 DEF WebCall, Underway, Answering, None
<1> QED BY <1>1, <1>3 DEF w

\* One call settles, and the page and what is on its way stay as they are, or less of it.
LEMMA OneCallSettles ==
    ASSUME PageInv, NEW c \in Agents, NEW next, web' = [web EXCEPT ![c] = next],
           WebCall(next), Settled(c), UNCHANGED <<page, fields, targets, toPage>>,
           IsSeq(toServer'), Range(toServer') \subseteq Range(toServer)
    PROVE  PageInv'
<1>1. web' = [b \in Agents |-> IF b = c THEN next ELSE web[b]]
  BY DEF PageInv, PageTypes
<1>2. PageTypes'
  BY <1>1 DEF PageInv, PageTypes, Elems
<1>3. Replies' \subseteq Replies
  BY DEF Replies
<1>4. \A b \in Agents : web'[b] = web[b] \/ Settled(b)
  BY <1>1
<1>5. \A b \in Agents : web[b].job = "answer" => web'[b].job = "answer"
  BY <1>4 DEF Settled
<1>6. \A m \in Range(toServer') : m.kind \in {"handled", "noDialog"} =>
              m.by \in Agents /\ web'[m.by].job = "answer"
  BY <1>5 DEF PageInv, SentBefore
<1> QED BY <1>2, <1>3, <1>4, <1>6, QuietStep

LEMMA OneCallEnds ==
    ASSUME PageInv, NEW c \in Agents, NEW report, web[c].pc # "idle",
           report = "verified" => /\ web[c].step >= 2 /\ Finds(web[c].job)
                                  /\ web[c].alone => /\ web[c].picked \in Elems
                                                     /\ c \in Range(fields[web[c].picked]),
           web[c].job = "tap" /\ web[c].step = 5 => report \in {"done", "delivered"},
           web' = [web EXCEPT ![c] = Ended(web[c], report)],
           UNCHANGED <<page, fields, targets, toPage>>,
           IsSeq(toServer'), Range(toServer') \subseteq Range(toServer)
    PROVE  PageInv'
<1> DEFINE next == Ended(web[c], report)
<1>1. /\ WebCall(next) /\ next.pc = "end" /\ next.report = report /\ next.aimed = None
      /\ next.job = web[c].job /\ next.step = web[c].step
      /\ next.alone = web[c].alone /\ next.picked = web[c].picked
  BY EndedCall DEF PageInv, PageTypes
<1>2. web' = [web EXCEPT ![c] = next]
  OBVIOUS
<1> HIDE DEF next
<1>3. web'[c] = next
  BY <1>2 DEF PageInv, PageTypes
<1>4. Settled(c)
  BY <1>1, <1>3 DEF Settled
<1> QED BY <1>1, <1>2, <1>4, OneCallSettles

LEMMA BeginKeeps ==
    ASSUME PageInv, NEW c \in Agents, Begin(c)
    PROVE  PageInv'
<1>1. PICK job \in JobsOf[c], index \in 0..2 :
        /\ web[c].pc = "idle" /\ job # "answer"
        /\ web' = [web EXCEPT ![c] =
              IF known # 0 THEN Ended([Unsaid EXCEPT !.job = job], "blocked")
              ELSE [Unsaid EXCEPT !.job = job, !.step = 1, !.pc = "ready", !.index = index]]
  BY DEF Begin
<1>2. UNCHANGED <<page, fields, targets, toPage>> /\ toServer' = toServer
  BY DEF Begin
<1>3. job \in ToolJobs
  BY <1>1, PageAssumption
<1> DEFINE u == Ended([Unsaid EXCEPT !.job = job], "blocked")
           v == [Unsaid EXCEPT !.job = job, !.step = 1, !.pc = "ready", !.index = index]
<1>2a. WebCall(u) /\ u.pc = "end" /\ u.step = 0 /\ u.report = "blocked" /\ u.aimed = None
  BY <1>3, RefusedCall
<1>3a. WebCall(v) /\ v.pc = "ready" /\ v.step = 1 /\ v.aimed = None /\ v.report = None
  BY <1>3, StartedCall
<1>4. /\ WebCall(u) /\ u.pc = "end" /\ u.step = 0 /\ u.report = "blocked" /\ u.aimed = None
      /\ WebCall(v) /\ v.pc = "ready" /\ v.step = 1 /\ v.aimed = None /\ v.report = None
  BY <1>2a, <1>3a
<1>5. web[c].job = None /\ IsSeq(toServer) /\ web = [b \in Agents |-> web[b]]
  BY <1>1 DEF PageInv, PageTypes, WebCall
<1>6. web' = [web EXCEPT ![c] = IF known # 0 THEN u ELSE v]
  BY <1>1
<1> HIDE DEF u, v
<1>7. web'[c] = IF known # 0 THEN u ELSE v
  BY <1>5, <1>6
<1>8. Settled(c)
  <2>1. CASE known # 0
    <3>1. web'[c] = u
      BY <1>7, <2>1
    <3>2. web[c].pc = "idle"
      BY <1>1
    <3> QED BY <1>4, <1>5, <3>1, <3>2 DEF Settled, None
  <2>2. CASE known = 0
    <3>1. web'[c] = v
      BY <1>7, <2>2
    <3> QED BY <1>1, <1>4, <1>5, <3>1 DEF Settled, None
  <2> QED BY <2>1, <2>2
<1>9. WebCall(IF known # 0 THEN u ELSE v)
  BY <1>4
<1> QED BY <1>2, <1>5, <1>6, <1>8, <1>9, OneCallSettles

LEMMA AnswerDialogKeeps ==
    ASSUME PageInv, NEW c \in Agents, AnswerDialog(c)
    PROVE  PageInv'
<1> DEFINE u == Ended([Unsaid EXCEPT !.job = "answer"], "noDialog")
           w == [Unsaid EXCEPT !.job = "answer", !.pc = "answering", !.named = known]
<1>1. /\ web[c].pc = "idle" /\ toServer' = toServer
      /\ UNCHANGED <<page, fields, targets, toPage>>
      /\ web' = [web EXCEPT ![c] = IF known = 0 THEN u ELSE w]
  BY DEF AnswerDialog
<1>2. /\ WebCall(u) /\ u.pc = "end" /\ u.step = 0 /\ u.report = "noDialog" /\ u.aimed = None
      /\ u.job = "answer"
  BY RefusedCall
<1>3. WebCall(w) /\ w.pc = "answering" /\ w.step = 0 /\ w.aimed = None /\ w.report = None
  BY AnsweringCall
<1>4. /\ WebCall(u) /\ u.pc = "end" /\ u.step = 0 /\ u.report = "noDialog" /\ u.aimed = None
      /\ u.job = "answer"
      /\ WebCall(w) /\ w.pc = "answering" /\ w.step = 0 /\ w.aimed = None /\ w.report = None
  BY <1>2, <1>3
<1>5. web[c].job = None /\ IsSeq(toServer) /\ web = [b \in Agents |-> web[b]]
  BY <1>1 DEF PageInv, PageTypes, WebCall
<1> HIDE DEF u, w
<1>7. web'[c] = IF known = 0 THEN u ELSE w
  BY <1>1, <1>5
<1>8. Settled(c)
  BY <1>1, <1>4, <1>5, <1>7 DEF Settled, None
<1>9. WebCall(IF known = 0 THEN u ELSE w)
  BY <1>4
<1> QED BY <1>1, <1>5, <1>8, <1>9, OneCallSettles

LEMMA TimesOutKeeps ==
    ASSUME PageInv, NEW c \in Agents, TimesOut(c)
    PROVE  PageInv'
<1>1. /\ web[c].pc = "wait" /\ UNCHANGED <<page, fields, targets, toPage, toServer>>
      /\ web' = [web EXCEPT ![c] = Ended(web[c], Failed(Task(c)))]
  BY DEF TimesOut, PageInv, PageTypes
<1>2. Failed(Task(c)) # "verified"
  BY DEF Failed, CaughtAfterwards
<1>3. web[c].job = "tap" /\ web[c].step = 5 => Failed(Task(c)) \in {"done", "delivered"}
  BY DEF Failed, CaughtAfterwards, Task, Tasks
<1>4. IsSeq(toServer)
  BY DEF PageInv, PageTypes
<1> QED BY <1>1, <1>2, <1>3, <1>4, OneCallEnds

LEMMA CloseWaitEndsKeeps ==
    ASSUME PageInv, NEW c \in Agents, CloseWaitEnds(c)
    PROVE  PageInv'
<1>1. /\ web[c].pc = "closing" /\ UNCHANGED <<page, fields, targets, toPage, toServer>>
      /\ web' = [web EXCEPT ![c] = Ended(web[c], "unconfirmed")]
  BY DEF CloseWaitEnds, PageInv, PageTypes
<1>2. web[c].job = "answer" /\ IsSeq(toServer)
  BY <1>1 DEF PageInv, PageTypes, WebCall, Answering
<1> QED BY <1>1, <1>2, OneCallEnds

\* Nothing happens to the calls, and nothing runs on the page.
LEMMA WorldKeeps ==
    ASSUME PageInv, TimerOpens \/ PersonCloses \/ Unmounts \/ FocusMoves
    PROVE  PageInv'
<1> USE DEF PageInv
<1>1. UNCHANGED <<fields, targets, toPage, web>>
  BY DEF TimerOpens, PersonCloses, Closes, Unmounts, FocusMoves
<1>2. /\ IsSeq(toServer') /\ IsSeq(page'.held) /\ page'.mounted \subseteq Elems
      /\ DOMAIN page' = {"mounted", "focus", "dialog", "opened", "held"}
      /\ \A m \in Range(toServer') : m \in Range(toServer) \cup Range(page.held)
                                     \/ m.kind \in {"opened", "closed"}
      /\ Range(page'.held) \subseteq Range(page.held)
  <2>1. CASE TimerOpens
    <3> DEFINE m == Opening(page.opened + 1)
    <3>1. toServer' = Append(toServer, m)
      BY <2>1 DEF TimerOpens
    <3>2. m.kind = "opened"
      BY DEF Opening
    <3>3. IsSeq(toServer') /\ Range(toServer') = Range(toServer) \cup {m}
      BY <3>1, Appended DEF PageTypes
    <3>4. /\ page'.held = page.held /\ page'.mounted = page.mounted
          /\ DOMAIN page' = {"mounted", "focus", "dialog", "opened", "held"}
      BY <2>1 DEF TimerOpens, PageTypes
    <3> QED BY <3>2, <3>3, <3>4 DEF PageTypes
  <2>2. CASE PersonCloses
    <3> DEFINE m == [kind |-> "closed"]
    <3>1. toServer' = (Append(toServer, m) \o page.held) \o <<>>
      BY <2>2 DEF PersonCloses, Closes
    <3>2. IsSeq(Append(toServer, m)) /\ Range(Append(toServer, m)) = Range(toServer) \cup {m}
      BY Appended DEF PageTypes
    <3>3. /\ IsSeq(Append(toServer, m) \o page.held)
          /\ Range(Append(toServer, m) \o page.held) = (Range(toServer) \cup {m}) \cup Range(page.held)
      BY <3>2, Joined DEF PageTypes
    <3>4. IsSeq(<<>>) /\ Range(<<>>) = {}
      BY DEF IsSeq, Range
    <3>5. /\ IsSeq(toServer')
          /\ Range(toServer') = (Range(toServer) \cup {m}) \cup Range(page.held)
      BY <3>1, <3>3, <3>4, Joined
    <3>6. /\ page'.held = <<>> /\ page'.mounted = page.mounted
          /\ DOMAIN page' = {"mounted", "focus", "dialog", "opened", "held"}
      BY <2>2 DEF PersonCloses, Closes, PageTypes
    <3> QED BY <3>4, <3>5, <3>6 DEF PageTypes
  <2>3. CASE Unmounts \/ FocusMoves
    <3>1. /\ page'.held = page.held /\ page'.mounted \subseteq page.mounted
          /\ DOMAIN page' = {"mounted", "focus", "dialog", "opened", "held"}
          /\ toServer' = toServer
      BY <2>3 DEF Unmounts, FocusMoves, PageTypes
    <3> QED BY <3>1 DEF PageTypes
  <2> QED BY <2>1, <2>2, <2>3
<1>3. PageTypes'
  BY <1>1, <1>2 DEF PageTypes, Elems
<1>4. Replies' \subseteq Replies
  BY <1>2 DEF Replies, SentBefore
<1>5. \A m \in Range(toServer') : m.kind \in {"handled", "noDialog"} =>
           m.by \in Agents /\ web'[m.by].job = "answer"
  BY <1>1, <1>2 DEF SentBefore, Replies
<1> QED BY <1>1, <1>3, <1>4, <1>5, QuietStep

\* Every call that waits for what a dialog's opening or closing settles is settled.
LEMMA DialogNoted ==
    ASSUME PageInv, OnMessage,
           \/ \E d : NoteDialogOpened(d)
           \/ NoteDialogClosed
    PROVE  PageInv'
<1> USE DEF PageInv
<1>1. ASSUME NEW c \in Agents
      PROVE  WebCall(web'[c]) /\ (web'[c] = web[c] \/ Settled(c)) /\ web'[c].job = web[c].job
  <2>1. \/ web'[c] = web[c]
        \/ \E report \in {"delivered", "error", "answered"} :
             /\ web'[c] = Ended(web[c], report)
             /\ web[c].pc # "idle"
             /\ web[c].job = "tap" /\ web[c].step = 5 => report = "delivered"
    <3>1. CASE \E d : NoteDialogOpened(d)
      <4>1. web'[c] = IF web[c].pc = "wait" /\ Raced(Task(c))
                      THEN Ended(web[c], OnDialog(Task(c))) ELSE web[c]
        BY <3>1 DEF NoteDialogOpened
      <4>2. OnDialog(Task(c)) \in {"delivered", "error"}
        BY DEF OnDialog
      <4>3. web[c].job = "tap" /\ web[c].step = 5 => OnDialog(Task(c)) = "delivered"
        BY DEF OnDialog, Task, Tasks
      <4> QED BY <4>1, <4>2, <4>3
    <3>2. CASE NoteDialogClosed
      <4>1. web'[c] = IF web[c].pc = "closing" THEN Ended(web[c], "answered") ELSE web[c]
        BY <3>2 DEF NoteDialogClosed
      <4>2. web[c].pc = "closing" => web[c].job = "answer"
        BY DEF PageTypes, WebCall, Answering
      <4> QED BY <4>1, <4>2
    <3> QED BY <3>1, <3>2
  <2>2. WebCall(web[c])
    BY DEF PageTypes
  <2>3. ASSUME NEW report \in {"delivered", "error", "answered"},
               web'[c] = Ended(web[c], report), web[c].pc # "idle",
               web[c].job = "tap" /\ web[c].step = 5 => report = "delivered"
        PROVE  WebCall(web'[c]) /\ Settled(c) /\ web'[c].job = web[c].job
    <3>1. LET e == web'[c] IN
           /\ WebCall(e) /\ e.pc = "end" /\ e.report = report /\ e.aimed = None
           /\ e.job = web[c].job /\ e.step = web[c].step
      BY <2>2, <2>3, EndedCall
    <3> QED BY <2>3, <3>1 DEF Settled
  <2> QED BY <2>1, <2>2, <2>3
<1>2. /\ UNCHANGED <<page, fields, targets, toPage>> /\ toServer' = Tail(toServer)
      /\ toServer # <<>>
  BY DEF OnMessage
<1>3. IsSeq(toServer') /\ Range(toServer') \subseteq Range(toServer)
  BY <1>2, TakenOff DEF PageTypes
<1>4. web' = [c \in Agents |-> web'[c]]
  BY DEF NoteDialogOpened, NoteDialogClosed
<1>5. PageTypes'
  BY <1>1, <1>2, <1>3, <1>4 DEF PageTypes, Elems
<1>6. Replies' \subseteq Replies
  BY <1>2, <1>3 DEF Replies
<1>7. \A m \in Range(toServer') : m.kind \in {"handled", "noDialog"} =>
           m.by \in Agents /\ web'[m.by].job = "answer"
  BY <1>1, <1>3 DEF SentBefore
<1> QED BY <1>1, <1>2, <1>5, <1>6, <1>7, QuietStep

\* The answer to a handle_dialog that has closed it, or found none.
LEMMA HandledKeeps ==
    ASSUME PageInv, OnMessage, Head(toServer).kind \in {"handled", "noDialog"},
           LET m == Head(toServer) IN
           \/ web' = [web EXCEPT ![m.by] = IF known = 0 THEN Ended(@, "answered")
                                            ELSE [@ EXCEPT !.pc = "closing"]]
           \/ web' = [web EXCEPT ![m.by] = Ended(@, "noDialog")]
    PROVE  PageInv'
<1> DEFINE c == Head(toServer).by
<1>1. /\ UNCHANGED <<page, fields, targets, toPage>> /\ toServer' = Tail(toServer)
      /\ toServer # <<>>
  BY DEF OnMessage
<1>2. /\ IsSeq(toServer') /\ Range(toServer') \subseteq Range(toServer)
      /\ Head(toServer) \in Range(toServer)
  BY <1>1, TakenOff DEF PageInv, PageTypes
<1>3. c \in Agents /\ web[c].job = "answer"
  BY <1>2 DEF PageInv, SentBefore
<1> HIDE DEF c
<1>4. WebCall(web[c])
  BY <1>3 DEF PageInv, PageTypes
<1>5. web[c].pc # "idle"
  BY <1>3, <1>4 DEF WebCall, None, Underway, ToolJobs
<1>6. CASE \E report \in {"answered", "noDialog"} : web' = [web EXCEPT ![c] = Ended(web[c], report)]
  <2>1. PICK report \in {"answered", "noDialog"} : web' = [web EXCEPT ![c] = Ended(web[c], report)]
    BY <1>6
  <2>2. report # "verified" /\ (web[c].job = "tap" /\ web[c].step = 5 => report \in {"done", "delivered"})
    BY <1>3
  <2> QED BY <1>1, <1>2, <1>3, <1>5, <2>1, <2>2, OneCallEnds
<1>7. CASE web' = [web EXCEPT ![c] = [web[c] EXCEPT !.pc = "closing"]]
  <2> DEFINE next == [web[c] EXCEPT !.pc = "closing"]
  <2>1. /\ DOMAIN next = WebFields /\ next.pc = "closing" /\ next.job = "answer"
        /\ next.alone = web[c].alone /\ next.before = web[c].before /\ next.step = web[c].step
        /\ next.picked = web[c].picked /\ next.aimed = web[c].aimed /\ next.report = web[c].report
    BY <1>3, <1>4 DEF WebCall, WebFields
  <2>2. web' = [web EXCEPT ![c] = next] /\ web'[c] = next
    BY <1>3, <1>7 DEF PageInv, PageTypes
  <2> HIDE DEF next
  <2>3. WebCall(next) /\ next.aimed = None /\ next.report # "verified"
    BY <1>3, <1>4, <2>1 DEF WebCall, Underway, Answering, Finds
  <2>4. Settled(c)
    BY <1>3, <1>5, <1>7, <2>1, <2>2, <2>3 DEF Settled
  <2> QED BY <1>1, <1>2, <1>3, <2>2, <2>3, <2>4, OneCallSettles
<1> QED BY <1>6, <1>7 DEF c

LEMMA AnsweringKeeps ==
    ASSUME PageInv, NEW c \in Agents, HandleJavaScriptDialog(c)
    PROVE  PageInv'
<1> DEFINE m == [kind |-> "handled", by |-> c]
           n == [kind |-> "noDialog", by |-> c]
           d == [kind |-> "closed"]
           next == [web[c] EXCEPT !.pc = "sent"]
<1> USE DEF PageInv
<1>1. web[c].pc = "answering" /\ UNCHANGED <<fields, targets, toPage>>
  BY DEF HandleJavaScriptDialog
<1>2. WebCall(web[c])
  BY DEF PageTypes
<1>3. /\ DOMAIN next = WebFields /\ next.pc = "sent" /\ next.job = "answer"
      /\ next.alone = web[c].alone /\ next.before = web[c].before /\ next.step = web[c].step
      /\ next.picked = web[c].picked /\ next.aimed = web[c].aimed /\ next.report = web[c].report
  BY <1>1, <1>2 DEF WebCall, WebFields, Answering
<1>4. web' = [b \in Agents |-> IF b = c THEN next ELSE web[b]]
  BY DEF HandleJavaScriptDialog, PageTypes
<1> HIDE DEF next
<1>5. WebCall(next) /\ next.aimed = None /\ next.report # "verified" /\ web[c].job = "answer"
  BY <1>1, <1>2, <1>3 DEF WebCall, Underway, Answering, Finds
<1>6. /\ IsSeq(toServer') /\ IsSeq(page'.held) /\ page'.mounted \subseteq Elems
      /\ DOMAIN page' = {"mounted", "focus", "dialog", "opened", "held"}
      /\ Range(toServer') \subseteq (Range(toServer) \cup Range(page.held)) \cup {m, n, d}
      /\ Range(page'.held) \subseteq Range(page.held)
  <2>0. IsSeq(<<>>) /\ Range(<<>>) = {}
    BY DEF IsSeq, Range
  <2>1. CASE page.dialog # 0
    <3>1. toServer' = (Append(toServer, d) \o page.held) \o <<m>>
      BY <2>1 DEF HandleJavaScriptDialog, Closes
    <3>2. IsSeq(Append(toServer, d)) /\ Range(Append(toServer, d)) = Range(toServer) \cup {d}
      BY Appended DEF PageTypes
    <3>3. /\ IsSeq(Append(toServer, d) \o page.held)
          /\ Range(Append(toServer, d) \o page.held) = (Range(toServer) \cup {d}) \cup Range(page.held)
      BY <3>2, Joined DEF PageTypes
    <3>4. IsSeq(<<m>>) /\ Range(<<m>>) = {m}
      BY DEF IsSeq, Range
    <3>5. /\ IsSeq(toServer')
          /\ Range(toServer') = ((Range(toServer) \cup {d}) \cup Range(page.held)) \cup {m}
      BY <3>1, <3>3, <3>4, Joined
    <3>6. /\ page'.held = <<>> /\ page'.mounted = page.mounted
          /\ DOMAIN page' = {"mounted", "focus", "dialog", "opened", "held"}
      BY <2>1 DEF HandleJavaScriptDialog, Closes, PageTypes
    <3> HIDE DEF m, n, d
    <3> QED BY <2>0, <3>5, <3>6 DEF PageTypes
  <2>2. CASE page.dialog = 0
    <3>1. toServer' = Append(toServer, n) /\ UNCHANGED page
      BY <2>2 DEF HandleJavaScriptDialog
    <3>2. IsSeq(toServer') /\ Range(toServer') = Range(toServer) \cup {n}
      BY <3>1, Appended DEF PageTypes
    <3> HIDE DEF m, n, d
    <3> QED BY <3>1, <3>2 DEF PageTypes
  <2> QED BY <2>1, <2>2
<1>7. /\ m.kind = "handled" /\ m.by = c /\ n.kind = "noDialog" /\ n.by = c /\ d.kind = "closed"
  OBVIOUS
<1> HIDE DEF m, n, d
<1>8. PageTypes'
  BY <1>1, <1>4, <1>5, <1>6 DEF PageTypes, Elems
<1>9. Replies' \subseteq Replies
  BY <1>6, <1>7 DEF Replies, SentBefore
<1>10. \A x \in Range(toServer') : x.kind \in {"handled", "noDialog"} =>
           x.by \in Agents /\ web'[x.by].job = "answer"
  <2>1. \A b \in Agents : web'[b].job = web[b].job
    BY <1>3, <1>4, <1>5
  <2>2. \A x \in Range(page.held) : x.kind = "reply"
    BY DEF SentBefore, Replies
  <2>3. web'[c].job = "answer"
    BY <2>1, <1>5
  <2> QED BY <1>6, <1>7, <2>1, <2>2, <2>3 DEF SentBefore
<1>11. \A b \in Agents : web'[b] = web[b] \/ Settled(b)
  BY <1>1, <1>3, <1>4, <1>5 DEF Settled
<1> QED BY <1>1, <1>8, <1>9, <1>10, <1>11, QuietStep

\* Where in its tool a task comes that is asked once.
LEMMA TaskPlace ==
    ASSUME NEW c \in Agents, web[c].job \in ToolJobs, web[c].step \in 1..Len(Tasks(web[c].job))
    PROVE  /\ StepOf(Task(c)) \in {0, web[c].step}
           /\ Task(c) \in {"collect", "prepare", "focus", "read"} =>
                 StepOf(Task(c)) = web[c].step /\ Finds(web[c].job)
           /\ Task(c) = "read" => web[c].job = "text"
<1> DEFINE job == web[c].job
           step == web[c].step
<1>1. CASE job = "tap"
  <2>1. Tasks(job) = <<"collect", "prepare", "capture", "click", "shot">> /\ step \in 1..5
    BY <1>1 DEF Tasks
  <2> QED BY <1>1, <2>1 DEF Task, StepOf, Finds
<1>2. CASE job = "tapAt"
  <2>1. Tasks(job) = <<"viewport", "click">> /\ step \in 1..2
    BY <1>2 DEF Tasks
  <2> QED BY <1>2, <2>1 DEF Task, StepOf, Finds
<1>3. CASE job = "text"
  <2>1. Tasks(job) = <<"collect", "focus", "insert", "read">> /\ step \in 1..4
    BY <1>3 DEF Tasks
  <2> QED BY <1>3, <2>1 DEF Task, StepOf, Finds
<1>4. CASE job = "key"
  <2>1. Tasks(job) = <<"collect", "focus", "key", "key", "active">> /\ step \in 1..5
    BY <1>4 DEF Tasks
  <2> QED BY <1>4, <2>1 DEF Task, StepOf, Finds
<1>5. CASE job = "swipe"
  <2>1. Tasks(job) = <<"probe", "wheel", "settled">> /\ step \in 1..3
    BY <1>5 DEF Tasks
  <2> QED BY <1>5, <2>1 DEF Task, StepOf, Finds
<1> QED BY <1>1, <1>2, <1>3, <1>4, <1>5 DEF ToolJobs

\* A task goes to the page.
LEMMA SendKeeps ==
    ASSUME PageInv, NEW c \in Agents, RaceDialog(c), MaySend(c)
    PROVE  PageInv'
<1> DEFINE t == [by |-> c, task |-> Task(c), slot |-> web[c].slot, told |-> known # 0]
           next == [web[c] EXCEPT !.pc = "wait", !.sent = @ \/ Task(c) \in Inputs]
<1> USE DEF PageInv
<1>1. /\ web[c].pc = "ready" /\ UNCHANGED <<page, fields, targets, toServer>>
      /\ toPage' = Append(toPage, t)
  BY DEF RaceDialog
<1>2. WebCall(web[c])
  BY DEF PageTypes
<1>3. web' = [b \in Agents |-> IF b = c THEN next ELSE web[b]]
  BY DEF RaceDialog, PageTypes
<1>4. /\ DOMAIN next = WebFields /\ next.pc = "wait" /\ next.job = web[c].job
      /\ next.alone = web[c].alone /\ next.before = web[c].before /\ next.step = web[c].step
      /\ next.picked = web[c].picked /\ next.aimed = web[c].aimed /\ next.report = web[c].report
      /\ next.slot = web[c].slot
  BY <1>2 DEF WebCall, WebFields
<1>5. t.by = c /\ t.task = Task(c) /\ t.slot = web[c].slot /\ (t.told => known # 0)
  OBVIOUS
<1>6. IsSeq(toPage') /\ Range(toPage') = Range(toPage) \cup {t}
  BY <1>1, Appended DEF PageTypes
<1> HIDE DEF t, next
<1>7. /\ web[c].job \in ToolJobs /\ web[c].step \in 1..Len(Tasks(web[c].job))
      /\ web[c].job # "answer"
  BY <1>1, <1>2 DEF WebCall, Underway, ToolJobs
<1>8. /\ StepOf(Task(c)) \in {0, web[c].step}
      /\ Task(c) \in {"collect", "prepare", "focus", "read"} =>
           StepOf(Task(c)) = web[c].step /\ Finds(web[c].job)
  BY <1>7, TaskPlace
<1>9. WebCall(next)
  BY <1>1, <1>2, <1>4 DEF WebCall, Underway, Answering
<1>10. PageTypes'
  BY <1>1, <1>3, <1>6, <1>9 DEF PageTypes, Elems
<1>11. Replies' = Replies
  BY <1>1 DEF Replies
<1>12. \A b \in Agents :
        /\ web'[b].job = web[b].job /\ web'[b].step = web[b].step /\ web'[b].alone = web[b].alone
        /\ web'[b].slot = web[b].slot /\ web'[b].picked = web[b].picked
        /\ web'[b].aimed = web[b].aimed /\ web'[b].report = web[b].report
        /\ web'[b].pc = IF b = c THEN "wait" ELSE web[b].pc
  BY <1>3, <1>4
<1>13. SentBefore'
  <2>1. ASSUME NEW p \in Pending
        PROVE  /\ p.by \in Agents /\ web'[p.by].pc \in {"ready", "wait", "end"}
               /\ web'[p.by].job # "answer" /\ StepOf(p.task) <= web'[p.by].step
               /\ web'[p.by].pc = "ready" => StepOf(p.task) < web'[p.by].step
               /\ p.task = "collect" => Finds(web'[p.by].job)
    BY <1>1, <1>12 DEF SentBefore
  <2>2. /\ web'[c].pc = "wait" /\ web'[c].job # "answer" /\ StepOf(t.task) <= web'[c].step
        /\ t.task = "collect" => Finds(web'[c].job)
    BY <1>2, <1>5, <1>7, <1>8, <1>12 DEF WebCall
  <2>3. Pending' = Pending \cup {t}
    BY <1>6, <1>11 DEF Pending
  <2>4. \A m \in Range(toServer) : m.kind \in {"handled", "noDialog"} =>
          m.by \in Agents /\ web'[m.by].job = "answer"
    BY <1>12 DEF SentBefore
  <2>5. \A m \in Replies : m.kind = "reply"
    BY DEF SentBefore
  <2> QED BY <1>1, <1>5, <1>11, <2>1, <2>2, <2>3, <2>4, <2>5 DEF SentBefore
\* A call that is ready has nothing under way with the name of its next task.
<1>14. \A p \in Pending : p.by = c => StepOf(p.task) < web[c].step
  BY <1>1 DEF SentBefore
<1>15. ASSUME NEW p \in Pending, p.by = c, p.task = Task(c)
       PROVE  StepOf(p.task) = 0
  <2>1. StepOf(p.task) \in {0, web[c].step} /\ StepOf(p.task) < web[c].step
    BY <1>8, <1>14, <1>15
  <2>2. web[c].step \in 0..5
    BY <1>2 DEF WebCall
  <2> QED BY <2>1, <2>2
<1>16. CollectsOnce'
  <2>1. StepOf("collect") = 1 /\ "collect" \in {"collect", "prepare", "focus", "read"}
    BY DEF StepOf
  <2>2. ASSUME t.task = "collect"
        PROVE  web'[c].step = 1 /\ \A p \in Pending : p.by = c => p.task # "collect"
    BY <1>5, <1>8, <1>12, <1>14, <2>1, <2>2
  <2>3. \A x \in Range(toPage') : x.task = "collect" =>
         /\ web'[x.by].step = 1
         /\ \A m \in Replies : m.by = x.by => m.task # "collect"
    <3>1. ASSUME NEW x \in Range(toPage), x.task = "collect"
          PROVE  /\ web'[x.by].step = 1
                 /\ \A m \in Replies : m.by = x.by => m.task # "collect"
      BY <1>12, <3>1 DEF CollectsOnce, SentBefore, Pending
    <3>2. t.task = "collect" => /\ web'[t.by].step = 1
                                /\ \A m \in Replies : m.by = t.by => m.task # "collect"
      BY <1>5, <2>2 DEF Pending
    <3> QED BY <1>6, <3>1, <3>2
  <2>4. ASSUME NEW i \in DOMAIN toPage', NEW j \in DOMAIN toPage',
               toPage'[i].task = "collect", toPage'[j].task = "collect", toPage'[i].by = toPage'[j].by
        PROVE  i = j
    <3>1. /\ DOMAIN toPage = 1..Len(toPage) /\ DOMAIN toPage' = 1..Len(toPage) + 1
          /\ Len(toPage) \in Nat /\ toPage'[Len(toPage) + 1] = t
          /\ \A k \in 1..Len(toPage) : toPage'[k] = toPage[k]
      BY <1>1 DEF PageTypes, IsSeq
    <3>2. \A k \in DOMAIN toPage : toPage[k] \in Pending
      BY DEF Pending, Range
    <3>3. CASE i \in DOMAIN toPage /\ j \in DOMAIN toPage
      BY <2>4, <3>1, <3>3 DEF CollectsOnce
    <3>4. CASE i = Len(toPage) + 1 /\ j \in DOMAIN toPage
      BY <1>5, <2>2, <2>4, <3>1, <3>2, <3>4
    <3>5. CASE j = Len(toPage) + 1 /\ i \in DOMAIN toPage
      BY <1>5, <2>2, <2>4, <3>1, <3>2, <3>5
    <3> QED BY <3>1, <3>3, <3>4, <3>5
  <2> QED BY <1>11, <2>3, <2>4 DEF CollectsOnce
<1>17. ASSUME NEW p \in Pending, Awaited(p)', StepOf(p.task) # 0
       PROVE  web'[p.by] = web[p.by] /\ Awaited(p)
  <2>1. p.by \in Agents
    BY DEF SentBefore
  <2>2. Task(p.by)' = Task(p.by)
    BY <2>1, <1>12 DEF Task
  <2>3. p.by # c
    BY <1>15, <1>17, <2>2 DEF Awaited
  <2> QED BY <1>3, <1>17, <2>1, <2>2, <2>3 DEF Awaited
<1>18. Located'
  <2>1. ASSUME NEW b \in Agents
        PROVE  web'[b].alone /\ Underway(web'[b]) /\ web'[b].step >= 2 /\ Finds(web'[b].job)
                  => At(web[b].slot, web[b].picked)'
    BY <1>1, <1>12 DEF Located, At, Underway
  <2>2. \A x \in Range(toPage') :
           StepOf(x.task) >= 2 /\ Awaited(x)' => x.slot = web'[x.by].slot
    <3>1. ASSUME NEW x \in Range(toPage), StepOf(x.task) >= 2, Awaited(x)'
          PROVE  x.slot = web'[x.by].slot
      <4>1. x \in Pending /\ StepOf(x.task) # 0
        BY <3>1 DEF Pending, StepOf
      <4>2. web'[x.by] = web[x.by] /\ Awaited(x)
        BY <1>17, <3>1, <4>1
      <4> QED BY <3>1, <4>2 DEF Located
    <3>2. t.slot = web'[t.by].slot
      BY <1>5, <1>12
    <3> QED BY <1>6, <3>1, <3>2
  <2>3. ASSUME NEW m \in Replies, Awaited(m)', m.task \in {"collect", "prepare", "focus", "read"}
        PROVE  web'[m.by] = web[m.by] /\ Awaited(m)
    BY <1>17, <2>3 DEF StepOf, Pending
  <2>4. ASSUME NEW m \in Replies, Awaited(m)'
        PROVE  /\ m.task = "collect" =>
                    /\ m.value.kind # "verified"
                    /\ m.value.kind = "ok" /\ web'[m.by].alone => At(m.slot, m.value.cand)'
               /\ m.task \in {"prepare", "focus"} =>
                    /\ m.value.before \in Seq(Agents)
                    /\ web'[m.by].alone => m.value.elem \in {None, web'[m.by].picked}
               /\ m.task = "read" /\ m.value.elem # None =>
                    /\ m.value.elem \in Elems
                    /\ Range(m.value.value) \subseteq Range(fields'[m.value.elem])
                    /\ web'[m.by].alone => m.value.elem = web'[m.by].picked
    BY <1>1, <2>3, <2>4 DEF Located, At
  <2> QED BY <1>11, <2>1, <2>2, <2>4 DEF Located, Elems
<1>19. OnPicked'
  BY <1>1, <1>12 DEF OnPicked, Elems
<1>20. AnsweredNotFailed'
  BY <1>12 DEF AnsweredNotFailed
<1>21. NothingLandsLate'
  <2>1. t.told => t.task \notin {"click", "key", "wheel"}
    BY <1>5 DEF MaySend, Raced
  <2>2. \A i \in DOMAIN toPage' : toPage'[i] \in Range(toPage) \cup {t}
    BY <1>6 DEF Range
  <2>3. \A x \in Range(toPage) : x.told => x.task \notin {"click", "key", "wheel"}
    BY DEF NothingLandsLate, Range
  <2> QED BY <2>1, <2>2, <2>3 DEF NothingLandsLate
<1> QED BY <1>10, <1>13, <1>16, <1>18, <1>19, <1>20, <1>21

LEMMA RaceDialogKeeps ==
    ASSUME PageInv, NEW c \in Agents, RaceDialog(c)
    PROVE  PageInv'
<1>1. CASE MaySend(c)
  BY <1>1, SendKeeps
<1>2. CASE ~MaySend(c)
  <2>1. /\ web[c].pc = "ready" /\ UNCHANGED <<page, fields, targets, toPage, toServer>>
        /\ web' = [web EXCEPT ![c] = Ended(web[c], OnDialog(Task(c)))]
    BY <1>2 DEF RaceDialog, PageInv, PageTypes
  <2>2. OnDialog(Task(c)) # "verified"
    BY DEF OnDialog
  <2>3. web[c].job = "tap" /\ web[c].step = 5 => OnDialog(Task(c)) \in {"done", "delivered"}
    BY DEF OnDialog, Task, Tasks
  <2>4. IsSeq(toServer)
    BY DEF PageInv, PageTypes
  <2> QED BY <2>1, <2>2, <2>3, <2>4, OneCallEnds
<1> QED BY <1>1, <1>2

\* A tool that looks for an element begins with that.
LEMMA FirstFinds ==
    ASSUME NEW c \in Agents, Finds(web[c].job), web[c].step = 1
    PROVE  Task(c) = "collect"
BY DEF Finds, Task, Tasks

\* Once its collection is answered, a call has none on its way.
LEMMA NoneLeft ==
    ASSUME PageInv, NEW m \in Replies, web[m.by].pc = "wait", Task(m.by) = m.task,
           NEW t \in Range(toPage), t.by = m.by
    PROVE  t.task # "collect"
<1>1. SUFFICES ASSUME t.task = "collect"  PROVE FALSE
  OBVIOUS
<1>2. t \in Pending /\ m.by \in Agents
  BY DEF Pending, PageInv, SentBefore
<1>3. web[m.by].step = 1 /\ Finds(web[m.by].job) /\ m.task # "collect"
  BY <1>1, <1>2 DEF PageInv, SentBefore, CollectsOnce
<1> QED BY <1>2, <1>3, FirstFinds

\* A call goes on to its next task.
LEMMA OneCallAdvances ==
    ASSUME PageInv, NEW c \in Agents, NEW next, web' = [web EXCEPT ![c] = next],
           UNCHANGED <<page, fields, targets, toPage>>,
           IsSeq(toServer'), Range(toServer') \subseteq Range(toServer),
           \A t \in Range(toPage) : t.by = c => t.task # "collect",
           Underway(web[c]), WebCall(next), next.pc = "ready",
           next.job = web[c].job, next.step = web[c].step + 1, next.alone = web[c].alone,
           next.report = web[c].report,
           next.picked = web[c].picked \/ web[c].report # "verified",
           next.alone => next.aimed \in {None, next.picked},
           next.alone /\ Finds(next.job) => At(next.slot, next.picked)
    PROVE  PageInv'
<1> USE DEF PageInv
<1>1. web' = [b \in Agents |-> IF b = c THEN next ELSE web[b]]
  BY DEF PageTypes
<1>2. PageTypes'
  BY <1>1 DEF PageTypes, Elems
<1>3. Replies' \subseteq Replies /\ Range(toPage') = Range(toPage)
  BY DEF Replies
<1>4. web'[c] = next /\ \A b \in Agents : b # c => web'[b] = web[b]
  BY <1>1
<1>5. WebCall(web[c]) /\ web[c].step \in 0..5 /\ web[c].job \in ToolJobs
  BY DEF PageTypes, WebCall
<1>6. web[c].job # "answer"
  BY <1>5 DEF ToolJobs
<1>7. SentBefore'
  <2>1. ASSUME NEW p \in Pending
        PROVE  /\ p.by \in Agents /\ web'[p.by].pc \in {"ready", "wait", "end"}
               /\ web'[p.by].job # "answer" /\ StepOf(p.task) <= web'[p.by].step
               /\ web'[p.by].pc = "ready" => StepOf(p.task) < web'[p.by].step
               /\ p.task = "collect" => Finds(web'[p.by].job)
    <3>1. /\ p.by \in Agents /\ web[p.by].pc \in {"ready", "wait", "end"}
          /\ web[p.by].job # "answer" /\ StepOf(p.task) <= web[p.by].step
          /\ web[p.by].pc = "ready" => StepOf(p.task) < web[p.by].step
          /\ p.task = "collect" => Finds(web[p.by].job)
      BY DEF SentBefore
    <3>2. StepOf(p.task) \in 0..5
      BY DEF StepOf
    <3>3. CASE p.by = c
      BY <1>4, <1>5, <3>1, <3>2, <3>3
    <3>4. CASE p.by # c
      BY <1>4, <3>1, <3>4
    <3> QED BY <3>3, <3>4
  <2>2. Pending' \subseteq Pending
    BY <1>3 DEF Pending
  <2>3. \A m \in Replies : m.kind = "reply"
    BY DEF SentBefore
  <2>4. \A m \in Range(toServer') : m.kind \in {"handled", "noDialog"} =>
          m.by \in Agents /\ web'[m.by].job = "answer"
    BY <1>4, <1>6 DEF SentBefore
  <2> QED BY <1>3, <2>1, <2>2, <2>3, <2>4 DEF SentBefore
<1>8. CollectsOnce'
  <2>1. ASSUME NEW t \in Range(toPage), t.task = "collect"
        PROVE  web'[t.by].step = 1
    <3>1. t.by # c /\ t.by \in Agents /\ web[t.by].step = 1
      BY <2>1 DEF CollectsOnce, SentBefore, Pending
    <3> QED BY <1>4, <3>1
  <2> QED BY <1>3, <2>1 DEF CollectsOnce
<1>9. ASSUME NEW p \in Pending, Awaited(p)'
      PROVE  web'[p.by] = web[p.by] /\ Awaited(p) /\ p.by \in Agents
  <2>1. p.by \in Agents
    BY DEF SentBefore
  <2>2. p.by # c
    BY <1>4, <1>9 DEF Awaited
  <2> QED BY <1>4, <1>9, <2>1, <2>2 DEF Awaited, Task
<1>10. Located'
  <2>1. ASSUME NEW b \in Agents
        PROVE  web'[b].alone /\ Underway(web'[b]) /\ web'[b].step >= 2 /\ Finds(web'[b].job)
                  => At(web[b].slot, web[b].picked)'
    <3>1. CASE b = c
      BY <1>4, <3>1 DEF At
    <3>2. CASE b # c
      BY <1>4, <3>2 DEF Located, At
    <3> QED BY <3>1, <3>2
  <2>2. \A t \in Range(toPage) :
           StepOf(t.task) >= 2 /\ Awaited(t)' => t.slot = web'[t.by].slot
    BY <1>9 DEF Located, Pending
  <2>3. ASSUME NEW m \in Replies, Awaited(m)'
        PROVE  /\ m.task = "collect" =>
                    /\ m.value.kind # "verified"
                    /\ m.value.kind = "ok" /\ web'[m.by].alone => At(m.slot, m.value.cand)'
               /\ m.task \in {"prepare", "focus"} =>
                    /\ m.value.before \in Seq(Agents)
                    /\ web'[m.by].alone => m.value.elem \in {None, web'[m.by].picked}
               /\ m.task = "read" /\ m.value.elem # None =>
                    /\ m.value.elem \in Elems
                    /\ Range(m.value.value) \subseteq Range(fields'[m.value.elem])
                    /\ web'[m.by].alone => m.value.elem = web'[m.by].picked
    <3>1. web'[m.by] = web[m.by] /\ Awaited(m)
      BY <1>9, <2>3 DEF Pending
    <3> QED BY <3>1 DEF Located, At
  <2> QED BY <1>3, <2>1, <2>2, <2>3 DEF Located, Elems
<1>11. OnPicked'
  <2>1. ASSUME NEW b \in Agents, web'[b].alone
        PROVE  /\ web'[b].aimed \in {None, web'[b].picked}
               /\ web'[b].report = "verified" =>
                     web'[b].picked \in Elems /\ b \in Range(fields[web'[b].picked])
    <3>1. CASE b = c
      BY <1>4, <2>1, <3>1 DEF OnPicked
    <3>2. CASE b # c
      BY <1>4, <2>1, <3>2 DEF OnPicked
    <3> QED BY <3>1, <3>2
  <2> QED BY <2>1 DEF OnPicked, Elems
<1>12. AnsweredNotFailed'
  BY <1>4 DEF AnsweredNotFailed
<1>13. NothingLandsLate'
  BY DEF NothingLandsLate
<1> QED BY <1>2, <1>7, <1>8, <1>10, <1>11, <1>12, <1>13

\* The answer a call waits for: it is told what it picked, aims, judges or goes on.
LEMMA AnsweredKeeps ==
    ASSUME PageInv, NEW m, m = Head(toServer), OnMessage, m.kind = "reply",
           web[m.by].pc = "wait", Task(m.by) = m.task,
           web' = [web EXCEPT ![m.by] = Answered(m.by, m)]
    PROVE  PageInv'
<1>a. PICK c : c = m.by
  OBVIOUS
<1> USE DEF PageInv
<1>1. UNCHANGED <<page, fields, targets, toPage>>
  BY DEF OnMessage
<1>2a. toServer' = Tail(toServer) /\ toServer # <<>>
  BY DEF OnMessage
<1>2. IsSeq(toServer') /\ Range(toServer') \subseteq Range(toServer)
  BY <1>2a, TakenOff DEF PageTypes
<1>3a. m \in Range(toServer)
  BY <1>2a, TakenOff DEF PageTypes
<1>3. m \in Replies /\ m \in Pending
  BY <1>3a DEF Replies, Pending
<1>4. c \in Agents
  BY <1>a, <1>3 DEF SentBefore
<1>5. \A t \in Range(toPage) : t.by = c => t.task # "collect"
  BY <1>a, <1>3, NoneLeft
<1>6. WebCall(web[c]) /\ Underway(web[c])
  BY <1>a, <1>4 DEF PageTypes, Underway
<1>7. Awaited(m) /\ web[c].job \in ToolJobs /\ web[c].step \in 1..Len(Tasks(web[c].job))
  BY <1>a, <1>6 DEF WebCall, Awaited, Underway
<1>8. /\ m.task = "collect" =>
           /\ m.value.kind # "verified"
           /\ m.value.kind = "ok" /\ web[c].alone => At(m.slot, m.value.cand)
      /\ m.task \in {"prepare", "focus"} =>
           /\ m.value.before \in Seq(Agents)
           /\ web[c].alone => m.value.elem \in {None, web[c].picked}
      /\ m.task = "read" /\ m.value.elem # None =>
           /\ m.value.elem \in Elems
           /\ Range(m.value.value) \subseteq Range(fields[m.value.elem])
           /\ web[c].alone => m.value.elem = web[c].picked
  BY <1>a, <1>3, <1>7 DEF Located
<1>9. /\ StepOf(m.task) \in {0, web[c].step}
      /\ m.task \in {"collect", "prepare", "focus", "read"} =>
           StepOf(m.task) = web[c].step /\ Finds(web[c].job)
  BY <1>a, <1>4, <1>7, TaskPlace
<1>10. web[c].alone /\ web[c].step >= 2 /\ Finds(web[c].job) => At(web[c].slot, web[c].picked)
  BY <1>4, <1>6 DEF Located
<1>11. Len(Tasks(web[c].job)) \in 2..5 /\ (Finds(web[c].job) => Len(Tasks(web[c].job)) \in 4..5)
  BY <1>7 DEF ToolJobs, Tasks, Finds
<1>12. web[c].alone => web[c].aimed \in {None, web[c].picked}
  BY <1>4 DEF OnPicked
<1>12b. PICK next : next = Answered(c, m)
  OBVIOUS
<1>13. web' = [web EXCEPT ![c] = next]
  BY <1>a, <1>12b
<1>13b. web[c].before \in Seq(Agents) /\ DOMAIN web[c] = WebFields
  BY <1>6 DEF WebCall
<1>13c. web[c].pc # "idle"
  BY <1>4, <1>6 DEF Underway
<1> HIDE DEF PageInv
<1>14. CASE m.task = "collect" /\ m.value.kind = "ok"
  <2> DEFINE told == [web[c] EXCEPT !.picked = m.value.cand, !.slot = m.slot]
  <2>1. web[c].step = 1 /\ Finds(web[c].job)
    BY <1>9, <1>14 DEF StepOf
  <2>2. next = Advance(told)
    BY <1>4, <1>12b, <1>14 DEF Answered
  <2>3. /\ DOMAIN told = WebFields /\ told.step = 1 /\ told.job = web[c].job
        /\ told.alone = web[c].alone /\ told.before = web[c].before /\ told.aimed = web[c].aimed
        /\ told.report = web[c].report /\ told.picked = m.value.cand /\ told.slot = m.slot
    BY <1>6, <2>1 DEF WebCall, WebFields
  <2> HIDE DEF told
  <2>4. next = [told EXCEPT !.step = 2, !.pc = "ready"]
    BY <1>11, <2>1, <2>2, <2>3 DEF Advance
  <2>5. /\ DOMAIN next = WebFields /\ next.step = 2 /\ next.pc = "ready" /\ next.job = web[c].job
        /\ next.alone = web[c].alone /\ next.before = web[c].before /\ next.aimed = web[c].aimed
        /\ next.report = web[c].report /\ next.picked = m.value.cand /\ next.slot = m.slot
    BY <2>3, <2>4 DEF WebFields
  <2>6. web[c].aimed = None /\ web[c].report # "verified"
    BY <1>6, <2>1 DEF WebCall
  <2>6a. PICK n \in 4..5 : n = Len(Tasks(web[c].job))
    BY <1>11, <2>1
  <2>6b. 2 \in 1..n
    OBVIOUS
  <2>6c. web[c].job \in ToolJobs /\ web[c].alone \in BOOLEAN
    BY <1>6, <1>7 DEF WebCall
  <2>7. WebCall(next)
    BY <1>13b, <2>1, <2>5, <2>6a, <2>6b, <2>6c DEF WebCall, Underway, Answering
  <2>7a. next.step = web[c].step + 1 /\ (next.alone => next.aimed \in {None, next.picked})
    BY <2>1, <2>5, <2>6
  <2>8. next.alone => At(next.slot, next.picked)
    BY <1>8, <1>14, <2>5
  <2>8a. next.pc = "ready" /\ next.job = web[c].job /\ next.alone = web[c].alone /\ next.report = web[c].report
    BY <2>5
  <2> QED BY <1>1, <1>2, <1>4, <1>5, <1>6, <1>13, <2>6, <2>7, <2>7a, <2>8, <2>8a, OneCallAdvances
<1>15. CASE m.task = "collect" /\ m.value.kind # "ok"
  <2>1. next = Ended(web[c], m.value.kind)
    BY <1>4, <1>12b, <1>15 DEF Answered
  <2>2. /\ m.value.kind # "verified"
        /\ web[c].job = "tap" /\ web[c].step = 5 => m.value.kind \in {"done", "delivered"}
    BY <1>8, <1>9, <1>15 DEF StepOf
  <2>3. PICK said : said = m.value.kind /\ web' = [web EXCEPT ![c] = Ended(web[c], said)]
    BY <1>4, <1>13, <2>1
  <2>4. web[c].job = "tap" /\ web[c].step = 5 => said \in {"done", "delivered"}
    BY <2>2, <2>3
  <2>5. said = "verified" => /\ web[c].step >= 2 /\ Finds(web[c].job)
                             /\ web[c].alone => /\ web[c].picked \in Elems
                                                /\ c \in Range(fields[web[c].picked])
    BY <2>2, <2>3
  <2>6. web' = [web EXCEPT ![c] = Ended(web[c], said)]
    BY <2>3
  <2> QED BY <1>1, <1>2, <1>4, <1>13c, <2>4, <2>5, <2>6, OneCallEnds
<1>16. CASE m.task \in {"prepare", "focus"} /\ m.value.elem # None
  <2> DEFINE told == [web[c] EXCEPT !.aimed = m.value.elem, !.before = m.value.before]
  <2>1. web[c].step = 2 /\ Finds(web[c].job)
    BY <1>9, <1>16 DEF StepOf
  <2>2. next = Advance(told)
    BY <1>4, <1>12b, <1>16 DEF Answered
  <2>3. /\ DOMAIN told = WebFields /\ told.step = 2 /\ told.job = web[c].job
        /\ told.alone = web[c].alone /\ told.before = m.value.before /\ told.aimed = m.value.elem
        /\ told.report = web[c].report /\ told.picked = web[c].picked /\ told.slot = web[c].slot
    BY <1>6, <2>1 DEF WebCall, WebFields
  <2> HIDE DEF told
  <2>4. next = [told EXCEPT !.step = 3, !.pc = "ready"]
    BY <1>11, <2>1, <2>2, <2>3 DEF Advance
  <2>5. /\ DOMAIN next = WebFields /\ next.step = 3 /\ next.pc = "ready" /\ next.job = web[c].job
        /\ next.alone = web[c].alone /\ next.before = m.value.before /\ next.aimed = m.value.elem
        /\ next.report = web[c].report /\ next.picked = web[c].picked /\ next.slot = web[c].slot
    BY <2>3, <2>4 DEF WebFields
  <2>5c. PICK n \in 4..5 : n = Len(Tasks(web[c].job))
    BY <1>11, <2>1
  <2>5d. 3 \in 1..n
    OBVIOUS
  <2>5a. 3 \in 1..Len(Tasks(web[c].job))
    BY <2>5c, <2>5d
  <2>5e. web[c].job \in ToolJobs /\ web[c].alone \in BOOLEAN
    BY <1>6, <1>7 DEF WebCall
  <2>5b. m.value.before \in Seq(Agents)
    BY <1>8, <1>16
  <2>6. WebCall(next)
    BY <2>1, <2>5, <2>5a, <2>5b, <2>5e DEF WebCall, Underway, Answering
  <2>7. next.alone => next.aimed \in {None, next.picked} /\ At(next.slot, next.picked)
    BY <1>8, <1>10, <1>16, <2>1, <2>5
  <2>8. /\ next.pc = "ready" /\ next.job = web[c].job /\ next.alone = web[c].alone
        /\ next.report = web[c].report /\ next.step = web[c].step + 1 /\ next.picked = web[c].picked
    BY <2>1, <2>5
  <2> QED BY <1>1, <1>2, <1>4, <1>5, <1>6, <1>13, <2>6, <2>7, <2>8, OneCallAdvances
<1>17. CASE m.task \in {"prepare", "focus"} /\ m.value.elem = None
  <2>1. next = Ended(web[c], "gone")
    BY <1>4, <1>12b, <1>17 DEF Answered
  <2>2. web[c].job = "tap" /\ web[c].step = 5 => "gone" \in {"done", "delivered"}
    BY <1>9, <1>17 DEF StepOf
  <2>3. web' = [web EXCEPT ![c] = Ended(web[c], "gone")]
    BY <1>4, <1>13, <2>1
  <2> QED BY <1>1, <1>2, <1>4, <1>13c, <2>2, <2>3, OneCallEnds
<1>18. CASE m.task = "read"
  <2> DEFINE report == JudgeTextEntry(c, m.value)
  <2>1. next = Ended(web[c], report)
    BY <1>4, <1>12b, <1>18 DEF Answered
  <2>2. web[c].step = 4 /\ Finds(web[c].job)
    BY <1>9, <1>18 DEF StepOf
  <2> HIDE DEF report
  <2>3. ASSUME report = "verified", web[c].alone
        PROVE  web[c].picked \in Elems /\ c \in Range(fields[web[c].picked])
    <3>1. m.value.elem # None /\ m.value.value = Append(web[c].before, c)
      BY <1>4, <2>3 DEF JudgeTextEntry, report
    <3>2. IsSeq(web[c].before)
      BY <1>13b, SeqOfItsRange
    <3>3a. Range(Append(web[c].before, c)) = Range(web[c].before) \cup {c}
      BY <3>2, Appended
    <3>3. c \in Range(m.value.value)
      BY <3>1, <3>3a
    <3>4. /\ m.value.elem \in Elems /\ m.value.elem = web[c].picked
          /\ Range(m.value.value) \subseteq Range(fields[m.value.elem])
      BY <1>8, <1>18, <2>3, <3>1
    <3> QED BY <3>3, <3>4
  <2>4. web' = [web EXCEPT ![c] = Ended(web[c], report)]
    BY <1>4, <1>13, <2>1
  <2>5. /\ web[c].step >= 2 /\ Finds(web[c].job)
        /\ web[c].job = "tap" /\ web[c].step = 5 => report \in {"done", "delivered"}
    BY <2>2
  <2> QED BY <1>1, <1>2, <1>4, <1>13c, <2>3, <2>4, <2>5, OneCallEnds
<1>19. CASE m.task \notin {"collect", "prepare", "focus", "read"}
  <2>1. next = Advance(web[c])
    BY <1>4, <1>12b, <1>19 DEF Answered
  <2>2. CASE web[c].step = Len(Tasks(web[c].job))
    <3>1. next = Ended(web[c], "done")
      BY <2>1, <2>2 DEF Advance
    <3>2. web' = [web EXCEPT ![c] = Ended(web[c], "done")]
      BY <1>4, <1>13, <3>1
    <3> QED BY <1>1, <1>2, <1>4, <1>13c, <3>2, OneCallEnds
  <2>3. CASE web[c].step # Len(Tasks(web[c].job))
    <3>1. next = [web[c] EXCEPT !.step = web[c].step + 1, !.pc = "ready"]
      BY <2>1, <2>3 DEF Advance
    <3>2. /\ DOMAIN next = WebFields /\ next.step = web[c].step + 1 /\ next.pc = "ready"
          /\ next.job = web[c].job /\ next.slot = web[c].slot
          /\ next.alone = web[c].alone /\ next.before = web[c].before /\ next.aimed = web[c].aimed
          /\ next.report = web[c].report /\ next.picked = web[c].picked
      BY <1>6, <3>1 DEF WebCall, WebFields
    <3>3a. Finds(web[c].job) => web[c].step # 1
      BY <1>a, <1>4, <1>7, <1>19, FirstFinds
    <3>3b. Len(Tasks(web[c].job)) \in 2..5 /\ web[c].step \in 1..Len(Tasks(web[c].job))
      BY <1>7, <1>11
    <3> DEFINE n == Len(Tasks(web[c].job))
    <3> HIDE DEF n
    <3>3c. n \in 2..5 /\ web[c].step \in 1..n /\ web[c].step # n
      BY <3>3b, <2>3 DEF n
    <3>3. Finds(web[c].job) => web[c].step >= 2
      BY <3>3a, <3>3c
    <3>4a. web[c].step + 1 \in 1..n /\ web[c].step + 1 \in 0..5
      BY <3>3c
    <3>4. web[c].step + 1 \in 1..Len(Tasks(web[c].job)) /\ web[c].step + 1 \in 0..5
      BY <3>4a DEF n
    <3>5. web[c].step <= 1 \/ ~Finds(web[c].job) =>
            web[c].picked = None /\ web[c].aimed = None /\ web[c].report # "verified"
      BY <1>6 DEF WebCall
    <3>6. WebCall(next)
      BY <1>6, <1>7, <3>2, <3>3, <3>4, <3>5 DEF WebCall, Underway, Answering
    <3> QED BY <1>1, <1>2, <1>4, <1>5, <1>6, <1>10, <1>12, <1>13, <3>2, <3>3, <3>6, OneCallAdvances
  <2> QED BY <2>2, <2>3
<1> QED BY <1>14, <1>15, <1>16, <1>17, <1>18, <1>19

-----------------------------------------------------------------------------
\* What a task is answered, as far as the invariant speaks of it.
LEMMA PickedIsThere ==
    ASSUME NEW c, PickDomTarget(c).kind = "ok"
    PROVE  /\ PlaceOf(c, PickDomTarget(c).cand) \in DOMAIN BuildDomCollectJs(c)
           /\ BuildDomCollectJs(c)[PlaceOf(c, PickDomTarget(c).cand)] = PickDomTarget(c).cand
<1> DEFINE cands == BuildDomCollectJs(c)
           Tier(q) == {i \in DOMAIN cands : Rank[c][cands[i]] \in q}
           pool  == IF Tier({"exact"}) # {} THEN Tier({"exact"})
                    ELSE IF Tier({"exact", "folded"}) # {} THEN Tier({"exact", "folded"})
                    ELSE DOMAIN cands
           named == {i \in pool : web[c].index = 0
                                   \/ Cardinality({j \in pool : j <= i}) = web[c].index}
<1>1. PickDomTarget(c) =
        IF named = {} THEN [kind |-> "none"]
        ELSE IF Cardinality(named) # 1 THEN [kind |-> "ambiguous"]
        ELSE [kind |-> "ok", cand |-> cands[CHOOSE i \in named : TRUE]]
  BY DEF PickDomTarget
<1>2. named \subseteq DOMAIN cands
  <2>1. \A q : Tier(q) \subseteq DOMAIN cands
    OBVIOUS
  <2> HIDE DEF Tier, cands
  <2>2. pool \subseteq DOMAIN cands
    BY <2>1
  <2> HIDE DEF pool
  <2> QED BY <2>2
<1> HIDE DEF named, cands
<1>3. named # {} /\ PickDomTarget(c).cand = cands[CHOOSE i \in named : TRUE]
  BY <1>1
<1>4. \E i \in DOMAIN cands : cands[i] = PickDomTarget(c).cand
  BY <1>2, <1>3
<1> QED BY <1>4 DEF PlaceOf, cands

LEMMA KindsOfPick ==
    ASSUME NEW c
    PROVE  PickDomTarget(c).kind \in {"none", "ambiguous", "ok"}
BY DEF PickDomTarget

LEMMA ReplyOf ==
    ASSUME NEW t
    PROVE  /\ Reply(t).kind = "reply" /\ Reply(t).by = t.by /\ Reply(t).task = t.task
           /\ Reply(t).value = Value(t.by, t)
           /\ t.task = "collect" /\ PickDomTarget(t.by).kind = "ok" =>
                 Reply(t).slot = PlaceOf(t.by, PickDomTarget(t.by).cand)
BY DEF Reply

\* What is at the place that a task of an undisturbed call asks for.
LEMMA TargetIsPicked ==
    ASSUME PageInv, NEW t \in Range(toPage), Awaited(t), t.task \in {"prepare", "focus", "read"}
    PROVE  /\ Target(t.slot) = None \/ Target(t.slot) \in Elems
           /\ web[t.by].alone => Target(t.slot) \in {None, web[t.by].picked}
<1> USE DEF PageInv
<1>1. t.by \in Agents
  BY DEF SentBefore, Pending
<1>2. WebCall(web[t.by]) /\ Underway(web[t.by])
  BY <1>1 DEF PageTypes, Awaited, Underway
<1>3. web[t.by].job \in ToolJobs /\ web[t.by].step \in 1..Len(Tasks(web[t.by].job))
  BY <1>2 DEF WebCall
<1>4. StepOf(t.task) = web[t.by].step /\ Finds(web[t.by].job)
  BY <1>1, <1>3, TaskPlace DEF Awaited
<1>5. StepOf(t.task) >= 2 /\ web[t.by].step >= 2
  BY <1>4 DEF StepOf
<1>6. t.slot = web[t.by].slot
  BY <1>5 DEF Located
<1>7. web[t.by].alone => At(t.slot, web[t.by].picked)
  BY <1>1, <1>2, <1>4, <1>5, <1>6 DEF Located
<1>8. Target(t.slot) = None \/ (Target(t.slot) \in page.mounted /\ Target(t.slot) = targets[t.slot])
  BY DEF Target
<1> QED BY <1>7, <1>8 DEF At, PageTypes

LEMMA RightAnswer ==
    ASSUME PageInv, NEW t \in Range(toPage), Awaited(t)
    PROVE  /\ t.task = "collect" =>
                /\ Value(t.by, t).kind # "verified"
                /\ Value(t.by, t).kind = "ok" =>
                     /\ Reply(t).slot \in DOMAIN BuildDomCollectJs(t.by)
                     /\ BuildDomCollectJs(t.by)[Reply(t).slot] = Value(t.by, t).cand
           /\ t.task \in {"prepare", "focus"} =>
                /\ Value(t.by, t).before \in Seq(Agents)
                /\ web[t.by].alone => Value(t.by, t).elem \in {None, web[t.by].picked}
           /\ t.task = "read" /\ Value(t.by, t).elem # None =>
                /\ Value(t.by, t).elem \in Elems
                /\ Value(t.by, t).value = fields[Value(t.by, t).elem]
                /\ web[t.by].alone => Value(t.by, t).elem = web[t.by].picked
<1>1. CASE t.task = "collect"
  <2>1. Value(t.by, t) = PickDomTarget(t.by)
    BY <1>1 DEF Value
  <2> QED BY <1>1, <2>1, KindsOfPick, PickedIsThere, ReplyOf
<1>2. CASE t.task \in {"prepare", "focus"}
  <2>1. Value(t.by, t) = [elem |-> Target(t.slot),
                 before |-> IF Target(t.slot) = None THEN <<>> ELSE fields[Target(t.slot)]]
    BY <1>2 DEF Value
  <2>2. /\ Target(t.slot) = None \/ Target(t.slot) \in Elems
        /\ web[t.by].alone => Target(t.slot) \in {None, web[t.by].picked}
    BY <1>2, TargetIsPicked
  <2>3. fields \in [Elems -> Seq(Agents)]
    BY DEF PageInv, PageTypes
  <2>4. Value(t.by, t).before \in Seq(Agents)
    <3>1. CASE Target(t.slot) = None
      BY <2>1, <3>1
    <3>2. CASE Target(t.slot) # None
      BY <2>1, <2>2, <2>3, <3>2
    <3> QED BY <3>1, <3>2
  <2>5. Value(t.by, t).elem = Target(t.slot)
    BY <2>1
  <2> QED BY <1>2, <2>2, <2>4, <2>5
<1>3. CASE t.task = "read"
  <2>1. Value(t.by, t) = [elem |-> Target(t.slot),
                 value |-> IF Target(t.slot) = None THEN <<>> ELSE fields[Target(t.slot)]]
    BY <1>3 DEF Value
  <2>2. /\ Target(t.slot) = None \/ Target(t.slot) \in Elems
        /\ web[t.by].alone => Target(t.slot) \in {None, web[t.by].picked}
    BY <1>3, TargetIsPicked
  <2> QED BY <1>3, <2>1, <2>2
<1> QED BY <1>1, <1>2, <1>3

\* The page runs the task at its front: what it is told, what its fields hold, ...
LEMMA RunAnswers ==
    ASSUME PageInv, Runs
    PROVE  /\ toPage # <<>> /\ toPage' = Tail(toPage)
           /\ IsSeq(toServer') /\ IsSeq(page'.held)
           /\ DOMAIN page' = {"mounted", "focus", "dialog", "opened", "held"}
           /\ page'.mounted = page.mounted
           /\ Replies' \subseteq Replies \cup {Reply(Head(toPage))}
           /\ \A m \in Range(toServer') : m.kind \in {"handled", "noDialog"} => m \in Range(toServer)
<1> USE DEF PageInv
<1>0. PICK t, r : t = Head(toPage) /\ r = Reply(t)
  OBVIOUS
<1>1. /\ r = Reply(t) /\ t = Head(toPage)
      /\ \/ /\ page' = [page EXCEPT !.dialog = page.opened + 1, !.opened = page.opened + 1,
                                     !.held = <<r>>]
            /\ toServer' = Append(toServer, Opening(page.opened + 1))
         \/ /\ page' = [page EXCEPT !.focus = Target(t.slot)] \/ page' = page
            /\ toServer' = Append(toServer, r)
  <2>1. PICK opens \in BOOLEAN :
          /\ page' = IF opens THEN [page EXCEPT !.dialog = page.opened + 1, !.opened = page.opened + 1,
                                                !.held = <<r>>]
                     ELSE IF t.task = "focus" /\ Target(t.slot) # None
                     THEN [page EXCEPT !.focus = Target(t.slot)] ELSE page
          /\ toServer' = Append(toServer, IF opens THEN Opening(page.opened + 1) ELSE r)
    BY <1>0 DEF Runs
  <2> QED BY <1>0, <2>1
<1>2. r.kind = "reply"
  BY <1>1, ReplyOf
<1>3. DOMAIN page = {"mounted", "focus", "dialog", "opened", "held"} /\ IsSeq(page.held)
  BY DEF PageTypes
<1>4. IsSeq(<<r>>) /\ Range(<<r>>) = {r}
  BY DEF IsSeq, Range
<1>5. /\ DOMAIN page' = {"mounted", "focus", "dialog", "opened", "held"}
      /\ page'.mounted = page.mounted /\ page'.held \in {<<r>>, page.held}
  <2>1. CASE page' = [page EXCEPT !.dialog = page.opened + 1, !.opened = page.opened + 1,
                                  !.held = <<r>>]
    BY <1>3, <2>1
  <2>2. CASE page' = [page EXCEPT !.focus = Target(t.slot)]
    BY <1>3, <2>2
  <2>3. CASE page' = page
    BY <1>3, <2>3
  <2> QED BY <1>1, <2>1, <2>2, <2>3
<1>6. IsSeq(page'.held) /\ Range(page'.held) \subseteq Range(page.held) \cup {r}
  BY <1>3, <1>4, <1>5
<1>7. PICK x : /\ toServer' = Append(toServer, x)
               /\ x = r \/ (x.kind = "opened" /\ x = Opening(page.opened + 1))
  <2>1. Opening(page.opened + 1).kind = "opened"
    BY DEF Opening
  <2> QED BY <1>1, <2>1
<1>8. IsSeq(toServer') /\ Range(toServer') = Range(toServer) \cup {x}
  BY <1>7, Appended DEF PageTypes
<1>9. Replies' \subseteq Replies \cup {r}
  BY <1>6, <1>7, <1>8 DEF Replies
<1>10. \A m \in Range(toServer') : m.kind \in {"handled", "noDialog"} => m \in Range(toServer)
  BY <1>2, <1>7, <1>8
<1>11. toPage # <<>> /\ toPage' = Tail(toPage)
  BY DEF Runs
<1> QED BY <1>1, <1>5, <1>6, <1>8, <1>9, <1>10, <1>11

LEMMA RunTypes ==
    ASSUME PageInv, Runs
    PROVE  /\ fields' \in [Elems -> Seq(Agents)]
           /\ \A e \in Elems : Range(fields[e]) \subseteq Range(fields'[e])
<1> USE DEF PageInv
<1>1. PICK t : /\ t = Head(toPage) /\ toPage # <<>>
               /\ fields' = IF t.task = "insert" /\ page.focus # None
                            THEN [fields EXCEPT ![page.focus] = Append(fields[page.focus], t.by)] ELSE fields
  BY DEF Runs, PageTypes
<1>2. t \in Range(toPage)
  BY <1>1, TakenOff DEF PageTypes
<1>3. t.by \in Agents
  BY <1>2 DEF SentBefore, Pending
<1>4. fields \in [Elems -> Seq(Agents)]
  BY DEF PageTypes
<1>5. CASE fields' = fields
  BY <1>4, <1>5
<1>6. CASE fields' # fields /\ page.focus \in Elems
  <2>0. PICK f \in Elems : fields' = [fields EXCEPT ![f] = Append(fields[f], t.by)]
    BY <1>1, <1>6
  <2>1. PICK s : s = Append(fields[f], t.by) /\ fields' = [fields EXCEPT ![f] = s]
    BY <2>0
  <2>2. fields[f] \in Seq(Agents)
    BY <1>4
  <2>3. s \in Seq(Agents)
    BY <1>3, <2>1, <2>2
  <2>4. Range(s) = Range(fields[f]) \cup {t.by}
    BY <2>1, <2>2, SeqOfItsRange, Appended
  <2>5. fields' \in [Elems -> Seq(Agents)]
    BY <1>4, <2>1, <2>3
  <2>6. ASSUME NEW e \in Elems
        PROVE  Range(fields[e]) \subseteq Range(fields'[e])
    <3>1. fields'[e] = IF e = f THEN s ELSE fields[e]
      BY <1>4, <2>1
    <3> QED BY <2>4, <3>1
  <2> QED BY <2>5, <2>6
<1>7. CASE fields' # fields /\ page.focus \notin Elems
  <2>1. fields' = fields
    BY <1>1, <1>4, <1>7
  <2> QED BY <1>7, <2>1
<1> QED BY <1>5, <1>6, <1>7

\* ... and that a collection disturbs every other call.
LEMMA RunsKeep ==
    ASSUME PageInv, Runs
    PROVE  PageInv'
<1>1. PICK t, r : t = Head(toPage) /\ r = Reply(t)
  OBVIOUS
<1>2. /\ toPage # <<>> /\ toPage' = Tail(toPage)
      /\ IsSeq(toServer') /\ IsSeq(page'.held)
      /\ DOMAIN page' = {"mounted", "focus", "dialog", "opened", "held"}
      /\ page'.mounted = page.mounted
      /\ Replies' \subseteq Replies \cup {r}
      /\ \A m \in Range(toServer') : m.kind \in {"handled", "noDialog"} => m \in Range(toServer)
  BY <1>1, RunAnswers
<1>3. /\ fields' \in [Elems -> Seq(Agents)]
      /\ \A e \in Elems : Range(fields[e]) \subseteq Range(fields'[e])
  BY RunTypes
<1> USE DEF PageInv
<1>4. /\ IsSeq(toPage') /\ Range(toPage') \subseteq Range(toPage)
      /\ t \in Range(toPage) /\ t = toPage[1] /\ 1 \in DOMAIN toPage
      /\ \A i \in DOMAIN toPage' : i + 1 \in DOMAIN toPage /\ toPage'[i] = toPage[i + 1] /\ i + 1 # 1
  BY <1>1, <1>2, TakenOff DEF PageTypes
<1>5. t.by \in Agents /\ t \in Pending
  BY <1>4 DEF SentBefore, Pending
<1>6. web' = [c \in Agents |-> IF t.task = "collect" THEN [web[c] EXCEPT !.alone = c = t.by] ELSE web[c]]
  BY <1>1 DEF Runs, Watched
<1>7. targets' = IF t.task = "collect" THEN BuildDomCollectJs(t.by) ELSE targets
  BY <1>1 DEF Runs
<1>8. /\ r.kind = "reply" /\ r.by = t.by /\ r.task = t.task /\ r.value = Value(t.by, t)
  BY <1>1, ReplyOf
<1>9. \A c \in Agents : WebCall(web[c])
  BY DEF PageTypes
<1>10. ASSUME NEW c \in Agents
       PROVE  /\ web'[c].job = web[c].job /\ web'[c].step = web[c].step /\ web'[c].pc = web[c].pc
              /\ web'[c].slot = web[c].slot /\ web'[c].picked = web[c].picked
              /\ web'[c].aimed = web[c].aimed /\ web'[c].report = web[c].report
              /\ web'[c].before = web[c].before /\ DOMAIN web'[c] = WebFields
              /\ web'[c].alone = IF t.task = "collect" THEN c = t.by ELSE web[c].alone
              /\ web'[c].alone \in BOOLEAN
  <2>1. DOMAIN web[c] = WebFields /\ web[c].alone \in BOOLEAN
    BY <1>9 DEF WebCall
  <2>2. CASE t.task = "collect"
    <3>1. web'[c] = [web[c] EXCEPT !.alone = (c = t.by)]
      BY <1>6, <2>2
    <3> QED BY <2>1, <2>2, <3>1 DEF WebFields
  <2>3. CASE t.task # "collect"
    BY <1>6, <2>1, <2>3
  <2> QED BY <2>2, <2>3
<1> HIDE DEF PageInv
<1>11. ASSUME NEW c \in Agents
       PROVE  WebCall(web'[c])
  BY <1>9, <1>10 DEF WebCall, Underway, Answering
<1>12. PageTypes'
  BY <1>2, <1>3, <1>4, <1>6, <1>11 DEF PageTypes, Elems, PageInv
<1>13. t.task = "collect" =>
          /\ web[t.by].step = 1 /\ Finds(web[t.by].job)
          /\ \A m \in Replies : m.by = t.by => m.task # "collect"
  BY <1>4, <1>5 DEF CollectsOnce, SentBefore, PageInv
<1>14. ASSUME NEW p, p \in Pending \/ p = r
       PROVE  /\ p.by \in Agents /\ web[p.by].pc \in {"ready", "wait", "end"} /\ web[p.by].job # "answer"
              /\ StepOf(p.task) <= web[p.by].step
              /\ web[p.by].pc = "ready" => StepOf(p.task) < web[p.by].step
              /\ p.task = "collect" => Finds(web[p.by].job)
  <2>1. \E q \in Pending : q.by = p.by /\ q.task = p.task
    BY <1>5, <1>8, <1>14
  <2> QED BY <2>1 DEF SentBefore, PageInv
<1>15. SentBefore'
  <2>1. Pending' \subseteq Pending \cup {r}
    BY <1>2, <1>4 DEF Pending
  <2>2. \A m \in Replies' : m.kind = "reply"
    BY <1>2, <1>8 DEF SentBefore, PageInv
  <2>3. \A m \in Range(toServer') : m.kind \in {"handled", "noDialog"} =>
           m.by \in Agents /\ web'[m.by].job = "answer"
    BY <1>2, <1>10 DEF SentBefore, PageInv
  <2>4. ASSUME NEW p \in Pending'
        PROVE  /\ p.by \in Agents /\ web'[p.by].pc \in {"ready", "wait", "end"}
               /\ web'[p.by].job # "answer" /\ StepOf(p.task) <= web'[p.by].step
               /\ web'[p.by].pc = "ready" => StepOf(p.task) < web'[p.by].step
               /\ p.task = "collect" => Finds(web'[p.by].job)
    BY <1>10, <1>14, <2>1
  <2> QED BY <2>2, <2>3, <2>4 DEF SentBefore
<1>16. CollectsOnce'
  <2>1. ASSUME NEW i \in DOMAIN toPage', toPage'[i].task = "collect"
        PROVE  /\ toPage'[i].by \in Agents /\ web[toPage'[i].by].step = 1
               /\ t.task = "collect" => toPage'[i].by # t.by
               /\ \A m \in Replies : m.by = toPage'[i].by => m.task # "collect"
    <3>1. i + 1 \in DOMAIN toPage /\ toPage'[i] = toPage[i + 1] /\ i + 1 # 1
      BY <1>4
    <3>2. toPage[i + 1] \in Range(toPage)
      BY <3>1 DEF Range
    <3>3. t.task = "collect" => toPage'[i].by # t.by
      BY <1>4, <2>1, <3>1 DEF CollectsOnce, PageInv
    <3> QED BY <2>1, <3>1, <3>2, <3>3 DEF CollectsOnce, SentBefore, Pending, PageInv
  <2>2. ASSUME NEW x \in Range(toPage'), x.task = "collect"
        PROVE  web'[x.by].step = 1 /\ \A m \in Replies' : m.by = x.by => m.task # "collect"
    <3>1. PICK i \in DOMAIN toPage' : x = toPage'[i]
      BY DEF Range
    <3> QED BY <1>2, <1>8, <1>10, <2>1, <2>2, <3>1
  <2>3. ASSUME NEW i \in DOMAIN toPage', NEW j \in DOMAIN toPage',
               toPage'[i].task = "collect", toPage'[j].task = "collect", toPage'[i].by = toPage'[j].by
        PROVE  i = j
    <3>1. i + 1 = j + 1
      BY <1>4, <2>3 DEF CollectsOnce, PageInv
    <3>2. i \in Nat /\ j \in Nat
      BY <1>4 DEF IsSeq
    <3> QED BY <3>1, <3>2
  <2> QED BY <2>2, <2>3 DEF CollectsOnce
<1>17. ASSUME NEW p, p.by \in Agents, Awaited(p)'
       PROVE  Awaited(p)
  BY <1>10, <1>17 DEF Awaited, Task
<1>18. Located'
  <2>1. ASSUME NEW c \in Agents, web'[c].alone, Underway(web'[c]), web'[c].step >= 2, Finds(web'[c].job)
        PROVE  At(web[c].slot, web[c].picked)'
    <3>1. t.task # "collect"
      BY <1>5, <1>10, <1>13, <2>1
    <3> QED BY <1>7, <1>10, <2>1, <3>1 DEF Located, At, Underway, PageInv
  <2>2. ASSUME NEW x \in Range(toPage'), StepOf(x.task) >= 2, Awaited(x)'
        PROVE  x.slot = web'[x.by].slot
    <3>1. x \in Range(toPage) /\ x.by \in Agents
      BY <1>4, <1>14 DEF Pending
    <3>2. Awaited(x)
      BY <1>17, <2>2, <3>1
    <3> QED BY <1>10, <2>2, <3>1, <3>2 DEF Located, PageInv
  <2>3. ASSUME NEW m \in Replies', Awaited(m)'
        PROVE  /\ m.task = "collect" =>
                    /\ m.value.kind # "verified"
                    /\ m.value.kind = "ok" /\ web'[m.by].alone => At(m.slot, m.value.cand)'
               /\ m.task \in {"prepare", "focus"} =>
                    /\ m.value.before \in Seq(Agents)
                    /\ web'[m.by].alone => m.value.elem \in {None, web'[m.by].picked}
               /\ m.task = "read" /\ m.value.elem # None =>
                    /\ m.value.elem \in Elems
                    /\ Range(m.value.value) \subseteq Range(fields'[m.value.elem])
                    /\ web'[m.by].alone => m.value.elem = web'[m.by].picked
    <3>1. m.by \in Agents /\ Awaited(m)
      BY <1>2, <1>14, <1>17, <2>3 DEF Pending
    <3>2. CASE m = r
      <4>1. Awaited(t)
        BY <1>8, <3>1, <3>2 DEF Awaited
      <4>2. /\ t.task = "collect" =>
                 /\ r.value.kind # "verified"
                 /\ r.value.kind = "ok" =>
                      /\ r.slot \in DOMAIN BuildDomCollectJs(t.by)
                      /\ BuildDomCollectJs(t.by)[r.slot] = r.value.cand
            /\ t.task \in {"prepare", "focus"} =>
                 /\ r.value.before \in Seq(Agents)
                 /\ web[t.by].alone => r.value.elem \in {None, web[t.by].picked}
            /\ t.task = "read" /\ r.value.elem # None =>
                 /\ r.value.elem \in Elems
                 /\ r.value.value = fields[r.value.elem]
                 /\ web[t.by].alone => r.value.elem = web[t.by].picked
        BY <1>1, <1>4, <1>8, <4>1, RightAnswer
      <4>3. /\ web'[t.by].picked = web[t.by].picked
            /\ t.task # "collect" => web'[t.by].alone = web[t.by].alone
        BY <1>5, <1>10
      <4>4. t.task = "collect" => targets' = BuildDomCollectJs(t.by)
        BY <1>7
      <4> HIDE DEF BuildDomCollectJs
      <4> QED BY <1>3, <1>8, <3>2, <4>2, <4>3, <4>4 DEF At
    <3>3. CASE m # r
      <4>1. m \in Replies
        BY <1>2, <3>3
      <4>2. /\ m.task = "collect" =>
                 /\ m.value.kind # "verified"
                 /\ m.value.kind = "ok" /\ web[m.by].alone => At(m.slot, m.value.cand)
            /\ m.task \in {"prepare", "focus"} =>
                 /\ m.value.before \in Seq(Agents)
                 /\ web[m.by].alone => m.value.elem \in {None, web[m.by].picked}
            /\ m.task = "read" /\ m.value.elem # None =>
                 /\ m.value.elem \in Elems
                 /\ Range(m.value.value) \subseteq Range(fields[m.value.elem])
                 /\ web[m.by].alone => m.value.elem = web[m.by].picked
        BY <3>1, <4>1 DEF Located, PageInv
      <4>3. web'[m.by].picked = web[m.by].picked
        BY <1>10, <3>1
      <4>4. CASE t.task # "collect"
        <5>1. web'[m.by].alone = web[m.by].alone /\ targets' = targets
          BY <1>7, <1>10, <3>1, <4>4
        <5> QED BY <1>3, <4>2, <4>3, <5>1 DEF At
      <4>5. CASE t.task = "collect"
        <5>1. web[t.by].step = 1 => Task(t.by) = "collect"
          BY <1>5, <1>13, <4>5, FirstFinds
        <5>2. m.by # t.by
          BY <1>13, <3>1, <4>1, <4>5, <5>1 DEF Awaited
        <5>3. web'[m.by].alone = FALSE
          BY <1>10, <3>1, <4>5, <5>2
        <5> QED BY <1>3, <4>2, <5>3
      <4> QED BY <4>4, <4>5
    <3> QED BY <3>2, <3>3
  <2> QED BY <2>1, <2>2, <2>3 DEF Located, Elems
<1>19. OnPicked'
  <2>1. ASSUME NEW c \in Agents, web'[c].alone
        PROVE  /\ web'[c].aimed \in {None, web'[c].picked}
               /\ web'[c].report = "verified" =>
                     web'[c].picked \in Elems /\ c \in Range(fields'[web'[c].picked])
    <3>1. CASE t.task = "collect"
      <4>1. c = t.by /\ web[c].step = 1
        BY <1>10, <1>13, <2>1, <3>1
      <4>2. web[c].aimed = None /\ web[c].report # "verified"
        BY <1>9, <4>1 DEF WebCall
      <4> QED BY <1>10, <4>2
    <3>2. CASE t.task # "collect"
      <4>1. /\ web[c].aimed \in {None, web[c].picked}
            /\ web[c].report = "verified" => web[c].picked \in Elems /\ c \in Range(fields[web[c].picked])
        BY <1>10, <2>1, <3>2 DEF OnPicked, PageInv
      <4> QED BY <1>3, <1>10, <4>1
    <3> QED BY <3>1, <3>2
  <2> QED BY <2>1 DEF OnPicked, Elems
<1>20. AnsweredNotFailed'
  BY <1>10 DEF AnsweredNotFailed, PageInv
<1>21. NothingLandsLate'
  BY <1>4 DEF NothingLandsLate, PageInv
<1> QED BY <1>12, <1>15, <1>16, <1>18, <1>19, <1>20, <1>21 DEF PageInv

\* What is handed to the server is taken in its order, and an answer nobody waits for is dropped.
LEMMA OnMessageKeeps ==
    ASSUME PageInv, OnMessage
    PROVE  PageInv'
<1>1. PICK m : m = Head(toServer) /\
         \/ m.kind = "opened" /\ NoteDialogOpened(m.dialog)
         \/ m.kind = "closed" /\ NoteDialogClosed
         \/ /\ m.kind = "reply"
            /\ web' = IF web[m.by].pc = "wait" /\ Task(m.by) = m.task
                      THEN [web EXCEPT ![m.by] = Answered(m.by, m)] ELSE web
         \/ /\ m.kind = "handled"
            /\ web' = [web EXCEPT ![m.by] = IF known = 0 THEN Ended(@, "answered")
                                            ELSE [@ EXCEPT !.pc = "closing"]]
         \/ /\ m.kind = "noDialog"
            /\ web' = [web EXCEPT ![m.by] = Ended(@, "noDialog")]
  BY DEF OnMessage
<1>2. CASE NoteDialogOpened(m.dialog) \/ NoteDialogClosed
  BY <1>2, DialogNoted
<1>3. CASE m.kind = "reply" /\ web[m.by].pc = "wait" /\ Task(m.by) = m.task
  <2>1. web' = [web EXCEPT ![m.by] = Answered(m.by, m)] \/ NoteDialogOpened(m.dialog) \/ NoteDialogClosed
    BY <1>1, <1>3
  <2> QED BY <1>1, <1>2, <1>3, <2>1, AnsweredKeeps
<1>4. CASE m.kind = "reply" /\ web' = web
  <2>1. UNCHANGED <<page, fields, targets, toPage>>
    BY DEF OnMessage
  <2>2. toServer' = Tail(toServer) /\ toServer # <<>> /\ IsSeq(toServer)
    BY DEF OnMessage, PageInv, PageTypes
  <2>3. IsSeq(toServer') /\ Range(toServer') \subseteq Range(toServer)
    BY <2>2, TakenOff
  <2>4. PageTypes'
    BY <1>4, <2>1, <2>3 DEF PageTypes, PageInv, Elems
  <2>5. Replies' \subseteq Replies
    BY <2>1, <2>3 DEF Replies
  <2>6. \A x \in Range(toServer') : x.kind \in {"handled", "noDialog"} =>
              x.by \in Agents /\ web'[x.by].job = "answer"
    BY <1>4, <2>3 DEF PageInv, SentBefore
  <2> QED BY <1>4, <2>1, <2>4, <2>5, <2>6, QuietStep
<1>5. CASE m.kind \in {"handled", "noDialog"}
  <2>1. \/ web' = [web EXCEPT ![m.by] = IF known = 0 THEN Ended(@, "answered")
                                         ELSE [@ EXCEPT !.pc = "closing"]]
        \/ web' = [web EXCEPT ![m.by] = Ended(@, "noDialog")]
    BY <1>1, <1>5
  <2> QED BY <1>1, <1>5, <2>1, HandledKeeps
<1> QED BY <1>1, <1>2, <1>3, <1>4, <1>5

LEMMA PageStep ==
    ASSUME PageInv, Next
    PROVE  PageInv'
<1>1. CASE Runs
  BY <1>1, RunsKeep
<1>2. CASE TimerOpens \/ PersonCloses \/ Unmounts \/ FocusMoves
  BY <1>2, WorldKeeps
<1>3. CASE OnMessage
  BY <1>3, OnMessageKeeps
<1>4. ASSUME NEW c \in Agents,
             \/ Begin(c) \/ RaceDialog(c) \/ TimesOut(c)
             \/ AnswerDialog(c) \/ HandleJavaScriptDialog(c) \/ CloseWaitEnds(c)
      PROVE  PageInv'
  BY <1>4, BeginKeeps, RaceDialogKeeps, TimesOutKeeps, AnswerDialogKeeps, AnsweringKeeps,
     CloseWaitEndsKeeps
<1> QED BY <1>1, <1>2, <1>3, <1>4 DEF Next

LEMMA PageStill ==
    ASSUME PageInv, UNCHANGED webVars
    PROVE  PageInv'
<1>1. \A p : Awaited(p)' <=> Awaited(p)
  BY DEF webVars, Awaited, Task
<1>2. Replies' = Replies /\ Pending' = Pending
  BY DEF webVars, Replies, Pending
<1>3. SentBefore' /\ CollectsOnce'
  BY <1>2 DEF PageInv, SentBefore, CollectsOnce, webVars
<1>4. Located'
  BY <1>1, <1>2 DEF PageInv, Located, At, Elems, webVars
<1>5. PageTypes' /\ OnPicked' /\ AnsweredNotFailed' /\ NothingLandsLate'
  BY DEF PageInv, PageTypes, OnPicked, Elems, AnsweredNotFailed, NothingLandsLate, webVars
<1> QED BY <1>3, <1>4, <1>5 DEF PageInv

LEMMA PageInitially ==
    ASSUME DevicesInit
    PROVE  PageInv
<1>1. /\ page.held = <<>> /\ page.mounted \subseteq Elems
      /\ DOMAIN page = {"mounted", "focus", "dialog", "opened", "held"}
      /\ fields = [e \in Elems |-> <<>>] /\ toPage = <<>> /\ toServer = <<>>
      /\ web = [c \in Agents |-> Unsaid]
  BY DEF DevicesInit, Init, PageOff, Elems
<1>2. WebCall(Unsaid)
  <2>1. DOMAIN Unsaid = WebFields /\ Unsaid.before = <<>>
    BY DEF Unsaid, WebFields
  <2>2. <<>> \in Seq(Agents)
    OBVIOUS
  <2> QED BY <2>1, <2>2 DEF WebCall, Unsaid, Underway, Answering, None
<1>3. IsSeq(<<>>) /\ Range(<<>>) = {}
  BY DEF IsSeq, Range
<1>4. \A c \in Agents : web[c] = Unsaid
  BY <1>1
<1>5. Replies = {} /\ Pending = {}
  BY <1>1, <1>3 DEF Replies, Pending
<1>6. <<>> \in Seq(Agents)
  OBVIOUS
<1>7. PageTypes
  BY <1>1, <1>2, <1>3, <1>4, <1>6 DEF PageTypes
<1>8. SentBefore /\ CollectsOnce /\ NothingLandsLate
  BY <1>1, <1>3, <1>5 DEF SentBefore, CollectsOnce, NothingLandsLate
<1>9. Located /\ OnPicked /\ AnsweredNotFailed
  BY <1>1, <1>3, <1>4, <1>5 DEF Located, OnPicked, AnsweredNotFailed, Unsaid, Underway, None
<1> QED BY <1>7, <1>8, <1>9 DEF PageInv

\* What the server knows of the elements a page holds is what the page holds, for every call
\* that no other call has disturbed: in what it was told, asks and is answered.
\* (chromium.ts:267-330)
THEOREM PageInvariant == DevicesSpec => []PageInv
<1>1. PageInv /\ [DevicesNext]_allVars => PageInv'
  <2> SUFFICES ASSUME PageInv, [DevicesNext]_allVars
               PROVE  PageInv'
    OBVIOUS
  <2>1. CASE Next
    BY <2>1, PageStep
  <2>2. CASE UNCHANGED webVars
    BY <2>2, PageStill
  <2> QED BY <2>1, <2>2 DEF DevicesNext, allVars
<1> QED BY <1>1, PageInitially, PTL DEF DevicesSpec

\* The element a tap clicks is the one its query picked, and a text reported verified is in
\* that field, whatever the page, the dialogs and the other calls do, unless one of these
\* looked for elements in between.  (chromium.ts:267-330)
THEOREM TapsWhatItPicked == DevicesSpec => []ActsOnThePicked
<1>1. PageInv => ActsOnThePicked
  BY DEF PageInv, OnPicked, ActsOnThePicked
<1> QED BY <1>1, PageInvariant, PTL

\* A click that the page has answered is never reported as failed, and no input is left behind
\* a dialog that the server knew of when it sent it.  (chromiumTap.ts:137-149,
\* chromiumDialogs.ts:82-92)
THEOREM PageInputIsTold == DevicesSpec => []PageInputTold
<1>1. PageInv => PageInputTold
  BY DEF PageInv, PageInputTold
<1> QED BY <1>1, PageInvariant, PTL

(*************************************************************************)
(* The adb driver.                                                       *)
(*************************************************************************)

Mark     == [by : AdbCallers, char : Nat]
AdbCallFields == {"op", "pc", "given", "device", "used", "with", "wrote", "tree", "typed", "outcome", "asked"}
LeftBehind == {"failed", "littered", "aborted"}    \* the outcomes that may leave a file

\* A call: where it is in its commands, and the devices they went to.
Steered(x) ==
    /\ x = [i \in AdbCallFields |-> x[i]] /\ x.typed \in Nat
    /\ x.pc \in {"idle", "device", "send", "cat", "rm", "dumpsys", "named", "end"}
    /\ x.pc = "idle" => x = Adb!Unsent
    /\ x.pc # "end" => x.outcome = "none"
    /\ IF x.pc = "rm" THEN x.tree.by \subseteq AdbCallers ELSE x.tree = Adb!NoFile
    /\ x.pc \in {"cat", "rm"} => x.op \in Adb!Dumps
    /\ x.pc = "dumpsys" => x.op = "status"
    /\ x.pc = "named" => x.op = "serial" /\ x.used = {}
    /\ x.op # "status" =>
          /\ x.pc = "device" => x.used = {} \/ (x.given # "none" /\ x.used = {x.given})
          /\ x.pc \in {"send", "cat", "rm"} => x.device # "none" /\ x.used \subseteq {x.device}
          /\ \E d : x.used \subseteq {d}

AdbTypes ==
    /\ attached \in Seq(Serials)
    /\ file = [p \in Adb!Paths |-> file[p]] /\ field \in [Serials -> Seq(Mark)]
    /\ adbCalls = [c \in AdbCallers |-> adbCalls[c]]
    /\ \A c \in AdbCallers : Steered(adbCalls[c])
    /\ running \subseteq {c \in AdbCallers : adbCalls[c].outcome = "aborted"}

\* Who wrote what lies in a file has still to remove it, or never will; and every call in
\* flight was there when it was written, or began with its writer under way or cut short.
Keeps(b, p) ==
    /\ Adb!PathOf(adbCalls[b]) = p
    /\ adbCalls[b].pc \in {"cat", "rm"} \/ adbCalls[b].outcome \in LeftBehind
Earlier(c, b) == b \in adbCalls[c].with \/ adbCalls[b].outcome \in LeftBehind
WrittenBy(b, p) ==
    /\ file[p].by = {b} /\ Keeps(b, p)
    /\ \A c \in Adb!InFlight : c \in file[p].during \/ Earlier(c, b)
FilesOK == \A p \in Adb!Paths : file[p] = Adb!NoFile \/ \E b \in AdbCallers : WrittenBy(b, p)

\* A call that has written its file finds that one, one written since, or none.
FindsOwn(c) ==
    LET found == file[Adb!PathOf(adbCalls[c])]
    IN found = Adb!NoFile \/ c \in found.by \cup found.after
WroteOK == \A c \in AdbCallers :
    adbCalls[c].pc = "cat" =>
        /\ Adb!PathOf(adbCalls[c]) \in Adb!Paths
        /\ adbCalls[c].wrote => FindsOwn(c)

\* What a call has typed is in the field of its device, and nowhere else.
Marks(f, c) == {i \in DOMAIN f : f[i].by = c}
Chars(f, c) == {f[i].char : i \in Marks(f, c)}
Rising(f, c) == \A i, j \in Marks(f, c) : i < j => f[i].char < f[j].char
TypedSoFar(c, n) ==
    /\ \A s \in Serials : /\ Rising(field[s], c)
                          /\ Chars(field[s], c) = IF s = adbCalls[c].device THEN 1..n ELSE {}
    /\ adbCalls[c].op # "text" \/ adbCalls[c].pc \in {"idle", "device"} => n = 0
    /\ adbCalls[c].op = "text" =>
          /\ adbCalls[c].pc # "end" => n = adbCalls[c].typed /\ n < TextLength
          /\ adbCalls[c].outcome = "ok" => n = TextLength
TextsOK == \A c \in AdbCallers : \E n \in 0..TextLength : TypedSoFar(c, n)

\* The inductive invariant of the adb driver.
AdbInv == AdbTypes /\ FilesOK /\ WroteOK /\ Adb!TreeIsFresh /\ TextsOK

-----------------------------------------------------------------------------
(* The files.                                                              *)

\* What becomes of a device's file when call c does its next step.
FileStep(c, x, p) ==
    \/ file'[p] = Adb!NoFile
    \/ /\ file'[p] = file[p]
       /\ adbCalls[c].pc \in {"cat", "rm"} /\ Adb!PathOf(adbCalls[c]) = p =>
             x.pc \in {"cat", "rm"} \/ x.outcome \in LeftBehind
    \/ file'[p] = Adb!Written(c) /\ adbCalls[c].pc = "send" /\ x.pc = "cat" /\ Adb!PathOf(x) = p
WithStep(c, x) ==
    x.pc \notin {"idle", "end"} =>
        x.with = IF adbCalls[c].pc = "idle" THEN Adb!InFlight ELSE adbCalls[c].with
CatStep(c, x) == x.pc = "cat" =>
    adbCalls[c].pc = "send" /\ Adb!PathOf(x) \in Adb!Paths /\ (x.wrote => file'[Adb!PathOf(x)] = Adb!Written(c))
RmStep(c, x) == x.pc = "rm" =>
    /\ adbCalls[c].pc = "cat" /\ x.wrote = adbCalls[c].wrote
    /\ x.tree = file[Adb!PathOf(adbCalls[c])]

LEMMA FilesFollow ==
    ASSUME AdbTypes, FilesOK, WroteOK, Adb!TreeIsFresh, NEW c \in AdbCallers, NEW x, Steered(x),
           adbCalls' = [adbCalls EXCEPT ![c] = x], adbCalls[c].pc # "end", x.pc # "idle",
           adbCalls[c].pc \in {"cat", "rm"} => Adb!PathOf(x) = Adb!PathOf(adbCalls[c]),
           WithStep(c, x), CatStep(c, x), RmStep(c, x),
           \A p \in Adb!Paths : FileStep(c, x, p)
    PROVE  FilesOK' /\ WroteOK' /\ Adb!TreeIsFresh'
<1>1. /\ adbCalls'[c] = x
      /\ \A b \in AdbCallers : b # c => adbCalls'[b] = adbCalls[b]
  BY DEF AdbTypes
<1>2. adbCalls[c].outcome = "none" /\ (adbCalls[c].pc = "idle" => adbCalls[c] = Adb!Unsent)
  BY DEF AdbTypes, Steered
<1>3. \A b \in AdbCallers : adbCalls[b].outcome \in LeftBehind => adbCalls'[b].outcome \in LeftBehind
  BY <1>1, <1>2 DEF LeftBehind
<1>4. \A b \in Adb!InFlight' : b \in Adb!InFlight \/ (b = c /\ adbCalls[c].pc = "idle")
  <2> SUFFICES ASSUME NEW b \in AdbCallers, adbCalls'[b].pc \notin {"idle", "end"}
               PROVE  b \in Adb!InFlight \/ (b = c /\ adbCalls[c].pc = "idle")
    BY DEF Adb!InFlight
  <2>1. CASE b = c
    BY <2>1 DEF Adb!InFlight
  <2>2. CASE b # c
    BY <1>1, <2>2 DEF Adb!InFlight
  <2> QED BY <2>1, <2>2
<1>5. \A b \in Adb!InFlight' : b \in Adb!InFlight => adbCalls'[b].with = adbCalls[b].with
  BY <1>1 DEF Adb!InFlight, WithStep
<1>6. \A a \in Adb!InFlight', b \in AdbCallers : a \in Adb!InFlight /\ Earlier(a, b) => Earlier(a, b)'
  BY <1>3, <1>5 DEF Earlier
<1>7. FilesOK'
  <2> SUFFICES ASSUME NEW p \in Adb!Paths, file'[p] # Adb!NoFile
               PROVE  \E b \in AdbCallers : WrittenBy(b, p)'
    BY DEF FilesOK, Adb!NoFile
  <2>1. CASE /\ file'[p] = file[p]
             /\ adbCalls[c].pc \in {"cat", "rm"} /\ Adb!PathOf(adbCalls[c]) = p =>
                   x.pc \in {"cat", "rm"} \/ x.outcome \in LeftBehind
    <3>1. PICK b \in AdbCallers : WrittenBy(b, p)
      BY <2>1 DEF FilesOK
    <3>2. Keeps(b, p)'
      <4>1. CASE b = c
        BY <1>1, <1>2, <2>1, <3>1, <4>1 DEF Keeps, WrittenBy, LeftBehind
      <4>2. CASE b # c
        BY <1>1, <3>1, <4>2 DEF Keeps, WrittenBy
      <4> QED BY <4>1, <4>2
    <3>3. ASSUME NEW a \in Adb!InFlight'
          PROVE  (a \in file[p].during \/ Earlier(a, b))'
      <4>1. CASE a \in Adb!InFlight
        BY <1>6, <2>1, <3>1, <4>1 DEF WrittenBy
      <4>2. CASE a = c /\ adbCalls[c].pc = "idle"
        <5>1. x.with = Adb!InFlight
          BY <1>1, <3>3, <4>2 DEF WithStep, Adb!InFlight
        <5>2. b \in Adb!InFlight \/ adbCalls[b].outcome \in LeftBehind
          BY <3>1 DEF WrittenBy, Keeps, Adb!InFlight
        <5> QED BY <1>1, <1>3, <4>2, <5>1, <5>2 DEF Earlier
      <4> QED BY <1>4, <3>3, <4>1, <4>2
    <3> QED BY <2>1, <3>1, <3>2, <3>3 DEF WrittenBy
  <2>2. CASE file'[p] = Adb!Written(c) /\ adbCalls[c].pc = "send" /\ x.pc = "cat" /\ Adb!PathOf(x) = p
    <3>1. file'[p].by = {c} /\ file'[p].during = Adb!InFlight
      BY <2>2 DEF Adb!Written
    <3>2. \A a \in Adb!InFlight' : a \in Adb!InFlight
      BY <1>4, <2>2
    <3>3. Keeps(c, p)'
      BY <1>1, <2>2 DEF Keeps
    <3> QED BY <3>1, <3>2, <3>3 DEF WrittenBy
  <2> QED BY <2>1, <2>2 DEF FileStep
<1>8. WroteOK'
  <2> SUFFICES ASSUME NEW a \in AdbCallers, adbCalls'[a].pc = "cat"
               PROVE  Adb!PathOf(adbCalls'[a]) \in Adb!Paths /\ (adbCalls'[a].wrote => FindsOwn(a)')
    BY DEF WroteOK
  <2>1. CASE a = c
    <3>1. Adb!PathOf(x) \in Adb!Paths /\ (x.wrote => file'[Adb!PathOf(x)] = Adb!Written(c))
      BY <1>1, <2>1 DEF CatStep
    <3> QED BY <1>1, <2>1, <3>1 DEF Adb!Written, FindsOwn
  <2>2. CASE a # c
    <3>1. adbCalls'[a] = adbCalls[a] /\ a \in Adb!InFlight /\ Adb!PathOf(adbCalls[a]) \in Adb!Paths
      BY <1>1, <2>2 DEF WroteOK, Adb!InFlight
    <3>2. FileStep(c, x, Adb!PathOf(adbCalls[a]))
      BY <3>1
    <3> QED BY <3>1, <3>2 DEF FileStep, WroteOK, FindsOwn, Adb!Written
  <2> QED BY <2>1, <2>2
<1>9. Adb!TreeIsFresh'
  <2> SUFFICES ASSUME NEW a \in AdbCallers, adbCalls'[a].tree # Adb!NoFile
               PROVE  LET tree == adbCalls'[a].tree
                      IN /\ adbCalls'[a].wrote => a \in tree.by \cup tree.after
                         /\ a \notin tree.during => \A b \in tree.by : Earlier(a, b)'
    BY DEF Adb!TreeIsFresh, Adb!NoFile, LeftBehind, Earlier
  <2>1. CASE a = c
    <3>1. x.pc = "rm" /\ x.tree = file[Adb!PathOf(adbCalls[c])] /\ adbCalls[c].pc = "cat" /\ x.wrote = adbCalls[c].wrote
      BY <1>1, <2>1 DEF Steered, RmStep
    <3> DEFINE p == Adb!PathOf(adbCalls[c])
    <3>2. p \in Adb!Paths /\ (x.wrote => c \in file[p].by \cup file[p].after)
      BY <1>1, <2>1, <3>1 DEF WroteOK, FindsOwn
    <3>3. PICK b \in AdbCallers : WrittenBy(b, p)
      BY <1>1, <2>1, <3>1, <3>2 DEF FilesOK
    <3>4. c \in Adb!InFlight /\ x.with = adbCalls[c].with
      BY <3>1 DEF Adb!InFlight, WithStep
    <3>5. c \in file[p].during \/ Earlier(c, b)
      BY <3>3, <3>4 DEF WrittenBy
    <3>6. Earlier(c, b) => Earlier(c, b)'
      BY <1>1, <1>3, <3>4 DEF Earlier
    <3> QED BY <1>1, <2>1, <3>1, <3>2, <3>3, <3>5, <3>6 DEF WrittenBy
  <2>2. CASE a # c
    <3>1. adbCalls'[a] = adbCalls[a] /\ adbCalls[a].tree.by \subseteq AdbCallers
      BY <1>1, <2>2 DEF AdbTypes, Steered, Adb!NoFile
    <3>2. /\ adbCalls[a].wrote => a \in adbCalls[a].tree.by \cup adbCalls[a].tree.after
          /\ a \notin adbCalls[a].tree.during => \A b \in adbCalls[a].tree.by : Earlier(a, b)
      BY <3>1 DEF Adb!TreeIsFresh, Earlier, LeftBehind
    <3> QED BY <1>3, <3>1, <3>2 DEF Earlier
  <2> QED BY <2>1, <2>2
<1> QED BY <1>7, <1>8, <1>9

-----------------------------------------------------------------------------
(* What is typed.                                                          *)

\* A call that types nothing more has typed what it had.
TypesNoMore(c, x) ==
    IF adbCalls[c].pc \in {"idle", "device"}
    THEN x.op = "text" => x.typed = 0 /\ x.outcome # "ok"
    ELSE x.op = "text" => /\ adbCalls[c].op = "text" /\ adbCalls[c].device = x.device
                          /\ x.pc = "end" /\ x.outcome # "ok"

LEMMA TextsFollow ==
    ASSUME AdbTypes, TextsOK, NEW c \in AdbCallers, NEW x, Steered(x), UNCHANGED field,
           adbCalls' = [adbCalls EXCEPT ![c] = x], adbCalls[c].pc # "end", x.pc # "idle",
           TypesNoMore(c, x), adbCalls[c].op = "text" => x.op = "text"
    PROVE  TextsOK'
<1>1. /\ adbCalls'[c] = x
      /\ \A b \in AdbCallers : b # c => adbCalls'[b] = adbCalls[b]
  BY DEF AdbTypes
<1> SUFFICES ASSUME NEW b \in AdbCallers
             PROVE  \E n \in 0..TextLength : TypedSoFar(b, n)'
  BY DEF TextsOK
<1>2. PICK n \in 0..TextLength : TypedSoFar(b, n)
  BY DEF TextsOK
<1>3. CASE b # c
  BY <1>1, <1>2, <1>3 DEF TypedSoFar
<1>4. CASE b = c
  <2>1. TextLength \in Nat \ {0}
    BY AdbAssumption
  <2>2. n = 0 => 1..n = {}
    OBVIOUS
  <2>3. ~(adbCalls[c].op # "text" \/ adbCalls[c].pc \in {"idle", "device"}) \/ n = 0
    BY <1>2, <1>4 DEF TypedSoFar
  <2>4. \A s \in Serials : /\ Rising(field'[s], c)
                           /\ Chars(field'[s], c) = IF s = x.device THEN 1..n ELSE {}
    <3>1. n = 0 \/ x.device = adbCalls[c].device
      BY <2>3 DEF TypesNoMore
    <3> QED BY <1>2, <1>4, <2>2, <3>1 DEF TypedSoFar
  <2>5. x.op # "text" \/ x.pc \in {"idle", "device"} => n = 0
    BY <2>3 DEF TypesNoMore
  <2>6. x.op = "text" /\ x.pc # "end" => n = x.typed /\ n < TextLength
    BY <1>2, <1>4, <2>1, <2>3 DEF TypedSoFar, TypesNoMore
  <2>7. x.op = "text" => x.outcome # "ok"
    BY DEF TypesNoMore
  <2> QED BY <1>1, <1>4, <2>4, <2>5, <2>6, <2>7 DEF TypedSoFar
<1> QED BY <1>3, <1>4

\* Characters put behind a field.
Continues(t, c, k, n) == t = [i \in 1..n |-> [by |-> c, char |-> k + i]]
LEMMA MarksAppended ==
    ASSUME NEW f \in Seq(Mark), NEW c \in AdbCallers, NEW k \in Nat, NEW n \in Nat,
           NEW t \in Seq(Mark), Continues(t, c, k, n)
    PROVE  /\ f \o t \in Seq(Mark)
           /\ \A b \in AdbCallers \ {c} : /\ Rising(f, b) => Rising(f \o t, b)
                                          /\ Chars(f \o t, b) = Chars(f, b)
           /\ Rising(f, c) /\ Chars(f, c) = 1..k =>
                Rising(f \o t, c) /\ Chars(f \o t, c) = 1..(k + n)
<1> DEFINE g == f \o t
           m == Len(f)
<1>1. /\ g \in Seq(Mark) /\ m \in Nat /\ Len(g) = m + Len(t)
      /\ \A i \in 1..m : g[i] = f[i]
      /\ \A i \in 1..Len(t) : g[m + i] = t[i]
  <2>1. m \in Nat /\ Len(t) \in Nat
    BY LenProperties
  <2>2. g \in Seq(Mark) /\ Len(g) = m + Len(t)
    BY ConcatProperties
  <2>3. \A i \in 1..Len(g) : g[i] = IF i <= m THEN f[i] ELSE t[i - m]
    BY ConcatProperties
  <2>4. ASSUME NEW i \in 1..m PROVE g[i] = f[i]
    <3>1. i \in 1..Len(g) /\ i <= m
      BY <2>1, <2>2
    <3> QED BY <2>3, <3>1
  <2>5. ASSUME NEW i \in 1..Len(t) PROVE g[m + i] = t[i]
    <3>1. m + i \in 1..Len(g) /\ ~(m + i <= m) /\ (m + i) - m = i
      BY <2>1, <2>2
    <3> QED BY <2>3, <3>1
  <2> QED BY <2>1, <2>2, <2>4, <2>5
<1>2. Len(t) = n /\ \A i \in 1..n : t[i].by = c /\ t[i].char = k + i
  <2>1. DOMAIN t = 1..n /\ DOMAIN t = 1..Len(t) /\ Len(t) \in Nat
    BY LenProperties DEF Continues
  <2> QED BY <2>1 DEF Continues
<1>3. DOMAIN f = 1..m /\ DOMAIN g = 1..(m + n)
  BY <1>1, <1>2, LenProperties
<1>4. \A i \in 1..n : g[m + i].by = c /\ g[m + i].char = k + i
  BY <1>1, <1>2
<1>5. \A i \in 1..(m + n) : \/ i \in 1..m /\ g[i] = f[i]
                            \/ i - m \in 1..n /\ i > m /\ g[i].by = c /\ g[i].char = k + (i - m)
  <2> SUFFICES ASSUME NEW i \in 1..(m + n), i \notin 1..m
               PROVE  i - m \in 1..n /\ i > m /\ g[i].by = c /\ g[i].char = k + (i - m)
    BY <1>1
  <2>1. i - m \in 1..n /\ i > m /\ m + (i - m) = i
    BY <1>1
  <2> QED BY <1>4, <2>1
<1> HIDE DEF g
<1>6. ASSUME NEW b \in AdbCallers \ {c}
      PROVE  Marks(g, b) = Marks(f, b)
  <2>1. 1..m \subseteq 1..(m + n)
    BY <1>1
  <2> QED BY <1>1, <1>3, <1>5, <1>6, <2>1 DEF Marks
<1>7. \A b \in AdbCallers \ {c} : \A i \in Marks(f, b) : g[i] = f[i]
  BY <1>1, <1>3 DEF Marks
<1>8. \A b \in AdbCallers \ {c} : /\ Rising(f, b) => Rising(g, b)
                                  /\ Chars(g, b) = Chars(f, b)
  <2> SUFFICES ASSUME NEW b \in AdbCallers \ {c}
               PROVE  (Rising(f, b) => Rising(g, b)) /\ Chars(g, b) = Chars(f, b)
    OBVIOUS
  <2>1. Marks(g, b) = Marks(f, b) /\ \A i \in Marks(f, b) : g[i] = f[i]
    BY <1>6, <1>7
  <2> QED BY <2>1 DEF Rising, Chars
<1>9. ASSUME Rising(f, c), Chars(f, c) = 1..k
      PROVE  Rising(g, c) /\ Chars(g, c) = 1..(k + n)
  <2>1. \A i \in Marks(f, c) : i \in 1..m /\ g[i] = f[i] /\ f[i].char \in 1..k /\ i \in Marks(g, c)
    <3>1. \A i \in Marks(f, c) : f[i].char \in Chars(f, c)
      BY DEF Chars
    <3>2. \A i \in Marks(f, c) : i \in 1..m /\ g[i] = f[i]
      BY <1>1, <1>3 DEF Marks
    <3>3. \A i \in 1..m : i \in 1..(m + n)
      BY <1>1
    <3> QED BY <1>3, <1>9, <3>1, <3>2, <3>3 DEF Marks
  <2>2. \A i \in Marks(g, c) : \/ i \in Marks(f, c)
                               \/ i - m \in 1..n /\ i > m /\ g[i].char = k + (i - m)
    <3> SUFFICES ASSUME NEW i \in Marks(g, c), i \notin Marks(f, c)
                 PROVE  i - m \in 1..n /\ i > m /\ g[i].char = k + (i - m)
      OBVIOUS
    <3>1. i \in 1..(m + n) /\ g[i].by = c
      BY <1>3 DEF Marks
    <3>2. ~(i \in 1..m /\ g[i] = f[i])
      BY <1>3, <3>1 DEF Marks
    <3> QED BY <1>5, <3>1, <3>2
  <2>3. Rising(g, c)
    <3> SUFFICES ASSUME NEW i \in Marks(g, c), NEW j \in Marks(g, c), i < j
                 PROVE  g[i].char < g[j].char
      BY DEF Rising
    <3>1. i \in Nat /\ j \in Nat
      BY <1>1, <1>3 DEF Marks
    <3>2. CASE i \in Marks(f, c) /\ j \in Marks(f, c)
      BY <1>9, <2>1, <3>2 DEF Rising
    <3>3. CASE i \in Marks(f, c) /\ j \notin Marks(f, c)
      <4>1. g[i].char \in 1..k /\ g[j].char = k + (j - m) /\ j - m \in 1..n
        BY <2>1, <2>2, <3>3
      <4> QED BY <4>1
    <3>4. CASE i \notin Marks(f, c)
      <4>1. i > m /\ g[i].char = k + (i - m) /\ i - m \in 1..n
        BY <2>2, <3>4
      <4>2. j \notin Marks(f, c)
        BY <1>1, <2>1, <3>1, <4>1
      <4>3. g[j].char = k + (j - m) /\ j - m \in 1..n
        BY <2>2, <4>2
      <4> QED BY <1>1, <3>1, <4>1, <4>3
    <3> QED BY <3>2, <3>3, <3>4
  <2>4. \A v \in Chars(g, c) : v \in 1..(k + n)
    <3> SUFFICES ASSUME NEW i \in Marks(g, c)
                 PROVE  g[i].char \in 1..(k + n)
      BY DEF Chars
    <3>1. CASE i \in Marks(f, c)
      BY <2>1, <3>1
    <3>2. CASE i \notin Marks(f, c)
      <4>1. i - m \in 1..n /\ g[i].char = k + (i - m)
        BY <2>2, <3>2
      <4> QED BY <4>1
    <3> QED BY <3>1, <3>2
  <2>5. \A v \in 1..(k + n) : v \in Chars(g, c)
    <3> SUFFICES ASSUME NEW v \in 1..(k + n)
                 PROVE  v \in Chars(g, c)
      OBVIOUS
    <3>1. CASE v \in 1..k
      <4>1. PICK i \in Marks(f, c) : v = f[i].char
        BY <1>9, <3>1 DEF Chars
      <4> QED BY <2>1, <4>1 DEF Chars
    <3>2. CASE v \notin 1..k
      <4>1. v - k \in 1..n /\ k + (v - k) = v /\ m + (v - k) \in 1..(m + n)
        BY <1>1, <3>2
      <4>2. m + (v - k) \in Marks(g, c) /\ g[m + (v - k)].char = v
        BY <1>3, <1>4, <4>1 DEF Marks, g
      <4> QED BY <4>2 DEF Chars
    <3> QED BY <3>1, <3>2
  <2> QED BY <2>3, <2>4, <2>5
<1> QED BY <1>1, <1>8, <1>9 DEF g

-----------------------------------------------------------------------------
(* The steps.                                                              *)

LEMMA AdbMoves ==
    ASSUME AdbInv, NEW c \in AdbCallers, NEW x, Steered(x),
           adbCalls' = [adbCalls EXCEPT ![c] = x], adbCalls[c].pc # "end", x.pc # "idle",
           attached' = attached, UNCHANGED field, file' = [p \in Adb!Paths |-> file'[p]],
           running' = running \/ (running' = running \cup {c} /\ x.outcome = "aborted"),
           adbCalls[c].pc \in {"cat", "rm"} => Adb!PathOf(x) = Adb!PathOf(adbCalls[c]),
           WithStep(c, x), CatStep(c, x), RmStep(c, x), \A p \in Adb!Paths : FileStep(c, x, p),
           TypesNoMore(c, x), adbCalls[c].op = "text" => x.op = "text"
    PROVE  AdbInv'
<1>1. FilesOK' /\ WroteOK' /\ Adb!TreeIsFresh'
  BY FilesFollow DEF AdbInv
<1>2. TextsOK'
  BY TextsFollow DEF AdbInv
<1>3. AdbTypes'
  <2>1. /\ adbCalls'[c] = x
        /\ \A b \in AdbCallers : b # c => adbCalls'[b] = adbCalls[b]
        /\ adbCalls' = [b \in AdbCallers |-> adbCalls'[b]]
    BY DEF AdbInv, AdbTypes
  <2>2. adbCalls[c].outcome = "none"
    BY DEF AdbInv, AdbTypes, Steered
  <2>3. running' \subseteq {b \in AdbCallers : adbCalls'[b].outcome = "aborted"}
    BY <2>1, <2>2 DEF AdbInv, AdbTypes
  <2>4. \A b \in AdbCallers : Steered(adbCalls'[b])
    BY <2>1 DEF AdbInv, AdbTypes
  <2> QED BY <2>1, <2>3, <2>4 DEF AdbInv, AdbTypes, Steered
<1> QED BY <1>1, <1>2, <1>3 DEF AdbInv

\* A step that leaves the files alone.
LEMMA AdbMovesOn ==
    ASSUME AdbInv, NEW c \in AdbCallers, NEW x, Steered(x),
           adbCalls' = [adbCalls EXCEPT ![c] = x], adbCalls[c].pc # "end", x.pc \notin {"idle", "cat"},
           attached' = attached, UNCHANGED <<file, running, field>>, WithStep(c, x), RmStep(c, x),
           adbCalls[c].pc \in {"cat", "rm"} =>
              Adb!PathOf(x) = Adb!PathOf(adbCalls[c]) /\ (x.pc = "rm" \/ x.outcome \in LeftBehind),
           TypesNoMore(c, x), adbCalls[c].op = "text" => x.op = "text"
    PROVE  AdbInv'
<1>1. file' = [p \in Adb!Paths |-> file'[p]]
  BY DEF AdbInv, AdbTypes
<1>2. CatStep(c, x) /\ \A p \in Adb!Paths : FileStep(c, x, p)
  BY DEF CatStep, FileStep
<1> QED BY <1>1, <1>2, AdbMoves

\* The call in the middle of its commands.
LEMMA CallIs ==
    ASSUME AdbInv, NEW c \in AdbCallers
    PROVE  Steered(adbCalls[c])
BY DEF AdbInv, AdbTypes

\* A call that ends: whatever it was doing, it types no more.
EndsAs(c, u, d, outcome, x) ==
    /\ outcome # "none" /\ (adbCalls[c].op # "status" => u \subseteq {d})
    /\ x = Adb!Over([adbCalls[c] EXCEPT !.used = u], outcome)

LEMMA OverIs ==
    ASSUME AdbInv, NEW c \in AdbCallers, adbCalls[c].pc # "end", NEW outcome,
           NEW u, NEW d, NEW x, EndsAs(c, u, d, outcome, x)
    PROVE  /\ Steered(x) /\ x.pc = "end" /\ x.outcome = outcome /\ x.op = adbCalls[c].op
           /\ x.device = adbCalls[c].device /\ x.typed = adbCalls[c].typed
           /\ Adb!PathOf(x) = Adb!PathOf(adbCalls[c]) /\ WithStep(c, x) /\ RmStep(c, x)
<1>1. Steered(adbCalls[c])
  BY CallIs
<1>2. DOMAIN adbCalls[c] = AdbCallFields
  BY <1>1 DEF Steered
<1>3. /\ x = [i \in AdbCallFields |-> x[i]] /\ x.pc = "end" /\ x.outcome = outcome /\ x.op = adbCalls[c].op
      /\ x.device = adbCalls[c].device /\ x.typed = adbCalls[c].typed /\ x.used = u
      /\ x.tree = Adb!NoFile
  BY <1>2 DEF Adb!Over, AdbCallFields, EndsAs
<1>4. Steered(x)
  BY <1>1, <1>3 DEF Steered, EndsAs
<1> QED BY <1>3, <1>4 DEF WithStep, RmStep, Adb!PathOf

LEMMA EndsKeeps ==
    ASSUME AdbInv, NEW c \in AdbCallers, adbCalls[c].pc # "end", NEW outcome, outcome # "none",
           NEW u, NEW d, adbCalls[c].op # "status" => u \subseteq {d},
           adbCalls' = [adbCalls EXCEPT ![c] = Adb!Over([adbCalls[c] EXCEPT !.used = u], outcome)],
           attached' = attached, UNCHANGED <<file, running, field>>,
           outcome \in LeftBehind \/ (adbCalls[c].op # "text" /\ adbCalls[c].pc \notin {"cat", "rm"})
    PROVE  AdbInv'
<1>0. PICK x : EndsAs(c, u, d, outcome, x)
  BY DEF EndsAs
<1>1. /\ Steered(x) /\ x.pc = "end" /\ x.outcome = outcome /\ x.op = adbCalls[c].op
      /\ x.device = adbCalls[c].device /\ x.typed = adbCalls[c].typed
      /\ Adb!PathOf(x) = Adb!PathOf(adbCalls[c]) /\ WithStep(c, x) /\ RmStep(c, x)
  BY <1>0, OverIs
<1>2. adbCalls' = [adbCalls EXCEPT ![c] = x] /\ outcome # "none"
  BY <1>0 DEF EndsAs
<1>3. TypesNoMore(c, x)
  <2>1. adbCalls[c].pc \in {"idle", "device"} /\ adbCalls[c].op = "text" => adbCalls[c].typed = 0
    <3>1. PICK n \in 0..TextLength : TypedSoFar(c, n)
      BY DEF AdbInv, TextsOK
    <3> QED BY <3>1 DEF TypedSoFar
  <2> QED BY <1>1, <2>1 DEF TypesNoMore, LeftBehind
<1> QED BY <1>1, <1>2, <1>3, AdbMovesOn

\* The same, when the call uses no further device.
LEMMA EndsAsItIs ==
    ASSUME AdbInv, NEW c \in AdbCallers, adbCalls[c].pc # "end", NEW outcome, outcome # "none",
           Adb!Ends(c, outcome), attached' = attached, UNCHANGED <<file, running, field>>,
           outcome \in LeftBehind \/ (adbCalls[c].op # "text" /\ adbCalls[c].pc \notin {"cat", "rm"})
    PROVE  AdbInv'
<1>1. Steered(adbCalls[c]) 
  BY CallIs
<1>2. PICK d : adbCalls[c].op # "status" => adbCalls[c].used \subseteq {d}
  BY <1>1 DEF Steered
<1>3. [adbCalls[c] EXCEPT !.used = adbCalls[c].used] = adbCalls[c]
  BY <1>1 DEF Steered, AdbCallFields
<1> QED BY <1>2, <1>3, EndsKeeps DEF Adb!Ends, Adb!Moves

LEMMA StartKeeps ==
    ASSUME AdbInv, NEW c \in AdbCallers, Adb!Start(c)
    PROVE  AdbInv'
<1>1. PICK op \in AdbOps[c], given \in Serials \cup {"none"} :
         /\ adbCalls[c].pc = "idle" /\ UNCHANGED <<attached, plugs, file, running, field>>
         /\ adbCalls' = [adbCalls EXCEPT ![c] =
               [Adb!Unsent EXCEPT !.op = op, !.given = given, !.with = Adb!InFlight,
                   !.pc = IF op = "serial" THEN "named" ELSE "device",
                   !.asked = IF op = "serial" /\ given # "none" THEN given ELSE "none"]]
  BY DEF Adb!Start, Adb!Moves
<1>2. PICK x : x = [Adb!Unsent EXCEPT !.op = op, !.given = given, !.with = Adb!InFlight,
                   !.pc = IF op = "serial" THEN "named" ELSE "device",
                   !.asked = IF op = "serial" /\ given # "none" THEN given ELSE "none"]
  OBVIOUS
<1>3. /\ x = [i \in AdbCallFields |-> x[i]] /\ x.op = op /\ x.given = given /\ x.with = Adb!InFlight
      /\ x.pc = IF op = "serial" THEN "named" ELSE "device"
      /\ x.typed = 0 /\ x.outcome = "none" /\ x.used = {} /\ x.tree = Adb!NoFile
  BY <1>2 DEF Adb!Unsent, AdbCallFields
<1>4. Steered(x)
  BY <1>3 DEF Steered
<1>5. adbCalls[c].op = "none"
  <2>1. adbCalls[c] = Adb!Unsent
    BY <1>1, CallIs DEF Steered
  <2> QED BY <2>1 DEF Adb!Unsent
<1>6. WithStep(c, x) /\ RmStep(c, x) /\ TypesNoMore(c, x)
  BY <1>1, <1>3 DEF WithStep, RmStep, TypesNoMore
<1>7. adbCalls' = [adbCalls EXCEPT ![c] = x]
  BY <1>1, <1>2
<1> QED BY <1>1, <1>3, <1>4, <1>5, <1>6, <1>7, AdbMovesOn

LEMMA DefaultDeviceKeeps ==
    ASSUME AdbInv, NEW c \in AdbCallers, Adb!GetDefaultAndroidDevice(c)
    PROVE  AdbInv'
<1>1. adbCalls[c].pc = "device" /\ UNCHANGED <<attached, file, running, field>>
  BY DEF Adb!GetDefaultAndroidDevice, Adb!Devs
<1>2. CASE adbCalls[c].given = "none" /\ attached = <<>>
  <2>1. Adb!Ends(c, "failed")
    BY <1>2 DEF Adb!GetDefaultAndroidDevice
  <2> QED BY <1>1, <2>1, EndsAsItIs DEF LeftBehind
<1>3. CASE ~(adbCalls[c].given = "none" /\ attached = <<>>)
  <2> DEFINE d == IF adbCalls[c].given # "none" THEN adbCalls[c].given ELSE Head(attached)
  <2>1. d # "none"
    <3>1. attached # <<>> => Head(attached) \in Serials
      BY HeadTailProperties DEF AdbInv, AdbTypes
    <3> QED BY <1>3, <3>1, AdbAssumption
  <2>2. PICK x : x = [adbCalls[c] EXCEPT !.pc = "send", !.device = d]
    OBVIOUS
  <2>3. adbCalls' = [adbCalls EXCEPT ![c] = x]
    BY <1>3, <2>2 DEF Adb!GetDefaultAndroidDevice, Adb!Moves
  <2>4. Steered(adbCalls[c])
    BY CallIs
  <2>5. /\ x = [i \in AdbCallFields |-> x[i]] /\ x.pc = "send" /\ x.device = d
        /\ x.op = adbCalls[c].op /\ x.typed = adbCalls[c].typed /\ x.outcome = adbCalls[c].outcome
        /\ x.used = adbCalls[c].used /\ x.tree = adbCalls[c].tree /\ x.with = adbCalls[c].with
    BY <2>2, <2>4 DEF Steered, AdbCallFields
  <2>6. x.op # "status" => x.used \subseteq {d}
    BY <1>1, <2>4, <2>5 DEF Steered
  <2> HIDE DEF d
  <2>7. Steered(x)
    BY <1>1, <2>1, <2>4, <2>5, <2>6 DEF Steered
  <2>8. WithStep(c, x) /\ RmStep(c, x)
    BY <1>1, <2>5 DEF WithStep, RmStep
  <2>9. TypesNoMore(c, x)
    <3>1. PICK n \in 0..TextLength : TypedSoFar(c, n)
      BY DEF AdbInv, TextsOK
    <3>2. adbCalls[c].op = "text" => adbCalls[c].typed = 0
      BY <1>1, <3>1 DEF TypedSoFar
    <3> QED BY <1>1, <2>4, <2>5, <3>2 DEF TypesNoMore, Steered
  <2> QED BY <1>1, <2>3, <2>5, <2>7, <2>8, <2>9, AdbMovesOn
<1> QED BY <1>2, <1>3

LEMMA GestureKeeps ==
    ASSUME AdbInv, NEW c \in AdbCallers, NEW op, op \notin Adb!Dumps \cup {"text", "status"},
           Adb!Gesture(c, op)
    PROVE  AdbInv'
<1> DEFINE u == adbCalls[c].used \cup {adbCalls[c].device}
<1>1. PICK outcome \in {"ok", "failed"} :
         /\ adbCalls[c].pc = "send" /\ adbCalls[c].op = op /\ UNCHANGED <<attached, file, running, field>>
         /\ adbCalls' = [adbCalls EXCEPT ![c] = Adb!Over(Adb!Used(c, adbCalls[c].device), outcome)]
  BY DEF Adb!Gesture, Adb!Moves, Adb!Devs
<1>2. u \subseteq {adbCalls[c].device}
  BY <1>1, CallIs DEF Steered
<1>3. Adb!Used(c, adbCalls[c].device) = [adbCalls[c] EXCEPT !.used = u]
  <2>1. "used" \in DOMAIN adbCalls[c]
    BY CallIs DEF Steered, AdbCallFields
  <2> QED BY <2>1 DEF Adb!Used
<1> HIDE DEF u
<1> QED BY <1>1, <1>2, <1>3, EndsKeeps

LEMMA HeldTapKeeps ==
    ASSUME AdbInv, NEW c \in AdbCallers, Adb!AndroidTap(c), ~Adb!Gesture(c, "tap")
    PROVE  AdbInv'
<1>1. /\ adbCalls[c].pc = "send" /\ adbCalls[c].op = "tap" /\ UNCHANGED <<attached, file, running, field>>
      /\ adbCalls' = [adbCalls EXCEPT ![c] =
            [Adb!Used(c, adbCalls[c].device) EXCEPT !.op = "longPress", !.pc = "device",
                                                    !.given = adbCalls[c].device]]
  BY DEF Adb!AndroidTap, Adb!Moves, Adb!Devs, Adb!HoldDevice
<1>2. Steered(adbCalls[c])
  BY CallIs
<1>3. PICK x : x = [Adb!Used(c, adbCalls[c].device) EXCEPT !.op = "longPress", !.pc = "device",
                                                    !.given = adbCalls[c].device]
  OBVIOUS
<1>4. /\ x = [i \in AdbCallFields |-> x[i]] /\ x.op = "longPress" /\ x.pc = "device"
      /\ x.given = adbCalls[c].device /\ x.used = adbCalls[c].used \cup {adbCalls[c].device}
      /\ x.typed = adbCalls[c].typed /\ x.outcome = adbCalls[c].outcome
      /\ x.tree = adbCalls[c].tree /\ x.with = adbCalls[c].with
  BY <1>2, <1>3 DEF Steered, AdbCallFields, Adb!Used
<1>5. x.given # "none" /\ x.used = {x.given}
  BY <1>1, <1>2, <1>4 DEF Steered
<1>6. Steered(x)
  BY <1>1, <1>2, <1>4, <1>5 DEF Steered
<1>7. WithStep(c, x) /\ RmStep(c, x) /\ TypesNoMore(c, x)
  BY <1>1, <1>4 DEF WithStep, RmStep, TypesNoMore
<1>8. adbCalls' = [adbCalls EXCEPT ![c] = x]
  BY <1>1, <1>3
<1> QED BY <1>1, <1>4, <1>6, <1>7, <1>8, AdbMovesOn

LEMMA StatusBarKeeps ==
    ASSUME AdbInv, NEW c \in AdbCallers, Adb!AndroidGetDensity(c) \/ Adb!AndroidGetStatusBarHeight(c)
    PROVE  AdbInv'
<1>1. CASE Adb!AndroidGetDensity(c)
  <2>1. /\ adbCalls[c].pc = "send" /\ adbCalls[c].op = "status" /\ UNCHANGED <<attached, file, running, field>>
        /\ adbCalls' = [adbCalls EXCEPT ![c] = [Adb!Used(c, adbCalls[c].device) EXCEPT !.pc = "dumpsys"]]
    BY <1>1 DEF Adb!AndroidGetDensity, Adb!Moves, Adb!Devs
  <2>2. Steered(adbCalls[c])
    BY CallIs
  <2>3. PICK x : x = [Adb!Used(c, adbCalls[c].device) EXCEPT !.pc = "dumpsys"]
    OBVIOUS
  <2>4. /\ x = [i \in AdbCallFields |-> x[i]] /\ x.op = "status" /\ x.pc = "dumpsys"
        /\ x.typed = adbCalls[c].typed /\ x.outcome = adbCalls[c].outcome
        /\ x.tree = adbCalls[c].tree /\ x.with = adbCalls[c].with
    BY <2>1, <2>2, <2>3 DEF Steered, AdbCallFields, Adb!Used
  <2>5. Steered(x)
    BY <2>1, <2>2, <2>4 DEF Steered
  <2>6. WithStep(c, x) /\ RmStep(c, x) /\ TypesNoMore(c, x)
    BY <2>1, <2>4 DEF WithStep, RmStep, TypesNoMore
  <2>7. adbCalls' = [adbCalls EXCEPT ![c] = x]
    BY <2>1, <2>3
  <2> QED BY <2>1, <2>4, <2>5, <2>6, <2>7, AdbMovesOn
<1>2. CASE Adb!AndroidGetStatusBarHeight(c)
  <2> DEFINE u == adbCalls[c].used \cup Adb!Aimed(c, adbCalls[c].given)
  <2>1. /\ adbCalls[c].pc = "dumpsys" /\ UNCHANGED <<attached, file, running, field>>
        /\ adbCalls' = [adbCalls EXCEPT ![c] = Adb!Over([adbCalls[c] EXCEPT !.used = @ \cup Adb!Aimed(c, adbCalls[c].given)], "ok")]
    BY <1>2 DEF Adb!AndroidGetStatusBarHeight, Adb!Moves, Adb!Devs
  <2>2. adbCalls[c].op = "status"
    BY <2>1, CallIs DEF Steered
  <2>3. [adbCalls[c] EXCEPT !.used = @ \cup Adb!Aimed(c, adbCalls[c].given)] = [adbCalls[c] EXCEPT !.used = u]
    OBVIOUS
  <2> HIDE DEF u
  <2> QED BY <2>1, <2>2, <2>3, EndsKeeps
<1> QED BY <1>1, <1>2

LEMMA AttachedAreSerials == AdbInv => Adb!Attached \subseteq Serials
<1> SUFFICES ASSUME AdbInv PROVE Adb!Attached \subseteq Serials
  OBVIOUS
<1>1. \A i \in DOMAIN attached : attached[i] \in Serials
  BY ElementOfSeq, LenProperties DEF AdbInv, AdbTypes
<1> QED BY <1>1 DEF Adb!Attached, Adb!Range

LEMMA DumpKeeps ==
    ASSUME AdbInv, NEW c \in AdbCallers, Adb!Dump(c)
    PROVE  AdbInv'
<1>1. PICK wrote \in BOOLEAN :
         /\ adbCalls[c].pc = "send" /\ adbCalls[c].op \in Adb!Dumps /\ adbCalls[c].device \in Adb!Attached
         /\ file' = IF wrote THEN [file EXCEPT ![Adb!PathOf(adbCalls[c])] = Adb!Written(c)] ELSE file
         /\ adbCalls' = [adbCalls EXCEPT ![c] = [Adb!Used(c, adbCalls[c].device) EXCEPT !.pc = "cat", !.wrote = wrote]]
         /\ UNCHANGED <<attached, running, field>>
  BY DEF Adb!Dump, Adb!Moves, Adb!Devs
<1>2. Steered(adbCalls[c])
  BY CallIs
<1>3. PICK x : x = [Adb!Used(c, adbCalls[c].device) EXCEPT !.pc = "cat", !.wrote = wrote]
  OBVIOUS
<1>4. /\ x = [i \in AdbCallFields |-> x[i]] /\ x.op = adbCalls[c].op /\ x.pc = "cat" /\ x.wrote = wrote
      /\ x.used = adbCalls[c].used \cup {adbCalls[c].device} /\ x.device = adbCalls[c].device
      /\ x.typed = adbCalls[c].typed /\ x.outcome = adbCalls[c].outcome
      /\ x.tree = adbCalls[c].tree /\ x.with = adbCalls[c].with
  BY <1>2, <1>3 DEF Steered, AdbCallFields, Adb!Used
<1>5. x.op # "status" => x.device # "none" /\ x.used \subseteq {x.device}
  BY <1>1, <1>2, <1>4 DEF Steered
<1>6. Steered(x)
  BY <1>1, <1>2, <1>4, <1>5 DEF Steered
<1>7. WithStep(c, x) /\ RmStep(c, x)
  BY <1>1, <1>4 DEF WithStep, RmStep
<1>8. Adb!PathOf(x) = Adb!PathOf(adbCalls[c]) /\ Adb!PathOf(x) \in Adb!Paths
  BY <1>1, <1>4, AttachedAreSerials DEF Adb!PathOf, Adb!Paths
<1>9. file = [p \in Adb!Paths |-> file[p]]
  BY DEF AdbInv, AdbTypes
<1>10. /\ file' = [p \in Adb!Paths |-> file'[p]]
       /\ \A p \in Adb!Paths : file'[p] = IF wrote /\ p = Adb!PathOf(x) THEN Adb!Written(c) ELSE file[p]
  <2>1. CASE wrote
    BY <1>1, <1>8, <1>9, <2>1
  <2>2. CASE ~wrote
    BY <1>1, <1>9, <2>2
  <2> QED BY <2>1, <2>2
<1>11. CatStep(c, x)
  BY <1>1, <1>4, <1>8, <1>10 DEF CatStep
<1>12. \A p \in Adb!Paths : FileStep(c, x, p)
  BY <1>1, <1>4, <1>10 DEF FileStep
<1>13. adbCalls[c].op # "text" /\ x.op # "text"
  BY <1>1, <1>4 DEF Adb!Dumps
<1>14. TypesNoMore(c, x)
  BY <1>13, <1>1 DEF TypesNoMore
<1>15. adbCalls' = [adbCalls EXCEPT ![c] = x]
  BY <1>1, <1>3
<1> QED BY <1>1, <1>4, <1>6, <1>7, <1>8, <1>10, <1>11, <1>12, <1>13, <1>14, <1>15, AdbMoves

LEMMA ReadsKeeps ==
    ASSUME AdbInv, NEW c \in AdbCallers, Adb!Read(c)
    PROVE  AdbInv'
<1>1. adbCalls[c].pc = "cat" /\ UNCHANGED <<attached, file, running, field>>
  BY DEF Adb!Read, Adb!Devs
<1>2. Steered(adbCalls[c]) /\ Adb!PathOf(adbCalls[c]) \in Adb!Paths
  BY <1>1, CallIs DEF AdbInv, WroteOK
<1>3. CASE file[Adb!PathOf(adbCalls[c])] = Adb!NoFile
  <2>1. Adb!Ends(c, "failed")
    BY <1>3 DEF Adb!Read
  <2> QED BY <1>1, <2>1, EndsAsItIs DEF LeftBehind
<1>4. CASE file[Adb!PathOf(adbCalls[c])] # Adb!NoFile
  <2>1. PICK x : x = [adbCalls[c] EXCEPT !.pc = "rm", !.tree = file[Adb!PathOf(adbCalls[c])]]
    OBVIOUS
  <2>2. adbCalls' = [adbCalls EXCEPT ![c] = x]
    BY <1>4, <2>1 DEF Adb!Read, Adb!Moves
  <2>3. /\ x = [i \in AdbCallFields |-> x[i]] /\ x.op = adbCalls[c].op /\ x.pc = "rm"
        /\ x.wrote = adbCalls[c].wrote /\ x.used = adbCalls[c].used /\ x.device = adbCalls[c].device
        /\ x.typed = adbCalls[c].typed /\ x.outcome = adbCalls[c].outcome
        /\ x.tree = file[Adb!PathOf(adbCalls[c])] /\ x.with = adbCalls[c].with
        /\ Adb!PathOf(x) = Adb!PathOf(adbCalls[c])
    BY <1>2, <2>1 DEF Steered, AdbCallFields, Adb!PathOf
  <2>4. x.tree.by \subseteq AdbCallers
    BY <1>2, <1>4, <2>3 DEF AdbInv, FilesOK, WrittenBy
  <2>5. Steered(x)
    BY <1>1, <1>2, <2>3, <2>4 DEF Steered
  <2>6. WithStep(c, x) /\ RmStep(c, x)
    BY <1>1, <2>3 DEF WithStep, RmStep
  <2>7. adbCalls[c].op # "text" /\ x.op # "text"
    BY <1>1, <1>2, <2>3 DEF Steered, Adb!Dumps
  <2>8. TypesNoMore(c, x)
    BY <1>1, <2>7 DEF TypesNoMore
  <2> QED BY <1>1, <2>2, <2>3, <2>5, <2>6, <2>7, <2>8, AdbMovesOn
<1> QED BY <1>3, <1>4

LEMMA CleanUpKeeps ==
    ASSUME AdbInv, NEW c \in AdbCallers, Adb!CleanUp(c)
    PROVE  AdbInv'
<1>1. adbCalls[c].pc = "rm" /\ UNCHANGED <<attached, running, field>>
  BY DEF Adb!CleanUp, Adb!Devs
<1>2. Steered(adbCalls[c])
  BY CallIs
<1>3. CASE UNCHANGED file /\ Adb!Ends(c, "littered")
  BY <1>1, <1>3, EndsAsItIs DEF LeftBehind
<1>4. CASE file' = Adb!Removed(c) /\ Adb!Ends(c, "ok")
  <2>1. PICK d : adbCalls[c].op # "status" => adbCalls[c].used \subseteq {d}
    BY <1>2 DEF Steered
  <2>2. [adbCalls[c] EXCEPT !.used = adbCalls[c].used] = adbCalls[c]
    BY <1>2 DEF Steered, AdbCallFields
  <2>3. PICK x : EndsAs(c, adbCalls[c].used, d, "ok", x)
    BY <2>1 DEF EndsAs
  <2>4. /\ Steered(x) /\ x.pc = "end" /\ x.outcome = "ok" /\ x.op = adbCalls[c].op
        /\ Adb!PathOf(x) = Adb!PathOf(adbCalls[c]) /\ WithStep(c, x) /\ RmStep(c, x)
    BY <1>1, <2>3, OverIs
  <2>5. adbCalls' = [adbCalls EXCEPT ![c] = x]
    BY <1>4, <2>2, <2>3 DEF EndsAs, Adb!Ends, Adb!Moves
  <2>6. /\ file' = [p \in Adb!Paths |-> file'[p]]
        /\ \A p \in Adb!Paths : file'[p] = IF p = Adb!PathOf(x) THEN Adb!NoFile ELSE file[p]
    BY <1>4, <2>4 DEF AdbInv, AdbTypes, Adb!Removed
  <2>7. CatStep(c, x) /\ \A p \in Adb!Paths : FileStep(c, x, p)
    BY <2>4, <2>6 DEF CatStep, FileStep
  <2>8. adbCalls[c].op # "text" /\ x.op # "text"
    BY <1>1, <1>2, <2>4 DEF Steered, Adb!Dumps
  <2>9. TypesNoMore(c, x)
    BY <1>1, <2>8 DEF TypesNoMore
  <2> QED BY <1>1, <2>4, <2>5, <2>6, <2>7, <2>8, <2>9, AdbMoves
<1> QED BY <1>3, <1>4 DEF Adb!CleanUp

LEMMA AbortKeeps ==
    ASSUME AdbInv, NEW c \in AdbCallers, Adb!Abort(c)
    PROVE  AdbInv'
<1>1. /\ adbCalls[c].pc \in {"send", "cat", "rm"} /\ adbCalls[c].op \in Adb!Dumps
      /\ UNCHANGED <<attached, file, field>> /\ running' \in {running, running \cup {c}}
      /\ adbCalls' = [adbCalls EXCEPT ![c] = Adb!Over(adbCalls[c], "aborted")]
  BY DEF Adb!Abort, Adb!Devs, Adb!Ends, Adb!Moves
<1>2. Steered(adbCalls[c])
  BY CallIs
<1>3. PICK d : adbCalls[c].op # "status" => adbCalls[c].used \subseteq {d}
  BY <1>2 DEF Steered
<1>4. [adbCalls[c] EXCEPT !.used = adbCalls[c].used] = adbCalls[c]
  BY <1>2 DEF Steered, AdbCallFields
<1>5. PICK x : EndsAs(c, adbCalls[c].used, d, "aborted", x)
  BY <1>3 DEF EndsAs
<1>6. /\ Steered(x) /\ x.pc = "end" /\ x.outcome = "aborted" /\ x.op = adbCalls[c].op
      /\ Adb!PathOf(x) = Adb!PathOf(adbCalls[c]) /\ WithStep(c, x) /\ RmStep(c, x)
  BY <1>1, <1>5, OverIs
<1>7. adbCalls' = [adbCalls EXCEPT ![c] = x]
  BY <1>1, <1>4, <1>5 DEF EndsAs
<1>8. file' = [p \in Adb!Paths |-> file'[p]]
  BY <1>1 DEF AdbInv, AdbTypes
<1>9. CatStep(c, x) /\ \A p \in Adb!Paths : FileStep(c, x, p)
  BY <1>1, <1>6 DEF CatStep, FileStep, LeftBehind
<1>10. TypesNoMore(c, x) /\ (adbCalls[c].op = "text" => x.op = "text")
  BY <1>1, <1>6 DEF TypesNoMore, Adb!Dumps
<1> QED BY <1>1, <1>6, <1>7, <1>8, <1>9, <1>10, AdbMoves

LEMMA NamedKeeps ==
    ASSUME AdbInv, NEW c \in AdbCallers, Adb!ResolveAdbSerialForDeviceName(c)
    PROVE  AdbInv'
<1>1. adbCalls[c].pc = "named" /\ UNCHANGED <<attached, file, running, field>>
  BY DEF Adb!ResolveAdbSerialForDeviceName, Adb!Devs
<1>2. CASE adbCalls[c].asked = "none"
  <2>1. Adb!Ends(c, "failed")
    BY <1>2 DEF Adb!ResolveAdbSerialForDeviceName
  <2> QED BY <1>1, <2>1, EndsAsItIs DEF LeftBehind
<1>3. CASE adbCalls[c].asked # "none"
  <2>1. PICK o, d : o # "none" /\ Adb!Moves(c, [adbCalls[c] EXCEPT !.pc = "end", !.outcome = o, !.device = d])
    BY <1>3 DEF Adb!ResolveAdbSerialForDeviceName
  <2>2. PICK x : x = [adbCalls[c] EXCEPT !.pc = "end", !.outcome = o, !.device = d]
    OBVIOUS
  <2>3. Steered(adbCalls[c])
    BY CallIs
  <2>4. /\ x = [i \in AdbCallFields |-> x[i]] /\ x.op = adbCalls[c].op /\ x.pc = "end" /\ x.outcome = o
        /\ x.used = adbCalls[c].used /\ x.typed = adbCalls[c].typed /\ x.tree = adbCalls[c].tree
    BY <2>2, <2>3 DEF Steered, AdbCallFields
  <2>5. adbCalls[c].op = "serial" /\ x.used = {}
    BY <1>1, <2>3, <2>4 DEF Steered
  <2>6. Steered(x)
    BY <1>1, <2>3, <2>4, <2>5 DEF Steered
  <2>7. WithStep(c, x) /\ RmStep(c, x) /\ TypesNoMore(c, x)
    BY <1>1, <2>4, <2>5 DEF WithStep, RmStep, TypesNoMore
  <2>8. adbCalls' = [adbCalls EXCEPT ![c] = x]
    BY <2>1, <2>2 DEF Adb!Moves
  <2> QED BY <1>1, <2>4, <2>5, <2>6, <2>7, <2>8, AdbMovesOn
<1> QED BY <1>2, <1>3

-----------------------------------------------------------------------------
(* Typing, and the world.                                                  *)

\* The text of call c goes on by n characters in the field of its device.
LEMMA TypedOn ==
    ASSUME AdbInv, NEW c \in AdbCallers, NEW x, Steered(x), NEW n \in Nat,
           adbCalls' = [adbCalls EXCEPT ![c] = x],
           adbCalls[c].pc = "send", adbCalls[c].op = "text", adbCalls[c].device \in Serials,
           field' = [field EXCEPT ![adbCalls[c].device] = @ \o Adb!Typed(c, n)],
           UNCHANGED <<attached, file, running>>,
           x.op = "text", x.device = adbCalls[c].device, x.with = adbCalls[c].with \/ x.pc = "end",
           x.pc \in {"send", "end"}, adbCalls[c].typed + n <= TextLength,
           x.pc = "send" => x.typed = adbCalls[c].typed + n /\ x.typed < TextLength,
           x.outcome = "ok" => adbCalls[c].typed + n = TextLength
    PROVE  AdbInv'
<1>1. /\ adbCalls'[c] = x
      /\ \A b \in AdbCallers : b # c => adbCalls'[b] = adbCalls[b]
      /\ adbCalls' = [b \in AdbCallers |-> adbCalls'[b]]
  BY DEF AdbInv, AdbTypes
<1>2. FilesOK' /\ WroteOK' /\ Adb!TreeIsFresh'
  <2>1. WithStep(c, x) /\ CatStep(c, x) /\ RmStep(c, x) /\ \A p \in Adb!Paths : FileStep(c, x, p)
    BY DEF WithStep, CatStep, RmStep, FileStep
  <2> QED BY <2>1, FilesFollow DEF AdbInv
<1>3. adbCalls[c].typed \in Nat /\ adbCalls[c].outcome = "none"
  BY CallIs DEF Steered
<1> DEFINE d == adbCalls[c].device
           t == Adb!Typed(c, n)
<1>4. t \in Seq(Mark) /\ Continues(t, c, adbCalls[c].typed, n)
  <2>1. t = [i \in 1..n |-> [by |-> c, char |-> adbCalls[c].typed + i]]
    BY DEF Adb!Typed
  <2>2. \A i \in 1..n : [by |-> c, char |-> adbCalls[c].typed + i] \in Mark
    BY <1>3 DEF Mark
  <2> HIDE DEF t
  <2>3. t \in [1..n -> Mark]
    BY <2>1, <2>2
  <2>4. Continues(t, c, adbCalls[c].typed, n)
    BY <2>1 DEF Continues
  <2> QED BY <2>3, <2>4, IsASeq
<1> HIDE DEF t
<1>5. field \in [Serials -> Seq(Mark)] /\ field[d] \in Seq(Mark)
  BY DEF AdbInv, AdbTypes
<1>6. field' = [field EXCEPT ![d] = field[d] \o t]
  BY DEF t
<1>7. /\ field[d] \o t \in Seq(Mark)
      /\ \A b \in AdbCallers \ {c} : /\ Rising(field[d], b) => Rising(field[d] \o t, b)
                                     /\ Chars(field[d] \o t, b) = Chars(field[d], b)
      /\ Rising(field[d], c) /\ Chars(field[d], c) = 1..adbCalls[c].typed =>
            Rising(field[d] \o t, c) /\ Chars(field[d] \o t, c) = 1..(adbCalls[c].typed + n)
  BY <1>3, <1>4, <1>5, MarksAppended
<1>8. \A s \in Serials : field'[s] = IF s = d THEN field[d] \o t ELSE field[s]
  BY <1>5, <1>6
<1>9. AdbTypes'
  <2>1. field' \in [Serials -> Seq(Mark)]
    BY <1>5, <1>6, <1>7
  <2>2. running' \subseteq {b \in AdbCallers : adbCalls'[b].outcome = "aborted"}
    BY <1>1, <1>3 DEF AdbInv, AdbTypes
  <2>3. \A b \in AdbCallers : Steered(adbCalls'[b])
    BY <1>1 DEF AdbInv, AdbTypes
  <2> QED BY <1>1, <2>1, <2>2, <2>3 DEF AdbInv, AdbTypes, Steered
<1>10. TextsOK'
  <2> SUFFICES ASSUME NEW b \in AdbCallers
               PROVE  \E m \in 0..TextLength : TypedSoFar(b, m)'
    BY DEF TextsOK
  <2>1. PICK m \in 0..TextLength : TypedSoFar(b, m)
    BY DEF AdbInv, TextsOK
  <2>2. CASE b # c
    <3>1. \A s \in Serials : /\ Rising(field'[s], b)
                             /\ Chars(field'[s], b) = IF s = adbCalls[b].device THEN 1..m ELSE {}
      <4> TAKE s \in Serials
      <4>1. /\ Rising(field[s], b)
            /\ Chars(field[s], b) = IF s = adbCalls[b].device THEN 1..m ELSE {}
        BY <2>1 DEF TypedSoFar
      <4>2. CASE s = d
        BY <1>7, <1>8, <2>2, <4>1, <4>2
      <4>3. CASE s # d
        BY <1>8, <4>1, <4>3
      <4> QED BY <4>2, <4>3
    <3> QED BY <1>1, <2>1, <2>2, <3>1 DEF TypedSoFar
  <2>3. CASE b = c
    <3>1. m = adbCalls[c].typed
      BY <2>1, <2>3 DEF TypedSoFar
    <3>2. m + n \in 0..TextLength
      BY <1>3, <3>1, AdbAssumption
    <3>3. \A s \in Serials : /\ Rising(field'[s], c)
                             /\ Chars(field'[s], c) = IF s = x.device THEN 1..(m + n) ELSE {}
      <4> TAKE s \in Serials
      <4>1. /\ Rising(field[s], c)
            /\ Chars(field[s], c) = IF s = d THEN 1..m ELSE {}
        BY <2>1, <2>3 DEF TypedSoFar
      <4>2. CASE s = d
        BY <1>7, <1>8, <3>1, <4>1, <4>2
      <4>3. CASE s # d
        BY <1>8, <4>1, <4>3
      <4> QED BY <4>2, <4>3
    <3>4. TypedSoFar(c, m + n)'
      BY <1>1, <3>1, <3>3 DEF TypedSoFar
    <3> QED BY <2>3, <3>2, <3>4
  <2> QED BY <2>2, <2>3
<1> QED BY <1>2, <1>9, <1>10 DEF AdbInv

LEMMA InputCharKeeps ==
    ASSUME AdbInv, NEW c \in AdbCallers, Adb!InputChar(c)
    PROVE  AdbInv'
<1>1. PICK ok \in BOOLEAN, done \in BOOLEAN :
         /\ adbCalls[c].pc = "send" /\ adbCalls[c].op = "text" /\ adbCalls[c].device \in Adb!Attached
         /\ ok => done
         /\ field' = IF done THEN [field EXCEPT ![adbCalls[c].device] = @ \o Adb!Typed(c, 1)] ELSE field
         /\ adbCalls' = [adbCalls EXCEPT ![c] = Adb!AfterChar(c, ok)]
         /\ UNCHANGED <<attached, file, running>>
  BY DEF Adb!InputChar, Adb!Moves, Adb!Devs
<1>2. Steered(adbCalls[c])
  BY CallIs
<1>3. adbCalls[c].device \in Serials
  BY <1>1, AttachedAreSerials
<1>4. adbCalls[c].typed \in Nat /\ adbCalls[c].typed < TextLength
  <2>1. PICK n \in 0..TextLength : TypedSoFar(c, n)
    BY DEF AdbInv, TextsOK
  <2> QED BY <1>1, <1>2, <2>1 DEF TypedSoFar, Steered
<1>5. TextLength \in Nat
  BY AdbAssumption
<1>6. PICK x : x = Adb!AfterChar(c, ok)
  OBVIOUS
<1>7. /\ x = [i \in AdbCallFields |-> x[i]] /\ x.op = "text" /\ x.device = adbCalls[c].device
      /\ x.used = adbCalls[c].used \cup {adbCalls[c].device}
      /\ x.typed = IF ok THEN adbCalls[c].typed + 1 ELSE adbCalls[c].typed
      /\ x.pc = IF adbCalls[c].typed + 1 = TextLength \/ ~ok THEN "end" ELSE "send"
      /\ x.outcome = IF ~ok THEN "failed" ELSE IF adbCalls[c].typed + 1 = TextLength THEN "ok" ELSE "none"
      /\ x.tree = adbCalls[c].tree /\ x.with = adbCalls[c].with
  BY <1>1, <1>2, <1>6 DEF Steered, AdbCallFields, Adb!Used, Adb!AfterChar
<1>8. x.used \subseteq {x.device} /\ x.device # "none"
  BY <1>1, <1>2, <1>7 DEF Steered
<1>9. Steered(x)
  <2>1. x.typed \in Nat /\ x.pc \in {"send", "end"} /\ (x.pc # "end" => x.outcome = "none")
    BY <1>4, <1>7
  <2>2. x.tree = Adb!NoFile
    BY <1>1, <1>2, <1>7 DEF Steered
  <2> QED BY <1>7, <1>8, <2>1, <2>2 DEF Steered
<1>10. adbCalls' = [adbCalls EXCEPT ![c] = x]
  BY <1>1, <1>6
<1>11. CASE done
  <2>1. /\ 1 \in Nat /\ adbCalls[c].typed + 1 <= TextLength
        /\ x.pc = "send" => x.typed = adbCalls[c].typed + 1 /\ x.typed < TextLength
        /\ x.outcome = "ok" => adbCalls[c].typed + 1 = TextLength
    BY <1>4, <1>5, <1>7
  <2>2. x.pc \in {"send", "end"}
    BY <1>7
  <2>3. field' = [field EXCEPT ![adbCalls[c].device] = @ \o Adb!Typed(c, 1)]
    BY <1>1, <1>11
  <2> QED BY <1>1, <1>3, <1>7, <1>9, <1>10, <2>1, <2>2, <2>3, TypedOn
<1>12. CASE ~done
  <2>1. ~ok /\ x.pc = "end" /\ x.outcome = "failed"
    BY <1>1, <1>7, <1>12
  <2>2. WithStep(c, x) /\ RmStep(c, x) /\ TypesNoMore(c, x)
    BY <1>1, <1>7, <2>1 DEF WithStep, RmStep, TypesNoMore
  <2> QED BY <1>1, <1>7, <1>9, <1>10, <1>12, <2>1, <2>2, AdbMovesOn
<1> QED BY <1>11, <1>12

LEMMA InputBulkKeeps ==
    ASSUME AdbInv, NEW c \in AdbCallers, Adb!InputBulk(c)
    PROVE  AdbInv'
<1>1. PICK outcome \in {"ok", "failed"} :
         /\ adbCalls[c].pc = "send" /\ adbCalls[c].op = "text" /\ adbCalls[c].device \in Adb!Attached
         /\ adbCalls[c].typed = 0
         /\ field' = [field EXCEPT ![adbCalls[c].device] = @ \o Adb!Typed(c, TextLength)]
         /\ adbCalls' = [adbCalls EXCEPT ![c] =
                Adb!Over([Adb!Used(c, adbCalls[c].device) EXCEPT !.typed = TextLength], outcome)]
         /\ UNCHANGED <<attached, file, running>>
  BY DEF Adb!InputBulk, Adb!Moves, Adb!Devs
<1>2. Steered(adbCalls[c])
  BY CallIs
<1>3. adbCalls[c].device \in Serials
  BY <1>1, AttachedAreSerials
<1>4. TextLength \in Nat
  BY AdbAssumption
<1>5. PICK x : x = Adb!Over([Adb!Used(c, adbCalls[c].device) EXCEPT !.typed = TextLength], outcome)
  OBVIOUS
<1>6. /\ x = [i \in AdbCallFields |-> x[i]] /\ x.op = "text" /\ x.device = adbCalls[c].device
      /\ x.used = adbCalls[c].used \cup {adbCalls[c].device} /\ x.typed = TextLength
      /\ x.pc = "end" /\ x.outcome = outcome /\ x.tree = Adb!NoFile
  BY <1>1, <1>2, <1>5 DEF Steered, AdbCallFields, Adb!Used, Adb!Over
<1>7. x.used \subseteq {x.device}
  BY <1>1, <1>2, <1>6 DEF Steered
<1>8. Steered(x)
  BY <1>2, <1>4, <1>6, <1>7 DEF Steered
<1>9. adbCalls' = [adbCalls EXCEPT ![c] = x]
  BY <1>1, <1>5
<1>10. adbCalls[c].typed + TextLength = TextLength /\ adbCalls[c].typed + TextLength <= TextLength
  BY <1>1, <1>4
<1>11. x.pc \in {"send", "end"} /\ (x.pc # "send")
  BY <1>6
<1> QED BY <1>1, <1>3, <1>4, <1>6, <1>8, <1>9, <1>10, <1>11, TypedOn

LEMMA PlugKeeps ==
    ASSUME AdbInv, Adb!Plug
    PROVE  AdbInv'
<1>1. attached \in Seq(Serials) /\ UNCHANGED <<file, running, field, adbCalls>>
  BY DEF AdbInv, AdbTypes, Adb!Plug
<1>2. attached' \in Seq(Serials)
  <2>1. ASSUME NEW s \in Serials, attached' = Append(attached, s)
        PROVE  attached' \in Seq(Serials)
    BY <1>1, <2>1, AppendProperties
  <2>2. ASSUME NEW i \in DOMAIN attached, attached' = Adb!RemoveAt(attached, i)
        PROVE  attached' \in Seq(Serials)
    <3>1. Len(attached) \in Nat /\ i \in 1..Len(attached)
      BY <1>1, LenProperties
    <3>2. \A j \in 1..Len(attached) : attached[j] \in Serials
      BY <1>1, ElementOfSeq
    <3>3. 1 \in Int /\ i - 1 \in Int /\ i + 1 \in Int /\ Len(attached) \in Int
      BY <3>1
    <3>4. SubSeq(attached, 1, i - 1) \in Seq(Serials)
      <4>1. \A j \in 1..(i - 1) : j \in 1..Len(attached)
        BY <3>1
      <4> QED BY <3>2, <3>3, <4>1, SubSeqProperties
    <3>5. SubSeq(attached, i + 1, Len(attached)) \in Seq(Serials)
      <4>1. \A j \in (i + 1)..Len(attached) : j \in 1..Len(attached)
        BY <3>1
      <4> QED BY <3>2, <3>3, <4>1, SubSeqProperties
    <3> QED BY <2>2, <3>4, <3>5, ConcatProperties DEF Adb!RemoveAt
  <2> QED BY <2>1, <2>2 DEF Adb!Plug
<1>3. AdbTypes' /\ FilesOK' /\ WroteOK' /\ Adb!TreeIsFresh' /\ TextsOK'
  <2>1. AdbTypes'
    BY <1>1, <1>2 DEF AdbInv, AdbTypes, Steered
  <2>2. FilesOK'
    BY <1>1 DEF AdbInv, FilesOK, WrittenBy, Keeps, Earlier, Adb!InFlight
  <2>3. WroteOK' /\ Adb!TreeIsFresh' /\ TextsOK'
    BY <1>1 DEF AdbInv, WroteOK, FindsOwn, Adb!TreeIsFresh, TextsOK, TypedSoFar
  <2> QED BY <2>1, <2>2, <2>3
<1> QED BY <1>3 DEF AdbInv

LEMMA OrphanKeeps ==
    ASSUME AdbInv, Adb!OrphanWrites
    PROVE  AdbInv'
<1>1. PICK c \in running :
         /\ running' = running \ {c} /\ UNCHANGED <<attached, field, adbCalls>>
         /\ file' = IF adbCalls[c].device \in Adb!Attached
                    THEN [file EXCEPT ![Adb!PathOf(adbCalls[c])] = Adb!Written(c)] ELSE file
  BY DEF Adb!OrphanWrites, Adb!Devs
<1>2. c \in AdbCallers /\ adbCalls[c].outcome = "aborted"
  BY DEF AdbInv, AdbTypes
<1>3. /\ file' = [p \in Adb!Paths |-> file'[p]]
      /\ \A p \in Adb!Paths : file'[p] = file[p] \/ (file'[p] = Adb!Written(c) /\ p = Adb!PathOf(adbCalls[c]))
  BY <1>1 DEF AdbInv, AdbTypes
<1>4. AdbTypes'
  BY <1>1, <1>3 DEF AdbInv, AdbTypes, Steered
<1>5. FilesOK'
  <2> SUFFICES ASSUME NEW p \in Adb!Paths, file'[p] # Adb!NoFile
               PROVE  \E b \in AdbCallers : WrittenBy(b, p)'
    BY DEF FilesOK, Adb!NoFile
  <2>1. CASE file'[p] = file[p]
    <3>1. PICK b \in AdbCallers : WrittenBy(b, p)
      BY <2>1 DEF AdbInv, FilesOK
    <3> QED BY <1>1, <2>1, <3>1 DEF WrittenBy, Keeps, Earlier, Adb!InFlight
  <2>2. CASE file'[p] = Adb!Written(c) /\ p = Adb!PathOf(adbCalls[c])
    <3>1. file'[p].by = {c} /\ file'[p].during = Adb!InFlight /\ Adb!InFlight' = Adb!InFlight
      BY <1>1, <2>2 DEF Adb!Written, Adb!InFlight
    <3>2. Keeps(c, p)'
      BY <1>1, <1>2, <2>2 DEF Keeps, LeftBehind
    <3> QED BY <1>2, <3>1, <3>2 DEF WrittenBy
  <2> QED BY <1>3, <2>1, <2>2
<1>6. WroteOK'
  <2> SUFFICES ASSUME NEW a \in AdbCallers, adbCalls[a].pc = "cat"
               PROVE  Adb!PathOf(adbCalls[a]) \in Adb!Paths /\ (adbCalls[a].wrote => FindsOwn(a)')
    BY <1>1 DEF WroteOK
  <2>1. adbCalls[a].wrote => a \in Adb!Written(c).after
    BY DEF Adb!Written, Adb!InFlight
  <2> QED BY <1>1, <1>3, <2>1 DEF AdbInv, WroteOK, FindsOwn
<1>7. Adb!TreeIsFresh' /\ TextsOK'
  BY <1>1 DEF AdbInv, Adb!TreeIsFresh, TextsOK, TypedSoFar
<1> QED BY <1>4, <1>5, <1>6, <1>7 DEF AdbInv

LEMMA AdbStep ==
    ASSUME AdbInv, Adb!Next
    PROVE  AdbInv'
<1>1. CASE Adb!Plug \/ Adb!OrphanWrites
  BY <1>1, PlugKeeps, OrphanKeeps
<1>2. ASSUME NEW c \in AdbCallers, Adb!IsAdbAvailable(c)
      PROVE  AdbInv'
  <2>1. adbCalls[c].pc = "idle" /\ Adb!Ends(c, "failed") /\ UNCHANGED <<attached, file, running, field>>
    BY <1>2 DEF Adb!IsAdbAvailable
  <2> QED BY <2>1, EndsAsItIs DEF LeftBehind
<1>3. ASSUME NEW c \in AdbCallers, Adb!CommandFails(c)
      PROVE  AdbInv'
  <2>1. /\ adbCalls[c].pc \in {"send", "cat"} /\ Adb!Ends(c, "failed")
        /\ UNCHANGED <<attached, file, running, field>>
    BY <1>3 DEF Adb!CommandFails, Adb!Devs
  <2> QED BY <2>1, EndsAsItIs DEF LeftBehind
<1>4. ASSUME NEW c \in AdbCallers,
             \/ Adb!AndroidTap(c) \/ Adb!AndroidLongPress(c) \/ Adb!AndroidSwipe(c) \/ Adb!AndroidKeyEvent(c)
             \/ Adb!AndroidInstallApp(c) \/ Adb!AndroidLaunchApp(c) \/ Adb!AndroidListPackages(c)
             \/ Adb!AndroidGetScreenSize(c)
      PROVE  AdbInv'
  <2>1. ASSUME NEW op \in {"tap", "swipe", "longPress", "keyEvent", "install", "launch", "packages", "size"},
               Adb!Gesture(c, op)
        PROVE  AdbInv'
    <3>1. op \notin Adb!Dumps \cup {"text", "status"}
      BY DEF Adb!Dumps
    <3> QED BY <2>1, <3>1, GestureKeeps
  <2>2. CASE Adb!AndroidTap(c)
    BY <2>1, <2>2, HeldTapKeeps
  <2> QED BY <1>4, <2>1, <2>2 DEF Adb!AndroidLongPress, Adb!AndroidSwipe, Adb!AndroidKeyEvent,
        Adb!AndroidInstallApp, Adb!AndroidLaunchApp, Adb!AndroidListPackages, Adb!AndroidGetScreenSize
<1> QED
  BY <1>1, <1>2, <1>3, <1>4, StartKeeps, DefaultDeviceKeeps, StatusBarKeeps, InputCharKeeps, InputBulkKeeps,
     DumpKeeps, ReadsKeeps, CleanUpKeeps, AbortKeeps, NamedKeeps DEF Adb!Next

LEMMA SetsAsSeqs ==
    ASSUME NEW S, S \subseteq Serials
    PROVE  Adb!SetToSeq(S) \in Seq(Serials)
<1>1. IsFiniteSet(S)
  BY AdbAssumption, FS_Subset
<1>2. PICK f : f \in Bijection(1..Cardinality(S), S)
  BY <1>1, FS_CardinalityType DEF ExistsBijection
<1>3. f \in [1..Cardinality(S) -> S] /\ Adb!IsInjective(f)
  BY <1>2 DEF Bijection, Injection, Surjection, IsInjective, Adb!IsInjective
<1>4. Adb!SetToSeq(S) \in [1..Cardinality(S) -> S]
  <2>1. Adb!Cardinality(S) = Cardinality(S)
    BY DEF Adb!Cardinality, Cardinality
  <2> QED BY <1>3, <2>1 DEF Adb!SetToSeq
<1>5. Adb!SetToSeq(S) \in [1..Cardinality(S) -> Serials]
  BY <1>4
<1> QED BY <1>1, <1>5, FS_CardinalityType, IsASeq

LEMMA AdbInitially ==
    ASSUME DevicesInit
    PROVE  AdbInv
<1>1. /\ file = [p \in Adb!Paths |-> Adb!NoFile] /\ field = [s \in Serials |-> <<>>]
      /\ adbCalls = [c \in AdbCallers |-> Adb!Unsent] /\ running = {}
  BY DEF DevicesInit, Adb!Init, AdbOff
<1>2. attached \in Seq(Serials)
  <2>1. attached = <<>> \/ \E S \in SUBSET Serials : attached = Adb!SetToSeq(S)
    BY DEF DevicesInit, Adb!Init, AdbOff
  <2> QED BY <2>1, SetsAsSeqs, EmptySeq
<1>3. /\ Adb!Unsent.pc = "idle" /\ Adb!Unsent.outcome = "none" /\ Adb!Unsent.tree = Adb!NoFile
      /\ Adb!Unsent.typed = 0 /\ Adb!Unsent.used = {} /\ Adb!Unsent.op = "none"
      /\ Adb!Unsent = [i \in AdbCallFields |-> Adb!Unsent[i]]
  BY DEF Adb!Unsent, AdbCallFields
<1>4. Steered(Adb!Unsent)
  BY <1>3 DEF Steered
<1>5. AdbTypes
  BY <1>1, <1>2, <1>4, EmptySeq DEF AdbTypes
<1>6. TextsOK
  <2> SUFFICES ASSUME NEW c \in AdbCallers
               PROVE  TypedSoFar(c, 0)
    BY AdbAssumption DEF TextsOK
  <2>1. \A s \in Serials : DOMAIN field[s] = {}
    BY <1>1
  <2>2. \A s \in Serials : Marks(field[s], c) = {} /\ Chars(field[s], c) = {} /\ Rising(field[s], c)
    BY <2>1 DEF Marks, Chars, Rising
  <2>3. 1..0 = {}
    OBVIOUS
  <2> QED BY <1>1, <1>3, <2>2, <2>3 DEF TypedSoFar
<1>7. FilesOK /\ WroteOK /\ Adb!TreeIsFresh
  BY <1>1, <1>3 DEF FilesOK, WroteOK, Adb!TreeIsFresh
<1> QED BY <1>5, <1>6, <1>7 DEF AdbInv

\* Whatever fails, is killed, is left running or is plugged out: the invariant of the adb driver.
THEOREM AdbInvariant == DevicesSpec => []AdbInv
<1>1. DevicesInit => AdbInv
  BY AdbInitially
<1>2. AdbInv /\ [DevicesNext]_allVars => AdbInv'
  <2> SUFFICES ASSUME AdbInv, [DevicesNext]_allVars
               PROVE  AdbInv'
    OBVIOUS
  <2>1. CASE Adb!Next
    BY <2>1, AdbStep
  <2>2. CASE UNCHANGED adbVars
    <3>1. UNCHANGED <<attached, file, running, field, adbCalls>>
      BY <2>2 DEF adbVars
    <3>2. AdbTypes'
      BY <3>1 DEF AdbInv, AdbTypes, Steered
    <3>3. FilesOK'
      BY <3>1 DEF AdbInv, FilesOK, WrittenBy, Keeps, Earlier, Adb!InFlight
    <3>4. WroteOK' /\ Adb!TreeIsFresh'
      BY <3>1 DEF AdbInv, WroteOK, FindsOwn, Adb!TreeIsFresh
    <3>5. TextsOK'
      BY <3>1 DEF AdbInv, TextsOK, TypedSoFar
    <3> QED BY <3>2, <3>3, <3>4, <3>5 DEF AdbInv
  <2> QED BY <2>1, <2>2 DEF DevicesNext, allVars
<1> QED BY <1>1, <1>2, PTL DEF DevicesSpec

\* Concurrent adb calls, for any devices, calls, length of text and number of pluggings: what one
\* reads is no older than its own dump, and from before the call only if uiautomator gave up in
\* silence and an earlier call left its file; it acts on one device, and types its text in order
\* and once.  (android.ts)
THEOREM AdbIsFreshAndOrdered == DevicesSpec => []AdbFreshAndOrdered
<1>1. AdbInv => AdbFreshAndOrdered
  <2> SUFFICES ASSUME AdbInv
               PROVE  Adb!OneDevicePerCall /\ Adb!TypedInOrder
    BY DEF AdbFreshAndOrdered, AdbInv
  <2>1. Adb!OneDevicePerCall
    <3> SUFFICES ASSUME NEW c \in AdbCallers, adbCalls[c].op # "status"
                 PROVE  \A d, e \in adbCalls[c].used : d = e
      BY DEF Adb!OneDevicePerCall
    <3>1. PICK d : adbCalls[c].used \subseteq {d}
      BY CallIs DEF Steered
    <3> QED BY <3>1
  <2>2. Adb!TypedInOrder
    <3> SUFFICES ASSUME NEW c \in AdbCallers, NEW s \in Serials
                 PROVE  /\ Rising(field[s], c)
                        /\ \E n \in 0..TextLength : Chars(field[s], c) = 1..n
                        /\ adbCalls[c].op = "text" /\ adbCalls[c].outcome = "ok" /\ adbCalls[c].device = s
                              => Chars(field[s], c) = 1..TextLength
      BY DEF Adb!TypedInOrder, Rising, Chars, Marks
    <3>1. PICK n \in 0..TextLength : TypedSoFar(c, n)
      BY DEF AdbInv, TextsOK
    <3>2. 1..0 = {} /\ 0 \in 0..TextLength
      BY AdbAssumption
    <3> QED BY <3>1, <3>2 DEF TypedSoFar
  <2> QED BY <2>1, <2>2
<1> QED BY <1>1, AdbInvariant, PTL

(*************************************************************************)
(* Aiming at a simulator.                                                *)
(*************************************************************************)

AimFields == {"op", "pc", "value", "valueNow", "differs", "shape", "shapeNow", "rotation", "now",
              "reread", "shown"}
Turns == {"none", "ccw", "cw"}
Readings == {1, 3, 4, 5}

\* What an orientation and a frame say of the way the app is turned.
Upright(value, turned) ==
    (value = 1 => turned = "none") /\ (value = 3 => turned = "ccw") /\ (value = 4 => turned = "cw")
Shaped(shape, turned) ==
    /\ shape \in {"unknown", "tall", "wide"}
    /\ (shape = "tall" => turned = "none") /\ (shape = "wide" => turned # "none")

\* A call that has read a turn, and is not mapped yet.
Heals(x) == x.reread /\ x.pc # "send"

AimTyped(x) ==
    /\ x = [i \in AimFields |-> x[i]]
    /\ x.valueNow \in BOOLEAN /\ x.shapeNow \in BOOLEAN /\ x.now \in BOOLEAN
    /\ x.reread \in BOOLEAN /\ x.differs \in BOOLEAN

Aims(x) ==
    /\ AimTyped(x)
    /\ x.valueNow => Upright(x.value, device.turned)
    /\ x.shapeNow => Shaped(x.shape, device.turned)
    /\ x.pc = "orientSeen" => x.value \in Readings
    /\ x.pc # "send" => x.rotation = "none" /\ ~x.now
    /\ x.now => x.rotation = device.turned
    /\ x.pc = "send" /\ x.reread => x.now
    /\ Heals(x) => /\ x.pc \in {"frame", "frameSeen", "map"} /\ x.valueNow /\ x.value \in Readings
                   /\ x.pc # "frame" => x.shapeNow

SimTypes ==
    /\ device = [orientation |-> device.orientation, turned |-> device.turned]
    /\ device.orientation \in Readings /\ device.turned \in Turns
    /\ ios = [c \in SimCallers |-> ios[c]]

\* What is remembered since the app last turned is right.
Remembered ==
    /\ orientationCache = [value |-> orientationCache.value, now |-> orientationCache.now]
    /\ rootFrame = [shape |-> rootFrame.shape, now |-> rootFrame.now]
    /\ lastLandscape = [dir |-> lastLandscape.dir, now |-> lastLandscape.now]
    /\ orientationCache.now \in BOOLEAN /\ rootFrame.now \in BOOLEAN /\ lastLandscape.now \in BOOLEAN
    /\ orientationCache.now => Upright(orientationCache.value, device.turned)
    /\ rootFrame.now => Shaped(rootFrame.shape, device.turned)
    /\ lastLandscape.now => lastLandscape.dir = device.turned

\* While a call that read a turn is under way, no frame of before it is remembered or on its way.
FrameIsNew ==
    /\ rootFrame = Sim!NoFrame \/ rootFrame.now
    /\ \A b \in SimCallers : ios[b].pc = "frameSeen" => ios[b].shapeNow
Healing == (\E c \in SimCallers : Heals(ios[c])) => FrameIsNew

SimInv == SimTypes /\ Remembered /\ Healing /\ \A c \in SimCallers : Aims(ios[c])

-----------------------------------------------------------------------------
\* One call moves.
LEMMA SimMoves ==
    ASSUME SimInv, NEW c \in SimCallers, NEW x, Aims(x), ios' = [ios EXCEPT ![c] = x],
           device' = device, Remembered',
           Heals(x) \/ (\E b \in SimCallers : Heals(ios[b])) =>
              /\ rootFrame' = Sim!NoFrame \/ rootFrame'.now
              /\ x.pc = "frameSeen" => x.shapeNow
              /\ \A b \in SimCallers \ {c} : ios[b].pc = "frameSeen" => ios[b].shapeNow
    PROVE  SimInv'
<1>1. /\ ios'[c] = x /\ ios' = [b \in SimCallers |-> ios'[b]]
      /\ \A b \in SimCallers : b # c => ios'[b] = ios[b]
  BY DEF SimInv, SimTypes
<1>2. (\A b \in SimCallers : Aims(ios[b]))'
  BY <1>1 DEF SimInv, Aims
<1>3. SimTypes'
  BY <1>1 DEF SimInv, SimTypes
<1>4. Healing'
  <2> SUFFICES ASSUME NEW b \in SimCallers, Heals(ios'[b])
               PROVE  FrameIsNew'
    BY DEF Healing
  <2>1. Heals(x) \/ (\E d \in SimCallers : Heals(ios[d]))
    BY <1>1
  <2> QED BY <1>1, <2>1 DEF FrameIsNew, Sim!NoFrame
<1> QED BY <1>2, <1>3, <1>4 DEF SimInv

\* The same, when it remembers nothing, and reads no turn.
LEMMA SimMovesOn ==
    ASSUME SimInv, NEW c \in SimCallers, NEW x, Aims(x), ios' = [ios EXCEPT ![c] = x],
           UNCHANGED <<device, orientationCache, rootFrame, lastLandscape>>,
           Heals(x) => Heals(ios[c]), x.pc = "frameSeen" => x.shapeNow \/ x = ios[c]
    PROVE  SimInv'
<1>1. Remembered'
  BY DEF SimInv, Remembered
<1>2. Heals(x) \/ (\E b \in SimCallers : Heals(ios[b])) => FrameIsNew
  BY DEF SimInv, Healing
<1> QED BY <1>1, <1>2, SimMoves DEF FrameIsNew, Sim!NoFrame

LEMMA IdleAims == Aims(Sim!IdleCall) /\ ~Heals(Sim!IdleCall) /\ Sim!IdleCall.pc = "idle"
BY DEF Aims, AimTyped, Heals, AimFields, Sim!IdleCall

LEMMA AimIs ==
    ASSUME SimInv, NEW c \in SimCallers
    PROVE  Aims(ios[c]) /\ DOMAIN ios[c] = AimFields
BY DEF SimInv, Aims, AimTyped

\* The call is over.
LEMMA RestKeeps ==
    ASSUME SimInv, NEW c \in SimCallers, Sim!Becomes(c, Sim!IdleCall),
           UNCHANGED <<device, orientationCache, rootFrame, lastLandscape>>
    PROVE  SimInv'
<1>1. PICK x : x = Sim!IdleCall
  OBVIOUS
<1>2. Aims(x) /\ ~Heals(x) /\ x.pc # "frameSeen" /\ ios' = [ios EXCEPT ![c] = x]
  BY <1>1, IdleAims DEF Sim!Becomes
<1> QED BY <1>2, SimMovesOn

LEMMA ReadyKeeps ==
    ASSUME SimInv, NEW c \in SimCallers, Sim!EnsureUiDriverReady(c)
    PROVE  SimInv'
<1>1. UNCHANGED <<device, orientationCache, rootFrame, lastLandscape>>
  BY DEF Sim!EnsureUiDriverReady, Sim!caches
<1>2. PICK op \in SimOps[c], ready \in BOOLEAN :
        Sim!Becomes(c, IF ~ready THEN Sim!IdleCall
           ELSE [Sim!IdleCall EXCEPT !.op = op, !.pc = IF op = "inset" THEN "frame" ELSE "orient"])
  BY DEF Sim!EnsureUiDriverReady
<1>3. CASE ~ready
  BY <1>1, <1>2, <1>3, RestKeeps
<1>4. CASE ready
  <2>1. PICK x : x = [Sim!IdleCall EXCEPT !.op = op, !.pc = IF op = "inset" THEN "frame" ELSE "orient"]
    OBVIOUS
  <2>2. /\ x = [i \in AimFields |-> x[i]] /\ x.pc \in {"frame", "orient"} /\ ~x.reread /\ ~x.now
        /\ ~x.valueNow /\ ~x.shapeNow /\ ~x.differs /\ x.rotation = "none"
        /\ x.valueNow \in BOOLEAN /\ x.shapeNow \in BOOLEAN /\ x.now \in BOOLEAN
        /\ x.reread \in BOOLEAN /\ x.differs \in BOOLEAN
    BY <2>1 DEF Sim!IdleCall, AimFields
  <2>3. Aims(x) /\ ~Heals(x) /\ x.pc # "frameSeen"
    BY <2>2 DEF Aims, AimTyped, Heals
  <2>4. ios' = [ios EXCEPT ![c] = x]
    BY <1>2, <1>4, <2>1 DEF Sim!Becomes
  <2> QED BY <1>1, <2>3, <2>4, SimMovesOn
<1> QED BY <1>3, <1>4

-----------------------------------------------------------------------------
(* The orientation.                                                        *)

LEMMA AskKeeps ==
    ASSUME SimInv, NEW c \in SimCallers,
           Sim!UseCachedOrientation(c) \/ Sim!AskOrientation(c) \/ Sim!OrientationUnread(c)
    PROVE  SimInv'
<1>0. /\ Aims(ios[c]) /\ DOMAIN ios[c] = AimFields
      /\ UNCHANGED <<device, orientationCache, rootFrame, lastLandscape>>
  BY AimIs DEF Sim!UseCachedOrientation, Sim!AskOrientation, Sim!OrientationUnread, Sim!caches
<1>1. CASE Sim!UseCachedOrientation(c)
  <2>1. PICK x : x = [ios[c] EXCEPT !.pc = "frame", !.value = orientationCache.value,
                                    !.valueNow = orientationCache.now]
    OBVIOUS
  <2>2. ios' = [ios EXCEPT ![c] = x] /\ ios[c].pc = "orient"
    BY <1>1, <2>1 DEF Sim!UseCachedOrientation, Sim!Becomes
  <2>3. AimTyped(x) /\ x.pc = "frame" /\ x.value = orientationCache.value /\ x.valueNow = orientationCache.now
        /\ x.shape = ios[c].shape /\ x.shapeNow = ios[c].shapeNow /\ x.rotation = ios[c].rotation
        /\ x.now = ios[c].now /\ x.reread = ios[c].reread
    BY <1>0, <2>1 DEF SimInv, Remembered, Aims, AimTyped, AimFields
  <2>4. ~ios[c].reread
    BY <1>0, <2>2 DEF Aims, Heals
  <2>5. Aims(x) /\ ~Heals(x)
    BY <1>0, <2>2, <2>3, <2>4 DEF SimInv, Remembered, Aims, Heals
  <2> QED BY <1>0, <2>2, <2>3, <2>5, SimMovesOn
<1>2. CASE Sim!AskOrientation(c)
  <2>1. PICK x : x = [ios[c] EXCEPT !.pc = "orientSeen", !.value = device.orientation,
                 !.valueNow = Sim!Settled, !.differs = orientationCache.value # device.orientation]
    OBVIOUS
  <2>2. ios' = [ios EXCEPT ![c] = x] /\ ios[c].pc = "orient"
    BY <1>2, <2>1 DEF Sim!AskOrientation, Sim!Becomes
  <2>3. AimTyped(x) /\ x.pc = "orientSeen" /\ x.value = device.orientation /\ x.valueNow = Sim!Settled
        /\ x.shape = ios[c].shape /\ x.shapeNow = ios[c].shapeNow /\ x.rotation = ios[c].rotation
        /\ x.now = ios[c].now /\ x.reread = ios[c].reread
    BY <1>0, <2>1 DEF Aims, AimTyped, AimFields, Sim!Settled
  <2>4. ~ios[c].reread
    BY <1>0, <2>2 DEF Aims, Heals
  <2>5. Sim!Settled => Upright(device.orientation, device.turned)
    BY DEF Sim!Settled, Sim!TurnFor, Upright
  <2>6. device.orientation \in Readings
    BY DEF SimInv, SimTypes
  <2>7. Aims(x) /\ ~Heals(x)
    BY <1>0, <2>2, <2>3, <2>4, <2>5, <2>6 DEF Aims, Heals
  <2> QED BY <1>0, <2>2, <2>3, <2>7, SimMovesOn
<1>3. CASE Sim!OrientationUnread(c)
  <2>1. PICK x : x = [ios[c] EXCEPT !.pc = "frame", !.differs = FALSE, !.value = 0]
    OBVIOUS
  <2>2. ios' = [ios EXCEPT ![c] = x] /\ ios[c].pc = "orientSeen"
    BY <1>3, <2>1 DEF Sim!OrientationUnread, Sim!Becomes
  <2>3. AimTyped(x) /\ x.pc = "frame" /\ x.value = 0 /\ x.valueNow = ios[c].valueNow
        /\ x.shape = ios[c].shape /\ x.shapeNow = ios[c].shapeNow /\ x.rotation = ios[c].rotation
        /\ x.now = ios[c].now /\ x.reread = ios[c].reread
    BY <1>0, <2>1 DEF Aims, AimTyped, AimFields
  <2>4. ~ios[c].reread
    BY <1>0, <2>2 DEF Aims, Heals
  <2>5. Upright(0, device.turned)
    BY DEF Upright
  <2>6. Aims(x) /\ ~Heals(x)
    BY <1>0, <2>2, <2>3, <2>4, <2>5 DEF Aims, Heals
  <2> QED BY <1>0, <2>2, <2>3, <2>6, SimMovesOn
<1> QED BY <1>1, <1>2, <1>3

\* Reading a turn forgets the frame: what is remembered afterwards was read since.
LEMMA OrientedKeeps ==
    ASSUME SimInv, NEW c \in SimCallers, Sim!ReadDeviceOrientation(c)
    PROVE  SimInv'
<1>0. /\ Aims(ios[c]) /\ DOMAIN ios[c] = AimFields /\ ios[c].pc = "orientSeen"
      /\ device' = device /\ lastLandscape' = lastLandscape
      /\ orientationCache' = [value |-> ios[c].value, now |-> ios[c].valueNow]
      /\ rootFrame' = IF ios[c].differs THEN Sim!NoFrame ELSE rootFrame
  BY AimIs DEF Sim!ReadDeviceOrientation, Sim!FrameAfter
<1>1. PICK x : x = [ios[c] EXCEPT !.pc = "frame", !.differs = FALSE,
                      !.reread = ios[c].differs /\ ios[c].valueNow /\ Sim!Probing = {}]
  OBVIOUS
<1>2. ios' = [ios EXCEPT ![c] = x]
  BY <1>1 DEF Sim!ReadDeviceOrientation, Sim!Becomes
<1>3. /\ x = [i \in AimFields |-> x[i]] /\ x.pc = "frame" /\ x.value = ios[c].value
      /\ x.valueNow = ios[c].valueNow /\ x.shape = ios[c].shape /\ x.shapeNow = ios[c].shapeNow
      /\ x.rotation = ios[c].rotation /\ x.now = ios[c].now /\ x.differs = FALSE
      /\ x.reread = (ios[c].differs /\ ios[c].valueNow /\ Sim!Probing = {})
  BY <1>0, <1>1 DEF AimFields
<1>4. AimTyped(x)
  BY <1>0, <1>3 DEF Aims, AimTyped
<1>5. Aims(x)
  BY <1>0, <1>3, <1>4 DEF Aims, Heals
<1>6. Remembered'
  <2>1. CASE ios[c].differs
    BY <1>0, <2>1 DEF SimInv, Remembered, Aims, AimTyped, Sim!NoFrame
  <2>2. CASE ~ios[c].differs
    BY <1>0, <2>2 DEF SimInv, Remembered, Aims, AimTyped
  <2> QED BY <2>1, <2>2
<1>7. ASSUME Heals(x) \/ (\E b \in SimCallers : Heals(ios[b]))
      PROVE  /\ rootFrame' = Sim!NoFrame \/ rootFrame'.now
             /\ \A b \in SimCallers \ {c} : ios[b].pc = "frameSeen" => ios[b].shapeNow
  <2>1. CASE Heals(x)
    <3>1. ios[c].differs /\ Sim!Probing = {}
      BY <1>3, <2>1 DEF Heals
    <3> QED BY <1>0, <3>1 DEF Sim!Probing
  <2>2. CASE \E b \in SimCallers : Heals(ios[b])
    <3>1. FrameIsNew
      BY <2>2 DEF SimInv, Healing
    <3> QED BY <1>0, <3>1 DEF FrameIsNew
  <2> QED BY <1>7, <2>1, <2>2
<1> QED BY <1>0, <1>2, <1>3, <1>5, <1>6, <1>7, SimMoves

-----------------------------------------------------------------------------
(* The frame.                                                              *)

LEMMA FrameKeeps ==
    ASSUME SimInv, NEW c \in SimCallers,
           Sim!UseCachedFrame(c) \/ Sim!AskFrame(c) \/ Sim!ProbeIOSRootFrame(c)
    PROVE  SimInv'
<1>0. /\ Aims(ios[c]) /\ DOMAIN ios[c] = AimFields
      /\ UNCHANGED <<device, orientationCache, lastLandscape>>
  BY AimIs DEF Sim!UseCachedFrame, Sim!AskFrame, Sim!ProbeIOSRootFrame, Sim!caches
<1>1. CASE Sim!UseCachedFrame(c)
  <2>1. PICK x : x = [ios[c] EXCEPT !.pc = "map", !.shape = rootFrame.shape, !.shapeNow = rootFrame.now]
    OBVIOUS
  <2>2. /\ ios' = [ios EXCEPT ![c] = x] /\ ios[c].pc = "frame"
        /\ rootFrame # Sim!NoFrame /\ rootFrame' = rootFrame
    BY <1>1, <2>1 DEF Sim!UseCachedFrame, Sim!Becomes, Sim!caches
  <2>3. AimTyped(x) /\ x.pc = "map" /\ x.value = ios[c].value /\ x.valueNow = ios[c].valueNow
        /\ x.shape = rootFrame.shape /\ x.shapeNow = rootFrame.now /\ x.rotation = ios[c].rotation
        /\ x.now = ios[c].now /\ x.reread = ios[c].reread
    BY <1>0, <2>1 DEF SimInv, Remembered, Aims, AimTyped, AimFields
  <2>4. Heals(x) => Heals(ios[c]) /\ rootFrame.now
    BY <2>2, <2>3 DEF SimInv, Healing, FrameIsNew, Heals
  <2>5. Aims(x)
    BY <1>0, <2>2, <2>3, <2>4 DEF SimInv, Remembered, Aims, Heals
  <2> QED BY <1>0, <2>2, <2>3, <2>4, <2>5, SimMovesOn
<1>2. CASE Sim!AskFrame(c)
  <2>1. PICK shape \in {"unknown", IF device.turned = "none" THEN "tall" ELSE "wide"} :
           Sim!Becomes(c, [ios[c] EXCEPT !.pc = "frameSeen", !.shape = shape, !.shapeNow = TRUE])
    BY <1>2 DEF Sim!AskFrame
  <2>2. PICK x : x = [ios[c] EXCEPT !.pc = "frameSeen", !.shape = shape, !.shapeNow = TRUE]
    OBVIOUS
  <2>3. ios' = [ios EXCEPT ![c] = x] /\ ios[c].pc = "frame" /\ rootFrame' = rootFrame
    BY <1>2, <2>1, <2>2 DEF Sim!AskFrame, Sim!Becomes, Sim!caches
  <2>4. AimTyped(x) /\ x.pc = "frameSeen" /\ x.value = ios[c].value /\ x.valueNow = ios[c].valueNow
        /\ x.shape = shape /\ x.shapeNow = TRUE /\ x.rotation = ios[c].rotation
        /\ x.now = ios[c].now /\ x.reread = ios[c].reread
    BY <1>0, <2>2 DEF Aims, AimTyped, AimFields
  <2>5. Shaped(shape, device.turned)
    BY <2>1 DEF Shaped
  <2>6. Heals(x) => Heals(ios[c])
    BY <2>3, <2>4 DEF Heals
  <2>7. Aims(x)
    BY <1>0, <2>3, <2>4, <2>5 DEF Aims, Heals
  <2> QED BY <1>0, <2>3, <2>4, <2>6, <2>7, SimMovesOn
<1>3. CASE Sim!ProbeIOSRootFrame(c)
  <2>1. PICK x : x = [ios[c] EXCEPT !.pc = "map"]
    OBVIOUS
  <2>2. /\ ios' = [ios EXCEPT ![c] = x] /\ ios[c].pc = "frameSeen"
        /\ rootFrame' = [shape |-> ios[c].shape, now |-> ios[c].shapeNow]
    BY <1>3, <2>1 DEF Sim!ProbeIOSRootFrame, Sim!Becomes
  <2>3. AimTyped(x) /\ x.pc = "map" /\ x.value = ios[c].value /\ x.valueNow = ios[c].valueNow
        /\ x.shape = ios[c].shape /\ x.shapeNow = ios[c].shapeNow /\ x.rotation = ios[c].rotation
        /\ x.now = ios[c].now /\ x.reread = ios[c].reread
    BY <1>0, <2>1 DEF Aims, AimTyped, AimFields
  <2>4. Aims(x)
    BY <1>0, <2>2, <2>3 DEF Aims, Heals
  <2>5. Remembered'
    BY <1>0, <2>2 DEF SimInv, Remembered, Aims, AimTyped
  <2>6. Heals(x) \/ (\E b \in SimCallers : Heals(ios[b])) => FrameIsNew
    <3>1. Heals(x) => Heals(ios[c])
      BY <2>2, <2>3 DEF Heals
    <3> QED BY <3>1 DEF SimInv, Healing
  <2>7. FrameIsNew => rootFrame'.now /\ \A b \in SimCallers \ {c} : ios[b].pc = "frameSeen" => ios[b].shapeNow
    BY <2>2 DEF FrameIsNew
  <2> QED BY <1>0, <2>2, <2>3, <2>4, <2>5, <2>6, <2>7, SimMoves
<1> QED BY <1>1, <1>2, <1>3

\* The mapping: a wide frame asks for a direction, and any other is not turned.
LEMMA RotationKeeps ==
    ASSUME SimInv, NEW c \in SimCallers, Sim!GetUiRotation(c)
    PROVE  SimInv'
<1> DEFINE value == ios[c].value
           dir == Sim!Direction(value)
           dirNow == IF value \in {3, 4} THEN ios[c].valueNow ELSE lastLandscape.now
           shapeRead == ios[c].shape # "unknown" /\ ios[c].shapeNow
           mapped == [ios[c] EXCEPT !.pc = "send", !.value = 0, !.valueNow = FALSE,
                        !.shape = "absent", !.shapeNow = FALSE,
                        !.reread = @ /\ ios[c].shape # "unknown" /\ value # 5]
<1>0. /\ Aims(ios[c]) /\ DOMAIN ios[c] = AimFields /\ ios[c].pc = "map" /\ ios[c].rotation = "none"
      /\ UNCHANGED <<device, orientationCache, rootFrame>>
  BY AimIs DEF Sim!GetUiRotation, Aims
<1>1. /\ mapped = [i \in AimFields |-> mapped[i]] /\ mapped.pc = "send"
      /\ ~mapped.valueNow /\ ~mapped.shapeNow
      /\ mapped.reread = (ios[c].reread /\ ios[c].shape # "unknown" /\ value # 5)
      /\ mapped.rotation = "none" /\ mapped.differs = ios[c].differs
      /\ mapped.valueNow \in BOOLEAN /\ mapped.shapeNow \in BOOLEAN
  BY <1>0 DEF AimFields
<1>2. dirNow \in BOOLEAN /\ shapeRead \in BOOLEAN /\ mapped.reread \in BOOLEAN /\ ios[c].differs \in BOOLEAN
  BY <1>0, <1>1 DEF SimInv, Remembered, Aims, AimTyped
<1>3. dirNow => dir = device.turned
  <2>1. CASE value \in {3, 4}
    BY <1>0, <2>1 DEF Aims, Upright, Sim!Direction
  <2>2. CASE value \notin {3, 4}
    BY <2>2 DEF SimInv, Remembered, SimTypes, Turns, Sim!Direction
  <2> QED BY <2>1, <2>2
<1>4. mapped.reread => /\ ios[c].shapeNow /\ ios[c].shape # "unknown" /\ ios[c].valueNow
                       /\ value \in {1, 3, 4} /\ Upright(value, device.turned)
                       /\ Shaped(ios[c].shape, device.turned)
  BY <1>0, <1>1 DEF Aims, Heals, Readings
<1>5. CASE ios[c].shape = "wide"
  <2>1. PICK x : x = [mapped EXCEPT !.rotation = dir, !.now = shapeRead /\ dirNow]
    OBVIOUS
  <2>2. ios' = [ios EXCEPT ![c] = x] /\ lastLandscape' = [dir |-> dir, now |-> dirNow]
    BY <1>5, <2>1 DEF Sim!GetUiRotation, Sim!Becomes
  <2> HIDE DEF mapped, shapeRead, dirNow, dir
  <2>3. AimTyped(x) /\ x.pc = "send" /\ ~x.valueNow /\ ~x.shapeNow /\ x.reread = mapped.reread
        /\ x.rotation = dir /\ x.now = (shapeRead /\ dirNow)
    BY <1>1, <1>2, <2>1 DEF AimTyped, AimFields
  <2>4. x.reread => x.now
    <3>1. mapped.reread => device.turned # "none"
      BY <1>4, <1>5 DEF Shaped
    <3>2. mapped.reread => value \in {3, 4}
      BY <1>4, <3>1 DEF Upright
    <3> QED BY <1>4, <2>3, <3>2 DEF shapeRead, dirNow
  <2>5. Aims(x) /\ ~Heals(x)
    BY <1>3, <2>3, <2>4 DEF Aims, Heals
  <2>6. Remembered'
    BY <1>0, <1>2, <1>3, <2>2 DEF SimInv, Remembered
  <2>7. (\E b \in SimCallers : Heals(ios[b])) => FrameIsNew
    BY DEF SimInv, Healing
  <2> QED BY <1>0, <2>2, <2>3, <2>5, <2>6, <2>7, SimMoves DEF FrameIsNew, Sim!NoFrame
<1>6. CASE ios[c].shape # "wide"
  <2>1. PICK x : x = [mapped EXCEPT !.now = shapeRead]
    OBVIOUS
  <2>2. ios' = [ios EXCEPT ![c] = x] /\ lastLandscape' = lastLandscape
    BY <1>6, <2>1 DEF Sim!GetUiRotation, Sim!Becomes
  <2> HIDE DEF mapped, dirNow, dir
  <2>3. AimTyped(x) /\ x.pc = "send" /\ ~x.valueNow /\ ~x.shapeNow /\ x.reread = mapped.reread
        /\ x.rotation = "none" /\ x.now = shapeRead
    BY <1>1, <1>2, <2>1 DEF AimTyped, AimFields
  <2>4. shapeRead => device.turned = "none"
    BY <1>0, <1>6 DEF Aims, Shaped
  <2>5. x.reread => x.now
    BY <1>4, <2>3
  <2>6. Aims(x) /\ ~Heals(x)
    BY <2>3, <2>4, <2>5 DEF Aims, Heals
  <2> QED BY <1>0, <2>2, <2>3, <2>6, SimMovesOn
<1> QED BY <1>5, <1>6

LEMMA CaptureKeepsAim ==
    ASSUME SimInv, NEW c \in SimCallers, Sim!Capture(c)
    PROVE  SimInv'
<1>0. /\ Aims(ios[c]) /\ DOMAIN ios[c] = AimFields
      /\ UNCHANGED <<device, orientationCache, rootFrame, lastLandscape>>
  BY AimIs DEF Sim!Capture, Sim!caches
<1>1. PICK x : x = [ios[c] EXCEPT !.shown = "now"]
  OBVIOUS
<1>2. ios' = [ios EXCEPT ![c] = x]
  BY <1>1 DEF Sim!Capture, Sim!Becomes
<1>3. AimTyped(x) /\ x.pc = ios[c].pc /\ x.value = ios[c].value /\ x.valueNow = ios[c].valueNow
      /\ x.shape = ios[c].shape /\ x.shapeNow = ios[c].shapeNow /\ x.rotation = ios[c].rotation
      /\ x.now = ios[c].now /\ x.reread = ios[c].reread
  BY <1>0, <1>1 DEF Aims, AimTyped, AimFields
<1>4. Aims(x) /\ (Heals(x) => Heals(ios[c]))
  BY <1>0, <1>3 DEF Aims, Heals
<1>5. Remembered'
  BY <1>0 DEF SimInv, Remembered
<1>6. Heals(x) \/ (\E b \in SimCallers : Heals(ios[b])) => FrameIsNew
  BY <1>4 DEF SimInv, Healing
<1> QED BY <1>0, <1>2, <1>3, <1>4, <1>5, <1>6, SimMoves DEF FrameIsNew, Sim!NoFrame

-----------------------------------------------------------------------------
(* The device and the app.                                                 *)

LEMMA DeviceTurnsKeeps ==
    ASSUME SimInv, Sim!DeviceTurns
    PROVE  SimInv'
<1>1. PICK o \in Readings : device' = [device EXCEPT !.orientation = o]
  BY DEF Sim!DeviceTurns, Readings
<1>2. UNCHANGED <<orientationCache, rootFrame, lastLandscape, ios>>
  BY DEF Sim!DeviceTurns, Sim!caches
<1>3. /\ device' = [orientation |-> device'.orientation, turned |-> device'.turned]
      /\ device'.orientation \in Readings /\ device'.turned = device.turned
  BY <1>1 DEF SimInv, SimTypes
<1>4. SimTypes'
  BY <1>2, <1>3 DEF SimInv, SimTypes
<1>5. Remembered'
  BY <1>2, <1>3 DEF SimInv, Remembered
<1>6. Healing'
  BY <1>2 DEF SimInv, Healing, FrameIsNew
<1>7. (\A c \in SimCallers : Aims(ios[c]))'
  BY <1>2, <1>3 DEF SimInv, Aims
<1> QED BY <1>4, <1>5, <1>6, <1>7 DEF SimInv

\* Nothing read before the app turned counts as read since.
LEMMA AppTurnsKeeps ==
    ASSUME SimInv, Sim!AppTurns
    PROVE  SimInv'
<1>1. /\ device' = [device EXCEPT !.turned = Sim!TurnFor(device.orientation, device.turned)]
      /\ orientationCache' = [orientationCache EXCEPT !.now = FALSE]
      /\ rootFrame' = [rootFrame EXCEPT !.now = FALSE]
      /\ lastLandscape' = [lastLandscape EXCEPT !.now = FALSE]
      /\ ios' = [c \in SimCallers |-> [ios[c] EXCEPT !.valueNow = FALSE, !.shapeNow = FALSE,
                    !.now = FALSE, !.reread = FALSE, !.shown = IF @ = "absent" THEN @ ELSE "before"]]
  BY DEF Sim!AppTurns
<1>2. SimTypes'
  <2>1. Sim!TurnFor(device.orientation, device.turned) \in Turns
    BY DEF SimInv, SimTypes, Readings, Turns, Sim!TurnFor
  <2> QED BY <1>1, <2>1 DEF SimInv, SimTypes
<1>3. Remembered'
  <2>1. /\ orientationCache' = [value |-> orientationCache'.value, now |-> orientationCache'.now]
        /\ ~orientationCache'.now
    BY <1>1 DEF SimInv, Remembered
  <2>2. rootFrame' = [shape |-> rootFrame'.shape, now |-> rootFrame'.now] /\ ~rootFrame'.now
    BY <1>1 DEF SimInv, Remembered
  <2>3. lastLandscape' = [dir |-> lastLandscape'.dir, now |-> lastLandscape'.now] /\ ~lastLandscape'.now
    BY <1>1 DEF SimInv, Remembered
  <2>4. orientationCache'.now \in BOOLEAN /\ rootFrame'.now \in BOOLEAN /\ lastLandscape'.now \in BOOLEAN
    BY <1>1 DEF SimInv, Remembered
  <2> QED BY <2>1, <2>2, <2>3, <2>4 DEF Remembered
<1>4. ASSUME NEW c \in SimCallers
      PROVE  /\ AimTyped(ios'[c]) /\ ios'[c].valueNow = FALSE /\ ios'[c].shapeNow = FALSE
             /\ ios'[c].now = FALSE /\ ios'[c].reread = FALSE /\ ios'[c].pc = ios[c].pc
             /\ ios'[c].value = ios[c].value /\ ios'[c].rotation = ios[c].rotation
  <2>1. Aims(ios[c]) /\ DOMAIN ios[c] = AimFields
    BY AimIs
  <2>2. PICK x : x = [ios[c] EXCEPT !.valueNow = FALSE, !.shapeNow = FALSE, !.now = FALSE,
                        !.reread = FALSE, !.shown = IF @ = "absent" THEN @ ELSE "before"]
    OBVIOUS
  <2>3. /\ AimTyped(x) /\ x.valueNow = FALSE /\ x.shapeNow = FALSE /\ x.now = FALSE
        /\ x.reread = FALSE /\ x.pc = ios[c].pc
        /\ x.value = ios[c].value /\ x.rotation = ios[c].rotation
    BY <2>1, <2>2 DEF Aims, AimTyped, AimFields
  <2>4. ios'[c] = x
    BY <1>1, <2>2
  <2> QED BY <2>3, <2>4
<1>5. (\A c \in SimCallers : Aims(ios[c]))'
  <2>1. \A c \in SimCallers : Aims(ios[c])
    BY DEF SimInv
  <2> QED BY <1>4, <2>1 DEF Aims, Heals, AimTyped
<1>6. Healing'
  BY <1>4 DEF Healing, Heals
<1> QED BY <1>2, <1>3, <1>5, <1>6 DEF SimInv

LEMMA SimStep ==
    ASSUME SimInv, Sim!Next
    PROVE  SimInv'
<1>1. ASSUME NEW c \in SimCallers,
             \/ Sim!GetIOSSafeAreaTop(c) \/ Sim!IosTap(c) \/ Sim!IosSwipe(c) \/ Sim!SendFails(c)
             \/ Sim!IosScreenshot(c)
      PROVE  SimInv'
  <2>1. Sim!Becomes(c, Sim!IdleCall) /\ UNCHANGED <<device, orientationCache, rootFrame, lastLandscape>>
    BY <1>1 DEF Sim!GetIOSSafeAreaTop, Sim!IosTap, Sim!IosSwipe, Sim!SendFails, Sim!IosScreenshot, Sim!caches
  <2> QED BY <2>1, RestKeeps
<1> QED BY <1>1, DeviceTurnsKeeps, AppTurnsKeeps, ReadyKeeps, AskKeeps, OrientedKeeps, FrameKeeps,
           RotationKeeps, CaptureKeepsAim DEF Sim!Next

LEMMA SimInitially ==
    ASSUME DevicesInit
    PROVE  SimInv
<1>1. /\ orientationCache = Sim!NoOrientation /\ rootFrame = Sim!NoFrame
      /\ lastLandscape = [dir |-> "absent", now |-> FALSE]
      /\ ios = [c \in SimCallers |-> Sim!IdleCall]
  BY DEF DevicesInit, Sim!Init, SimOff
<1>2. \E o \in {1, 3, 4, 5}, t \in {"none", "ccw", "cw"} :
         device = [orientation |-> o, turned |-> Sim!TurnFor(o, t)]
  <2>1. Sim!TurnFor(1, "none") = "none"
    BY DEF Sim!TurnFor
  <2>2. device = [orientation |-> 1, turned |-> "none"]
           \/ \E o \in {1, 3, 4, 5}, t \in {"none", "ccw", "cw"} :
                 device = [orientation |-> o, turned |-> Sim!TurnFor(o, t)]
    BY DEF DevicesInit, Sim!Init, SimOff
  <2> QED BY <2>1, <2>2
<1>3. SimTypes
  <2>1. \A o \in {1, 3, 4, 5}, t \in {"none", "ccw", "cw"} : Sim!TurnFor(o, t) \in Turns
    BY DEF Sim!TurnFor, Turns
  <2> QED BY <1>1, <1>2, <2>1 DEF SimTypes, Readings
<1>4. Remembered
  BY <1>1 DEF Remembered, Sim!NoOrientation, Sim!NoFrame
<1>5. Healing /\ \A c \in SimCallers : Aims(ios[c])
  BY <1>1, IdleAims DEF Healing
<1> QED BY <1>3, <1>4, <1>5 DEF SimInv

\* Whatever turns, expires, fails or runs beside it: the invariant of the simulator's readings.
THEOREM SimInvariant == DevicesSpec => []SimInv
<1>1. DevicesInit => SimInv
  BY SimInitially
<1>2. SimInv /\ [DevicesNext]_allVars => SimInv'
  <2> SUFFICES ASSUME SimInv, [DevicesNext]_allVars
               PROVE  SimInv'
    OBVIOUS
  <2>1. CASE Sim!Next
    BY <2>1, SimStep
  <2>2. CASE UNCHANGED simVars
    <3>1. UNCHANGED <<device, orientationCache, rootFrame, lastLandscape, ios>>
      BY <2>2 DEF simVars
    <3>2. SimTypes' /\ Remembered'
      BY <3>1 DEF SimInv, SimTypes, Remembered
    <3>3. Healing'
      BY <3>1 DEF SimInv, Healing, FrameIsNew
    <3>4. (\A c \in SimCallers : Aims(ios[c]))'
      BY <3>1 DEF SimInv, Aims
    <3> QED BY <3>2, <3>3, <3>4 DEF SimInv
  <2> QED BY <2>1, <2>2 DEF DevicesNext, allVars
<1> QED BY <1>1, <1>2, PTL DEF DevicesSpec

\* Mapping a point to the native frame and back is no change.
LEMMA ThereAndBack ==
    ASSUME NEW p \in Nat \X Nat, NEW turned \in Turns
    PROVE  Sim!LandsAt(Sim!ToNativePoint(p, turned), turned) = p
<1>1. p = <<p[1], p[2]>> /\ p[1] \in Nat /\ p[2] \in Nat
  OBVIOUS
<1>2. CASE turned = "none"
  BY <1>2 DEF Sim!LandsAt, Sim!ToNativePoint
<1>3. CASE turned = "ccw"
  <2>1. Sim!ToNativePoint(p, turned) = <<Sim!Short - p[2], p[1]>>
    BY <1>3 DEF Sim!ToNativePoint
  <2>2. Sim!LandsAt(<<Sim!Short - p[2], p[1]>>, turned) = <<p[1], Sim!Short - (Sim!Short - p[2])>>
    BY <1>3 DEF Sim!LandsAt
  <2>3. Sim!Short - (Sim!Short - p[2]) = p[2]
    BY <1>1 DEF Sim!Short
  <2> QED BY <1>1, <2>1, <2>2, <2>3
<1>4. CASE turned = "cw"
  <2>1. Sim!ToNativePoint(p, turned) = <<p[2], Sim!Long - p[1]>>
    BY <1>4 DEF Sim!ToNativePoint
  <2>2. Sim!LandsAt(<<p[2], Sim!Long - p[1]>>, turned) = <<Sim!Long - (Sim!Long - p[1]), p[2]>>
    BY <1>4 DEF Sim!LandsAt
  <2>3. Sim!Long - (Sim!Long - p[1]) = p[1]
    BY <1>1 DEF Sim!Long
  <2> QED BY <1>1, <2>1, <2>2, <2>3
<1> QED BY <1>2, <1>3, <1>4 DEF Turns

\* A call mapped by readings taken since the app last turned gestures where it was aimed, and
\* captures upright; one that read the turn is such a call.
LEMMA AimsRight ==
    ASSUME SimInv
    PROVE  Sim!AimTrue /\ Sim!RereadHeals
<1>1. ASSUME NEW c \in SimCallers, ios[c].now
      PROVE  Sim!Right(c)
  <2>1. ios[c].rotation = device.turned /\ device.turned \in Turns
    BY <1>1, AimIs DEF Aims, SimInv, SimTypes
  <2>2. \A p \in Points : Sim!Lands(c, p)
    BY <2>1, ThereAndBack, PointsAssumption DEF Sim!Lands
  <2> QED BY <2>1, <2>2 DEF Sim!Right
<1>2. \A c \in SimCallers : ios[c].pc = "send" /\ ios[c].reread => ios[c].now
  BY DEF SimInv, Aims
<1> QED BY <1>1, <1>2 DEF Sim!AimTrue, Sim!RereadHeals

(*************************************************************************)
(* Finding in an accessibility dump.                                     *)
(*************************************************************************)

LEMMA LeastNumber ==
    ASSUME NEW S, S \subseteq Nat, S # {}
    PROVE  \E n \in S : \A i \in S : n <= i
<1>1. PICK n \in S : \A i \in S : <<i, n>> \notin OpToRel(<, Nat)
  BY NatLessThanWellFounded, WFMin
<1>2. \A i \in S : ~(i < n)
  BY <1>1 DEF OpToRel
<1> QED BY <1>2

\* Some of the first numbers are finitely many.
LEMMA FewOfMany ==
    ASSUME NEW m \in Nat, NEW S, S \subseteq 1..m
    PROVE  IsFiniteSet(S) /\ Cardinality(S) \in Nat
<1>1. IsFiniteSet(1..m)
  BY FS_Interval
<1> QED BY <1>1, FS_Subset, FS_CardinalityType

\* Among the first numbers, one of each rank up to their number.
LEMMA RankIsTaken ==
    ASSUME NEW m \in Nat, NEW S, S \subseteq 1..m, NEW n \in 1..Cardinality(S)
    PROVE  \E i \in S : Cardinality({j \in S : j <= i}) = n
<1> DEFINE UpTo(k) == {j \in S : j <= k}
           T == {k \in Nat : n <= Cardinality(UpTo(k))}
<1>1. IsFiniteSet(S) /\ Cardinality(S) \in Nat
  BY FewOfMany
<1>2. \A k : Cardinality(UpTo(k)) \in Nat /\ IsFiniteSet(UpTo(k))
  BY <1>1, FS_Subset, FS_CardinalityType
<1>3. \A i \in S : i \in Nat /\ 1 <= i /\ i <= m
  OBVIOUS
<1>4. m \in T
  <2>1. UpTo(m) = S
    BY <1>3
  <2> QED BY <1>1, <2>1
<1>5. PICK k \in T : \A j \in T : k <= j
  <2>1. T \subseteq Nat
    OBVIOUS
  <2> HIDE DEF T
  <2> QED BY <1>4, <2>1, LeastNumber
<1>6. k \in Nat /\ n <= Cardinality(UpTo(k))
  OBVIOUS
<1>7. k # 0
  <2>1. \A i \in S : ~(i <= 0)
    BY <1>3
  <2>2. UpTo(0) = {}
    BY <2>1
  <2>3. Cardinality(UpTo(0)) = 0
    BY <2>2, FS_EmptySet
  <2> QED BY <1>6, <2>3
<1>8. k - 1 \in Nat /\ k - 1 \notin T
  <2>1. k - 1 \in Nat /\ ~(k <= k - 1)
    BY <1>6, <1>7
  <2> HIDE DEF T
  <2> QED BY <1>5, <2>1
<1>9. ~(n <= Cardinality(UpTo(k - 1)))
  BY <1>8
<1>10. \A i \in S : i <= k <=> i <= k - 1 \/ i = k
  BY <1>3, <1>6
<1>11. k \in S
  <2> SUFFICES ASSUME k \notin S
               PROVE  FALSE
    OBVIOUS
  <2>1. UpTo(k) = UpTo(k - 1)
    BY <1>10
  <2> QED BY <1>6, <1>9, <2>1
<1>12. Cardinality(UpTo(k)) = Cardinality(UpTo(k - 1)) + 1
  <2>0. ~(k <= k - 1)
    BY <1>6
  <2>1. UpTo(k) = UpTo(k - 1) \cup {k} /\ k \notin UpTo(k - 1)
    BY <1>10, <1>11, <2>0
  <2>2. IsFiniteSet(UpTo(k - 1))
    BY <1>2
  <2> HIDE DEF UpTo
  <2> QED BY <2>1, <2>2, FS_AddElement
<1> HIDE DEF T, UpTo
<1>13. Cardinality(UpTo(k)) = n
  <2>1. PICK a : a = Cardinality(UpTo(k))
    OBVIOUS
  <2>2. PICK b : b = Cardinality(UpTo(k - 1))
    OBVIOUS
  <2>3. a \in Nat /\ b \in Nat /\ a = b + 1 /\ n <= a /\ ~(n <= b)
    BY <1>2, <1>6, <1>9, <1>12, <2>1, <2>2
  <2>4. n \in Nat
    BY <1>1
  <2>5. a = n
    BY <2>3, <2>4
  <2> QED BY <2>1, <2>5
<1> QED BY <1>11, <1>13 DEF UpTo

LEMMA SameCount == \A S : Finder!Cardinality(S) = Cardinality(S)
BY DEF Finder!Cardinality, Cardinality

\* The n-th of places of a dump, when there are as many.
LEMMA NthIsThere ==
    ASSUME NEW m \in Nat, NEW S, S \subseteq 1..m, NEW n \in 1..Cardinality(S)
    PROVE  Finder!Nth(S, n) \in S
BY RankIsTaken, SameCount DEF Finder!Nth

-----------------------------------------------------------------------------
IsDump(dump) == \E n \in Nat : DOMAIN dump = 1..n

LEMMA NoDump == IsDump(<<>>)
<1>1. DOMAIN <<>> = 1..0
  OBVIOUS
<1> QED BY <1>1 DEF IsDump

\* What answers is counted, and nothing is off the screen that need not be.
LEMMA WhatIsFound ==
    ASSUME NEW platform \in {"ios", "android"}, NEW dump, IsDump(dump), NEW pass, NEW index,
           NEW i \in Finder!FindElement(platform, dump, pass, index)
    PROVE  /\ i \in DOMAIN dump /\ Finder!Matches(platform, dump[i], pass)
           /\ platform = "ios" /\ dump[i].rollup => pass \notin Finder!Partial
           /\ dump[i].inView \/ \A j \in DOMAIN dump :
                 dump[j].inView => ~Finder!Matches(platform, dump[j], pass)
<1>1. i \in Finder!VisibleFirst(platform, dump, pass)
  BY DEF Finder!FindElement, Finder!IosMatches, Finder!AndroidMatches
<1>2. platform = "ios" /\ pass \in Finder!Partial => ~dump[i].rollup
  BY DEF Finder!FindElement, Finder!IosMatches
<1>3. /\ i \in DOMAIN dump /\ Finder!Matches(platform, dump[i], pass)
      /\ dump[i].inView \/ \A j \in DOMAIN dump :
            dump[j].inView => ~Finder!Matches(platform, dump[j], pass)
  BY <1>1 DEF Finder!VisibleFirst
<1> QED BY <1>2, <1>3

\* Asked for no number, the finder returns what matches; asked for one, that or nothing.
LEMMA Counted ==
    ASSUME NEW platform \in {"ios", "android"}, NEW dump, IsDump(dump), NEW pass, NEW n \in Nat
    PROVE  LET all == Finder!FindElement(platform, dump, pass, 0)
           IN  /\ IsFiniteSet(all) /\ all \subseteq DOMAIN dump
               /\ Finder!FindElement(platform, dump, pass, n) \in {all, {}}
               /\ n <= Cardinality(all) => Finder!FindElement(platform, dump, pass, n) = all
<1> DEFINE hits == IF platform = "ios" THEN Finder!IosMatches(dump, pass)
                   ELSE Finder!AndroidMatches(dump, pass)
<1>1. hits \subseteq DOMAIN dump
  BY DEF Finder!IosMatches, Finder!AndroidMatches, Finder!VisibleFirst
<1>2. IsFiniteSet(hits) /\ Cardinality(hits) \in Nat
  BY <1>1, FewOfMany DEF IsDump
<1>3. \A k \in Nat : Finder!FindElement(platform, dump, pass, k) = IF k > Cardinality(hits) THEN {} ELSE hits
  BY SameCount DEF Finder!FindElement
<1> HIDE DEF hits
<1>4. Finder!FindElement(platform, dump, pass, 0) = hits
  BY <1>2, <1>3
<1> QED BY <1>1, <1>2, <1>3, <1>4

\* What is chosen of what answers.
LEMMA ChosenIsThere ==
    ASSUME NEW dump, IsDump(dump), NEW hits, hits \subseteq DOMAIN dump, NEW index \in Nat
    PROVE  LET distinct == Finder!CollapseEquivalent(dump, hits)
               answer   == Finder!Chosen(dump, hits, index)
           IN  /\ distinct \subseteq hits /\ IsFiniteSet(hits) /\ IsFiniteSet(distinct)
               /\ answer.verdict = "tap" => answer.element \in hits
               /\ answer.verdict = "ambiguous" => index = 0 /\ answer.list = distinct
               /\ index \in 1..Cardinality(distinct) => answer = Finder!Taps(Finder!Nth(distinct, index))
<1> DEFINE distinct == Finder!CollapseEquivalent(dump, hits)
           number == IF index = 0 THEN 1 ELSE index
           answer == Finder!Chosen(dump, hits, index)
<1>0. PICK m \in Nat : DOMAIN dump = 1..m
  BY DEF IsDump
<1>1. distinct \subseteq hits
  BY DEF Finder!CollapseEquivalent
<1>2. IsFiniteSet(hits) /\ IsFiniteSet(distinct) /\ Cardinality(distinct) \in Nat
  BY <1>0, <1>1, FewOfMany
<1>3. answer = IF index = 0 /\ Cardinality(distinct) # 1
               THEN [Finder!Verdict("ambiguous") EXCEPT !.list = distinct]
               ELSE IF number <= Cardinality(distinct) THEN Finder!Taps(Finder!Nth(distinct, number))
                    ELSE Finder!Verdict("none")
  BY SameCount DEF Finder!Chosen, Finder!NoIndex
<1> HIDE DEF answer, distinct
<1>4. CASE index = 0 /\ Cardinality(distinct) # 1
  <2>1. answer = [Finder!Verdict("ambiguous") EXCEPT !.list = distinct]
    BY <1>3, <1>4
  <2>2. answer.verdict = "ambiguous" /\ answer.list = distinct
    BY <2>1 DEF Finder!Verdict
  <2> QED BY <1>1, <1>2, <1>4, <2>2 DEF answer, distinct
<1>5. CASE ~(index = 0 /\ Cardinality(distinct) # 1) /\ number <= Cardinality(distinct)
  <2>1. answer = Finder!Taps(Finder!Nth(distinct, number))
    BY <1>3, <1>5
  <2>2. Finder!Nth(distinct, number) \in distinct
    <3>1. number \in 1..Cardinality(distinct) /\ distinct \subseteq 1..m
      BY <1>0, <1>1, <1>2, <1>5
    <3> QED BY <3>1, NthIsThere
  <2>3. answer.verdict = "tap" /\ answer.element = Finder!Nth(distinct, number)
    BY <2>1 DEF Finder!Taps
  <2> QED BY <1>1, <1>2, <2>1, <2>2, <2>3 DEF answer, distinct
<1>6. CASE ~(index = 0 /\ Cardinality(distinct) # 1) /\ ~(number <= Cardinality(distinct))
  <2>1. answer = Finder!Verdict("none")
    BY <1>3, <1>6
  <2>2. answer.verdict = "none"
    BY <2>1 DEF Finder!Verdict
  <2>3. ~(index \in 1..Cardinality(distinct))
    BY <1>2, <1>6
  <2> QED BY <1>1, <1>2, <2>2, <2>3 DEF answer, distinct
<1> QED BY <1>4, <1>5, <1>6

-----------------------------------------------------------------------------
FindFields == {"platform", "op", "want", "index", "phase", "dump", "pass", "polls", "answer"}
PassesNow == Finder!Passes(find.platform, find.want)

FindTypes ==
    /\ find = [i \in FindFields |-> find[i]]
    /\ find.platform \in {"ios", "android"} /\ find.want \in {"text", "testID"} /\ find.index \in Nat
    /\ IsDump(find.dump)

\* The passes before this one have found nothing in this dump.
PassedOver ==
    /\ find.pass \in 1..Len(PassesNow)
    /\ find.phase = "dump" \/ find.op # "tap" => find.pass = 1
    /\ \A p \in 1..(find.pass - 1) :
          Finder!FindElement(find.platform, find.dump, PassesNow[p], find.index) = {}

FindInv == FindTypes /\ PassedOver /\ Finder!PressesTheNamed /\ Finder!IndexAsListed

LEMMA PassesAre ==
    ASSUME NEW platform \in {"ios", "android"}, NEW want \in {"text", "testID"}
    PROVE  /\ Len(Finder!Passes(platform, want)) \in 1..3
           /\ DOMAIN Finder!Passes(platform, want) = 1..Len(Finder!Passes(platform, want))
<1>1. CASE platform = "ios" /\ want = "text"
  BY <1>1 DEF Finder!Passes
<1>2. CASE platform = "ios" /\ want = "testID"
  BY <1>2 DEF Finder!Passes
<1>3. CASE platform = "android" /\ want = "text"
  BY <1>3 DEF Finder!Passes
<1>4. CASE platform = "android" /\ want = "testID"
  BY <1>4 DEF Finder!Passes
<1> QED BY <1>1, <1>2, <1>3, <1>4

\* A step that names nothing to tap and lists nothing.
LEMMA NamesNothing ==
    ASSUME FindInv, NEW x, x = [i \in FindFields |-> x[i]], find' = x,
           x.platform = find.platform, x.want = find.want, x.index = find.index, IsDump(x.dump),
           x.op = find.op, x.phase # "end" \/ x.op # "tap" \/ x.answer.verdict \notin {"tap", "ambiguous"},
           \/ x.pass = find.pass /\ (x.pass = 1 \/ x.dump = find.dump)
           \/ x.phase # "dump" /\ x.op = "tap" /\ x.dump = find.dump /\ x.pass = find.pass + 1
                 /\ x.pass <= Len(PassesNow)
                 /\ Finder!FindElement(find.platform, find.dump, PassesNow[find.pass], find.index) = {},
           x.phase = "dump" \/ x.op # "tap" => x.pass = 1
    PROVE  FindInv'
<1>1. FindTypes'
  BY DEF FindInv, FindTypes
<1>2. PassesNow' = PassesNow /\ Len(PassesNow) \in 1..3
  BY PassesAre DEF FindInv, FindTypes, PassesNow
<1>3. PassedOver'
  <2>1. CASE x.pass = find.pass /\ x.pass = 1
    BY <1>2, <2>1 DEF FindInv, PassedOver
  <2>2. CASE x.pass = find.pass /\ x.dump = find.dump
    BY <1>2, <2>2 DEF FindInv, PassedOver
  <2>3. CASE /\ x.pass = find.pass + 1 /\ x.pass <= Len(PassesNow) /\ x.dump = find.dump
             /\ x.phase # "dump" /\ x.op = "tap"
             /\ Finder!FindElement(find.platform, find.dump, PassesNow[find.pass], find.index) = {}
    <3>1. x.pass \in 1..Len(PassesNow) /\ \A p \in 1..(x.pass - 1) : p \in 1..(find.pass - 1) \/ p = find.pass
      BY <1>2, <2>3 DEF FindInv, PassedOver
    <3> QED BY <1>2, <2>3, <3>1 DEF FindInv, PassedOver
  <2> QED BY <2>1, <2>2, <2>3
<1>4. Finder!PressesTheNamed' /\ Finder!IndexAsListed'
  BY DEF Finder!PressesTheNamed, Finder!IndexAsListed, Finder!Tapped
<1> QED BY <1>1, <1>3, <1>4 DEF FindInv

\* What the tap chooses of what the query finds is what it names, and what it lists can be
\* asked for by number.
LEMMA SearchKeeps ==
    ASSUME FindInv, Finder!Search
    PROVE  FindInv'
<1> DEFINE pass == PassesNow[find.pass]
           hits == Finder!FindElement(find.platform, find.dump, pass, find.index)
           answer == Finder!Chosen(find.dump, hits, find.index)
<1>1. PICK x : x = [find EXCEPT !.phase = "end", !.answer = answer]
  OBVIOUS
<1>2. find' = x /\ find.phase = "search" /\ find.op = "tap" /\ hits # {}
  BY <1>1 DEF Finder!Search, Finder!Hits, Finder!Ended, PassesNow
<1>3. /\ x = [i \in FindFields |-> x[i]] /\ x.phase = "end" /\ x.op = "tap" /\ x.answer = answer
      /\ x.dump = find.dump /\ x.platform = find.platform /\ x.want = find.want
      /\ x.index = find.index /\ x.pass = find.pass
  <2>1. DOMAIN find = FindFields
    BY DEF FindInv, FindTypes
  <2> HIDE DEF answer
  <2> QED BY <1>1, <1>2, <2>1 DEF FindFields
<1>4. /\ find.platform \in {"ios", "android"} /\ find.want \in {"text", "testID"} /\ find.index \in Nat
      /\ IsDump(find.dump) /\ find.pass \in 1..Len(PassesNow)
      /\ DOMAIN PassesNow = 1..Len(PassesNow) /\ Len(PassesNow) \in 1..3
  BY PassesAre DEF FindInv, FindTypes, PassedOver, PassesNow
<1>5. PassesNow' = PassesNow
  BY <1>2, <1>3 DEF PassesNow
<1>6. FindTypes' /\ PassedOver'
  BY <1>2, <1>3, <1>5 DEF FindInv, FindTypes, PassedOver
<1>7. hits \subseteq DOMAIN find.dump
  BY <1>4, WhatIsFound
<1>8. /\ answer.verdict = "tap" => answer.element \in hits
      /\ answer.verdict = "ambiguous" => find.index = 0 /\ answer.list = Finder!CollapseEquivalent(find.dump, hits)
  <2>1. find.index \in Nat /\ IsDump(find.dump)
    BY <1>4
  <2> HIDE DEF pass, hits
  <2> QED BY <1>7, <2>1, ChosenIsThere, Zenon
<1>9. Finder!PressesTheNamed'
  <2> SUFFICES ASSUME answer.verdict = "tap"
               PROVE  LET at == answer.element
                      IN  /\ at \in DOMAIN find.dump
                          /\ Finder!Matches(find.platform, find.dump[at], pass)
                          /\ find.platform = "ios" /\ find.dump[at].rollup => pass \notin Finder!Partial
                          /\ find.dump[at].inView \/ \A i \in DOMAIN find.dump : 
                                find.dump[i].inView /\ Finder!Matches(find.platform, find.dump[i], pass) =>
                                   find.platform = "ios" /\ pass \in Finder!Partial /\ find.dump[i].rollup
    BY <1>2, <1>3 DEF Finder!PressesTheNamed, Finder!Tapped, PassesNow
  <2>1. answer.element \in hits
    BY <1>8
  <2> HIDE DEF answer
  <2> QED BY <1>4, <2>1, WhatIsFound
<1>10. Finder!IndexAsListed'
  <2> DEFINE distinct == Finder!CollapseEquivalent(find.dump, hits)
             Answers(p, n) == Finder!FindElement(find.platform, find.dump, PassesNow[p], n)
  <2> SUFFICES ASSUME answer.verdict = "ambiguous", NEW n \in 1..Cardinality(distinct)
               PROVE  /\ \A q \in 1..(find.pass - 1) : Answers(q, n) = {}
                      /\ Answers(find.pass, n) # {}
                      /\ Finder!Chosen(find.dump, Answers(find.pass, n), n) = Finder!Taps(Finder!Nth(distinct, n))
    <3>1. answer.verdict = "ambiguous" => answer.list = distinct
      BY <1>8
    <3> HIDE DEF answer, distinct
    <3>2. \A n \in 1..Cardinality(distinct) : answer.verdict = "ambiguous" =>
             /\ \A q \in 1..(find.pass - 1) : Answers(q, n) = {}
             /\ Answers(find.pass, n) # {}
             /\ Finder!Chosen(find.dump, Answers(find.pass, n), n) = Finder!Taps(Finder!Nth(distinct, n))
      OBVIOUS
    <3>3. find'.answer.verdict = "ambiguous" =>
             \A n \in 1..Finder!Cardinality(find'.answer.list) :
                /\ \A q \in 1..(find.pass - 1) : Answers(q, n) = {}
                /\ Answers(find.pass, n) # {}
                /\ Finder!Chosen(find.dump, Answers(find.pass, n), n)
                      = Finder!Taps(Finder!Nth(find'.answer.list, n))
      BY <1>2, <1>3, <3>1, <3>2, SameCount
    <3>4. find.pass \in DOMAIN PassesNow
      BY <1>4
    <3>5. find'.platform = find.platform /\ find'.want = find.want /\ find'.dump = find.dump
      BY <1>2, <1>3
    <3>6. find'.answer.verdict = "ambiguous" =>
             \A n \in 1..Finder!Cardinality(find'.answer.list) : \E p \in DOMAIN PassesNow :
                /\ \A q \in 1..(p - 1) : Answers(q, n) = {}
                /\ Answers(p, n) # {}
                /\ Finder!Chosen(find.dump, Answers(p, n), n) = Finder!Taps(Finder!Nth(find'.answer.list, n))
      BY <3>3, <3>4
    <3> QED BY <3>5, <3>6 DEF Finder!IndexAsListed, PassesNow
  <2>1. find.index = 0
    BY <1>8
  <2>2. n \in Nat /\ n # 0 /\ n <= Cardinality(hits)
    <3>1. distinct \subseteq hits /\ IsFiniteSet(hits) /\ IsFiniteSet(distinct)
      BY <1>4, <1>7, ChosenIsThere
    <3>2. Cardinality(distinct) <= Cardinality(hits) /\ Cardinality(distinct) \in Nat /\ Cardinality(hits) \in Nat
      BY <3>1, FS_Subset, FS_CardinalityType
    <3> HIDE DEF distinct, hits
    <3> QED BY <3>2
  <2>3. Answers(find.pass, n) = hits
    BY <1>4, <2>1, <2>2, Counted
  <2>4. ASSUME NEW q \in 1..(find.pass - 1)
        PROVE  Answers(q, n) = {}
    <3>1. Answers(q, 0) = {}
      BY <2>1 DEF FindInv, PassedOver
    <3> QED BY <1>4, <2>2, <3>1, Counted
  <2>5. Finder!Chosen(find.dump, hits, n) = Finder!Taps(Finder!Nth(distinct, n))
    BY <1>4, <1>7, <2>2, ChosenIsThere
  <2> QED BY <1>2, <2>3, <2>4, <2>5
<1> QED BY <1>6, <1>9, <1>10 DEF FindInv

LEMMA FindStep ==
    ASSUME FindInv, Finder!Next
    PROVE  FindInv'
<1>0. /\ DOMAIN find = FindFields /\ IsDump(find.dump)
      /\ find.pass \in 1..Len(PassesNow) /\ Len(PassesNow) \in 1..3
      /\ find.phase = "dump" \/ find.op # "tap" => find.pass = 1
  BY PassesAre DEF FindInv, FindTypes, PassedOver, PassesNow
<1>1. CASE Finder!GetUITree
  <2>1. PICK dump \in Screens : find' = [find EXCEPT !.dump = dump, !.phase = "search"]
    BY <1>1 DEF Finder!GetUITree
  <2>2. PICK x : x = [find EXCEPT !.dump = dump, !.phase = "search"]
    OBVIOUS
  <2>3. /\ x = [i \in FindFields |-> x[i]] /\ x.platform = find.platform /\ x.want = find.want
        /\ x.index = find.index /\ x.op = find.op /\ x.phase = "search" /\ x.dump = dump /\ x.pass = find.pass
    BY <1>0, <2>2 DEF FindFields
  <2>4. find' = x /\ find.pass = 1 /\ IsDump(dump)
    BY <1>0, <1>1, <2>1, <2>2, ScreensAssumption DEF Finder!GetUITree, IsDump
  <2> QED BY <2>3, <2>4, NamesNothing
\* A step that ends the call with neither.
<1>2. ASSUME NEW answer, answer.verdict \notin {"tap", "ambiguous"} \/ find.op # "tap", Finder!Ended(answer)
      PROVE  FindInv'
  <2>1. PICK x : x = [find EXCEPT !.phase = "end", !.answer = answer]
    OBVIOUS
  <2>2. /\ x = [i \in FindFields |-> x[i]] /\ x.platform = find.platform /\ x.want = find.want
        /\ x.index = find.index /\ x.op = find.op /\ x.phase = "end" /\ x.dump = find.dump
        /\ x.pass = find.pass /\ x.answer = answer
    BY <1>0, <2>1 DEF FindFields
  <2>3. find' = x
    BY <1>2, <2>1 DEF Finder!Ended
  <2> QED BY <1>0, <1>2, <2>2, <2>3, NamesNothing
<1>3. CASE Finder!DumpFails
  BY <1>2, <1>3 DEF Finder!DumpFails, Finder!Verdict
<1>4. CASE Finder!NextPass
  <2>1. find.phase = "search" /\ find.op = "tap" /\ Finder!Hits = {}
    BY <1>4 DEF Finder!NextPass
  <2>2. CASE find.pass < Len(PassesNow)
    <3>1. PICK x : x = [find EXCEPT !.pass = @ + 1]
      OBVIOUS
    <3>2. /\ x = [i \in FindFields |-> x[i]] /\ x.platform = find.platform /\ x.want = find.want
          /\ x.index = find.index /\ x.op = find.op /\ x.phase = find.phase /\ x.dump = find.dump
          /\ x.pass = find.pass + 1
      BY <1>0, <3>1 DEF FindFields
    <3>3. find' = x
      BY <1>4, <2>2, <3>1 DEF Finder!NextPass, PassesNow
    <3>4. x.pass <= Len(PassesNow)
      BY <1>0, <2>2, <3>2
    <3>5. Finder!FindElement(find.platform, find.dump, PassesNow[find.pass], find.index) = {}
      BY <2>1 DEF Finder!Hits, PassesNow
    <3> QED BY <1>0, <2>1, <3>2, <3>3, <3>4, <3>5, NamesNothing
  <2>3. CASE ~(find.pass < Len(PassesNow))
    <3>1. Finder!Ended(Finder!Verdict("none"))
      BY <1>4, <2>3 DEF Finder!NextPass, PassesNow
    <3> QED BY <1>2, <3>1 DEF Finder!Verdict
  <2> QED BY <2>2, <2>3
<1>5. CASE Finder!TapElement \/ Finder!WaitRefused \/ Finder!WaitFound
  <2>1. find.op # "tap" /\ \E answer : Finder!Ended(answer)
    BY <1>5 DEF Finder!TapElement, Finder!WaitRefused, Finder!Refused, Finder!WaitFound
  <2> QED BY <1>2, <2>1
<1>6. CASE Finder!WaitPolls
  <2>1. find.op = "wait" /\ find.pass = 1
    BY <1>0, <1>6 DEF Finder!WaitPolls
  <2>2. CASE find.polls = 0
    <3>1. Finder!Ended(Finder!Verdict("timedOut"))
      BY <1>6, <2>2 DEF Finder!WaitPolls
    <3> QED BY <1>2, <2>1, <3>1
  <2>3. CASE find.polls # 0
    <3>1. PICK x : x = [find EXCEPT !.phase = "dump", !.dump = <<>>, !.polls = @ - 1]
      OBVIOUS
    <3>2. /\ x = [i \in FindFields |-> x[i]] /\ x.platform = find.platform /\ x.want = find.want
          /\ x.index = find.index /\ x.op = find.op /\ x.phase = "dump" /\ x.dump = <<>> /\ x.pass = find.pass
      BY <1>0, <3>1 DEF FindFields
    <3>3. find' = x /\ IsDump(<<>>)
      BY <1>6, <2>3, <3>1, NoDump DEF Finder!WaitPolls
    <3> QED BY <2>1, <3>2, <3>3, NamesNothing
  <2> QED BY <2>2, <2>3
<1> QED BY <1>1, <1>3, <1>4, <1>5, <1>6, SearchKeeps DEF Finder!Next

LEMMA FindInitially ==
    ASSUME DevicesInit
    PROVE  FindInv
<1>1. /\ find = [i \in FindFields |-> find[i]] /\ find.platform \in {"ios", "android"}
      /\ find.want \in {"text", "testID"} /\ find.index \in Nat /\ find.dump = <<>>
      /\ find.pass = 1 /\ find.phase # "end"
  <2>1. 0..2 \subseteq Nat
    OBVIOUS
  <2>2. CASE Finder!Init
    BY <2>1, <2>2 DEF Finder!Init, FindFields
  <2>3. CASE FindOff
    BY <2>3 DEF FindOff, FindFields
  <2> QED BY <2>2, <2>3 DEF DevicesInit
<1>2. FindTypes
  BY <1>1, NoDump DEF FindTypes
<1>3. PassedOver
  <2>1. Len(PassesNow) \in 1..3
    BY <1>1, PassesAre DEF PassesNow
  <2>2. 1 \in 1..Len(PassesNow) /\ 1..(1 - 1) = {}
    BY <2>1
  <2> QED BY <1>1, <2>2 DEF PassedOver
<1>4. Finder!PressesTheNamed /\ Finder!IndexAsListed
  BY <1>1 DEF Finder!PressesTheNamed, Finder!IndexAsListed, Finder!Tapped
<1> QED BY <1>2, <1>3, <1>4 DEF FindInv

\* Whatever the screen shows, and however often it is polled: the invariant of the finder.
THEOREM FindInvariant == DevicesSpec => []FindInv
<1>1. DevicesInit => FindInv
  BY FindInitially
<1>2. FindInv /\ [DevicesNext]_allVars => FindInv'
  <2> SUFFICES ASSUME FindInv, [DevicesNext]_allVars
               PROVE  FindInv'
    OBVIOUS
  <2>1. CASE Finder!Next
    BY <2>1, FindStep
  <2>2. CASE UNCHANGED find
    BY <2>2 DEF FindInv, FindTypes, PassedOver, PassesNow, Finder!PressesTheNamed, Finder!IndexAsListed, Finder!Tapped
  <2> QED BY <2>1, <2>2 DEF DevicesNext, allVars
<1> QED BY <1>1, <1>2, PTL DEF DevicesSpec

\* For any points, screens, callers and number of polls: a gesture or a capture that was mapped
\* by readings taken since the app last turned is right, as is one that read the turn; an
\* accessibility tap presses what answers its query, and the number a refusal lists is the
\* number that taps it.  (ios.ts, android.ts, tap.ts)
THEOREM AimedAndNamedRight == DevicesSpec => []RightTarget
<1>1. SimInv /\ FindInv => RightTarget
  BY AimsRight DEF FindInv, RightTarget
<1> QED BY <1>1, SimInvariant, FindInvariant, PTL
=============================================================================
