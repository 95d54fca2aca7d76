----------------------------- MODULE MCDevices -----------------------------
(***************************************************************************)
(* What acts on devices, with its instances for TLC: input on a Chromium    *)
(* page, aiming at a simulator, finding in an accessibility dump, choosing  *)
(* the device, and the adb driver.  They share no state, so a behaviour is  *)
(* one of one of them, and the state of the others is a constant.           *)
(***************************************************************************)
EXTENDS Chromium, TLC

CONSTANTS SimCallers, SimOps, Points, Screens, MaxPolls,
          Devices, Holds, Choosers, HintsOf, MaxUpsets,
          Serials, AdbCallers, AdbOps, Model, Avd, Prefix, Reported, TextLength, MaxPlugs

VARIABLES device, orientationCache, rootFrame, lastLandscape, ios
VARIABLE find
VARIABLE part    \* the module a behaviour is of
VARIABLES power, upsets, cache, registry, memory, choosers
VARIABLES attached, plugs, adb, file, running, field, adbCalls

Sim    == INSTANCE Simulator WITH Callers <- SimCallers, OpsOf <- SimOps
Finder == INSTANCE UiFind WITH Dumps <- Screens
Choice == INSTANCE DeviceChoice WITH Callers <- Choosers, callers <- choosers
Adb    == INSTANCE AdbDevice WITH Callers <- AdbCallers, OpsOf <- AdbOps

simVars    == <<device, orientationCache, rootFrame, lastLandscape, ios>>
choiceVars == <<power, upsets, cache, registry, memory, choosers>>
adbVars    == <<attached, plugs, adb, file, running, field, adbCalls>>

\* "none" is no serial, and what is typed is not empty.
ASSUME AdbAssumption == IsFiniteSet(Serials) /\ "none" \notin Serials /\ TextLength \in Nat \ {0}
\* A point is where it is, across and down.
ASSUME PointsAssumption == Points \subseteq Nat \X Nat
\* A dump is a sequence.
ASSUME ScreensAssumption == \A dump \in Screens : Len(dump) \in Nat /\ DOMAIN dump = 1..Len(dump)

-----------------------------------------------------------------------------
PageOff ==
    /\ page = [mounted |-> {}, focus |-> None, dialog |-> 0, opened |-> 0, held |-> <<>>]
    /\ fields = [e \in Range(Elements) |-> <<>>]
    /\ targets = <<>> /\ toPage = <<>> /\ toServer = <<>> /\ known = 0
    /\ web = [c \in Agents |-> Unsaid]
SimOff ==
    /\ device = [orientation |-> 1, turned |-> "none"]
    /\ orientationCache = Sim!NoOrientation /\ rootFrame = Sim!NoFrame
    /\ lastLandscape = [dir |-> "absent", now |-> FALSE]
    /\ ios = [c \in SimCallers |-> Sim!IdleCall]
FindOff ==
    find = [platform |-> "ios", op |-> "tap", want |-> "text", index |-> 0, phase |-> "off",
            dump |-> <<>>, pass |-> 1, polls |-> 0, answer |-> Finder!Undecided]
ChoiceOff ==
    /\ power = [id \in Choice!Ids |-> "down"] /\ upsets = 0
    /\ cache = <<>> /\ registry = {} /\ memory = <<>>
    /\ choosers = [c \in Choosers |-> Choice!Resting]
AdbOff ==
    /\ attached = <<>> /\ plugs = 0 /\ adb = "unchecked"
    /\ file = [p \in Adb!Paths |-> Adb!NoFile] /\ running = {}
    /\ field = [s \in Serials |-> <<>>]
    /\ adbCalls = [c \in AdbCallers |-> Adb!Unsent]

DevicesInit ==
    \/ part = "page" /\ Init /\ SimOff /\ FindOff /\ ChoiceOff /\ AdbOff
    \/ part = "sim" /\ PageOff /\ Sim!Init /\ FindOff /\ ChoiceOff /\ AdbOff
    \/ part = "find" /\ PageOff /\ SimOff /\ Finder!Init /\ ChoiceOff /\ AdbOff
    \/ part = "choice" /\ PageOff /\ SimOff /\ FindOff /\ Choice!Init /\ AdbOff
    \/ part = "adb" /\ PageOff /\ SimOff /\ FindOff /\ ChoiceOff /\ Adb!Init

DevicesNext ==
    \/ part = "page" /\ Next /\ UNCHANGED <<part, simVars, find, choiceVars, adbVars>>
    \/ part = "sim" /\ Sim!Next /\ UNCHANGED <<part, webVars, find, choiceVars, adbVars>>
    \/ part = "find" /\ Finder!Next /\ UNCHANGED <<part, webVars, simVars, choiceVars, adbVars>>
    \/ part = "choice" /\ Choice!Next /\ UNCHANGED <<part, webVars, simVars, find, adbVars>>
    \/ part = "adb" /\ Adb!Next /\ UNCHANGED <<part, webVars, simVars, find, choiceVars>>

allVars == <<part, webVars, simVars, find, choiceVars, adbVars>>
DevicesSpec == DevicesInit /\ [][DevicesNext]_allVars

-----------------------------------------------------------------------------
(* Properties, stated in the modules.                                      *)

\* Input the page has answered is not reported as failed, and none waits behind a dialog the
\* server knew of.  (chromiumTap.ts, chromiumDialogs.ts)
PageInputTold == AnsweredNotFailed /\ NothingLandsLate
\* A gesture lands where it was aimed, and a turn that was read heals; an accessibility tap
\* presses what answers its query, and an index means what the refusal listed.
\* (ios.ts, android.ts, tap.ts)
RightTarget == Sim!AimTrue /\ Sim!RereadHeals /\ Finder!PressesTheNamed /\ Finder!IndexAsListed
\* Nothing that was there all along is denied while simctl and adb answer.  (deviceResolver.ts)
DenialIsFresh == Choice!DenialIsFresh
\* Concurrent adb calls: what one reads is no older than its own dump, and from before the call
\* only if uiautomator gave up in silence and an earlier call left its file; one call acts on one
\* device, and what it types arrives in order.  (android.ts)
AdbFreshAndOrdered == Adb!TreeIsFresh /\ Adb!OneDevicePerCall /\ Adb!TypedInOrder

-----------------------------------------------------------------------------
(* A page of two elements: a query they both answer, one of them better.    *)
MCElements == <<"e1", "e2">>
MCJobs == "a" :> {"tap", "swipe"} @@ "b" :> {"key", "answer", "text", "tapAt"}
MCRank == "a" :> ("e1" :> "part" @@ "e2" :> "exact") @@ "b" :> ("e1" :> "hidden" @@ "e2" :> "folded")

(* A simulator: one call aims or captures while another reads the frame.    *)
MCSimOps == "a" :> {"gesture", "shot"} @@ "b" :> {"inset"}
MCPoints == {<<0, 1>>, <<1, 1>>}

(* Dumps of two elements, and of three that answer in part.                *)
El(l, i, d, v, r, at) == [label |-> l, id |-> i, desc |-> d, inView |-> v, rollup |-> r, at |-> at]
MCParts ==
    {El(l, i, "other", v, FALSE, at) : l \in {"same", "holds", "other"}, i \in {"same", "other"},
                                       v \in BOOLEAN, at \in 1..2}
    \cup {El("holds", i, "other", v, TRUE, 1) : i \in {"holds", "other"}, v \in BOOLEAN}
    \cup {El("other", "other", "holds", v, FALSE, 1) : v \in BOOLEAN}
MCFew == {e \in MCParts : e.id = "other" /\ e.label = "holds"}
MCScreens == {<<>>} \cup {<<a, b>> : a, b \in MCParts} \cup {<<a, b, c>> : a, b, c \in MCFew}

(* A simulator and a phone of one name.                                    *)
MCDevs == {[id |-> "s1", name |-> "pro", kind |-> "sim"], [id |-> "p1", name |-> "pro", kind |-> "phone"]}
MCHolds == "pro" :> ("pro" :> TRUE)
ById(by, id, shutdown) == [by |-> by, id |-> id, shutdown |-> shutdown]
MCHints == "a" :> {[by |-> "none"], [by |-> "name", name |-> "pro"], ById("serial", "p1", FALSE)}
           @@ "b" :> {ById("udid", "s1", TRUE)}

(* Two phones, the model of one a prefix of the other's.                   *)
MCOneCommand == {"tap", "longPress", "swipe", "keyEvent", "install", "launch", "packages", "size"}
MCAdbOps == 1 :> {"tree", "text", "tap", "shot", "serial"}
            @@ 2 :> {"tree", "text", "shot", "status", "describeAll"} \cup MCOneCommand
MCModel == "s1" :> "p9" @@ "s2" :> "p9pro"
MCAvd == "s1" :> "none" @@ "s2" :> "none"
MCReported == "s1" :> "p9 api" @@ "s2" :> "p9pro api"
MCPrefix == [x \in {"p9", "p9pro"} \X {"p9 api", "p9pro api"} |-> x[1] = "p9" \/ x[2] = "p9pro api"]
=============================================================================
