----------------------------- MODULE AdbDevice -----------------------------
(***************************************************************************)
(* The Android driver (core/android.ts over core/exec.ts).                  *)
(*                                                                         *)
(* A call is one or several adb commands, each a process of its own, and    *)
(* calls run concurrently.  The commands of a dump meet in a file on the    *)
(* device whose name is the same for every dump, those of a screenshot in   *)
(* another, those of a text in the focused field.  A command can fail, fail after the device    *)
(* has done it, or be killed on the host while the device goes on; devices  *)
(* come and go.  Every caller makes one call.                               *)
(***************************************************************************)
EXTENDS Naturals, Sequences, FiniteSets, SequencesExt

CONSTANTS Serials,
          Callers,
          OpsOf,        \* the operations each caller may make
          Model,        \* ro.product.model of each device
          Avd,          \* the emulator name of each device, or "none"
          Prefix,       \* Prefix[m, n]: the device name n starts with the model m
          Reported,     \* the name React Native reports for each device
          TextLength,   \* characters of a text
          MaxPlugs      \* bounds plugging and unplugging

VARIABLES attached, plugs, adb, file, running, field, adbCalls
adbVars == <<attached, plugs, adb, file, running, field, adbCalls>>

\* What lies in a file: who wrote it, the calls in flight when it was written, and those of
\* them that had written theirs before.
NoFile == [by |-> {}, during |-> {}, after |-> {}]
Unsent == [op |-> "none", pc |-> "idle", given |-> "none", device |-> "none", used |-> {},
           with |-> {}, wrote |-> FALSE, tree |-> NoFile, typed |-> 0, outcome |-> "none",
           asked |-> "none"]
\* The operations of one command.
OneCommand == {"tap", "longPress", "swipe", "keyEvent", "install", "launch", "packages", "size"}
Dumps == {"tree", "describeAll", "shot"}
Paths == Serials \X {"ui_dump.xml", "screenshot-temp.png"}

Init ==
    /\ attached \in {SetToSeq(s) : s \in SUBSET Serials} /\ plugs = 0
    /\ adb = "unchecked"
    /\ file = [p \in Paths |-> NoFile] /\ running = {}
    /\ field = [s \in Serials |-> <<>>]
    /\ adbCalls = [c \in Callers |-> Unsent]

InFlight == {c \in Callers : adbCalls[c].pc \notin {"idle", "end"}}
Attached == Range(attached)
PathOf(call) == <<call.device, IF call.op = "shot" THEN "screenshot-temp.png" ELSE "ui_dump.xml">>
Moves(c, call) == adbCalls' = [adbCalls EXCEPT ![c] = call]
Over(call, outcome) == [call EXCEPT !.pc = "end", !.outcome = outcome, !.given = "none",
                                    !.with = {}, !.wrote = FALSE, !.tree = NoFile]
Ends(c, outcome) == Moves(c, Over(adbCalls[c], outcome))
Devs == <<attached, plugs, adb>>

\* A device is plugged in, at the end of adb's list, or out.
Plug ==
    /\ plugs < MaxPlugs /\ plugs' = plugs + 1
    /\ \/ \E s \in Serials \ Attached : attached' = Append(attached, s)
       \/ \E i \in DOMAIN attached : attached' = RemoveAt(attached, i)
    /\ UNCHANGED <<adb, file, running, field, adbCalls>>

-----------------------------------------------------------------------------
(* Starting: is there an adb, asked once per process, and which device.    *)
Start(c) == \E op \in OpsOf[c], given \in Serials \cup {"none"} :
    /\ adbCalls[c].pc = "idle" /\ adb # "no"
    /\ Moves(c, [Unsent EXCEPT !.op = op, !.given = given, !.with = InFlight,
                   !.pc = IF op = "serial" THEN "named" ELSE "device",
                   !.asked = IF op = "serial" /\ given # "none" THEN given ELSE "none"])
    /\ adb' = "yes" /\ UNCHANGED <<attached, plugs, file, running, field>>
\* Not found on the PATH nor where the SDK usually is: the answer is kept.
IsAdbAvailable(c) ==
    /\ adbCalls[c].pc = "idle" /\ adb \in {"unchecked", "no"} /\ adb' = "no"
    /\ Ends(c, "failed") /\ UNCHANGED <<attached, plugs, file, running, field>>

GetDefaultAndroidDevice(c) ==
    /\ adbCalls[c].pc = "device"
    /\ IF adbCalls[c].given = "none" /\ attached = <<>> THEN Ends(c, "failed")
       ELSE Moves(c, [adbCalls[c] EXCEPT !.pc = "send",
                !.device = IF adbCalls[c].given # "none" THEN adbCalls[c].given ELSE Head(attached)])
    /\ UNCHANGED <<Devs, file, running, field>>

\* A command without a serial goes to the only device, and nowhere when there are two.
Aimed(c, serial) ==
    IF serial # "none" THEN {serial} \cap Attached
    ELSE IF Len(attached) = 1 THEN Attached ELSE {}
Used(c, d) == [adbCalls[c] EXCEPT !.used = @ \cup {d}]
\* A command that reached nothing, or that failed before the device did anything.
CommandFails(c) ==
    /\ adbCalls[c].pc \in {"send", "cat"}
    /\ Ends(c, "failed") /\ UNCHANGED <<Devs, file, running, field>>

-----------------------------------------------------------------------------
Gesture(c, op) == \E outcome \in {"ok", "failed"} :
    /\ adbCalls[c].pc = "send" /\ adbCalls[c].op = op
    /\ adbCalls[c].device \in Attached
    /\ Moves(c, Over(Used(c, adbCalls[c].device), outcome))
    /\ UNCHANGED <<Devs, file, running, field>>
AndroidSwipe(c) == Gesture(c, "swipe")
AndroidLongPress(c) == Gesture(c, "longPress")
AndroidKeyEvent(c) == Gesture(c, "keyEvent")
AndroidInstallApp(c) == Gesture(c, "install")
AndroidLaunchApp(c) == Gesture(c, "launch")
AndroidListPackages(c) == Gesture(c, "packages")
AndroidGetScreenSize(c) == Gesture(c, "size")

HeldAnywhere(c) == adbCalls[c].given \* mutant
\* A tap that is held is a long press, of the device already chosen.
HoldDevice(c) == adbCalls[c].device
AndroidTap(c) ==
    \/ Gesture(c, "tap")
    \/ /\ adbCalls[c].pc = "send" /\ adbCalls[c].op = "tap"
       /\ Moves(c, [Used(c, adbCalls[c].device) EXCEPT !.op = "longPress", !.pc = "device",
                                                       !.given = HoldDevice(c)])
       /\ UNCHANGED <<Devs, file, running, field>>

\* The status bar: the density of the device chosen, then the windows of whichever device
\* adb takes when the caller named none.
AndroidGetDensity(c) ==
    /\ adbCalls[c].pc = "send" /\ adbCalls[c].op = "status"
    /\ adbCalls[c].device \in Attached
    /\ Moves(c, [Used(c, adbCalls[c].device) EXCEPT !.pc = "dumpsys"])
    /\ UNCHANGED <<Devs, file, running, field>>
AndroidGetStatusBarHeight(c) ==
    /\ adbCalls[c].pc = "dumpsys"
    /\ LET aimed == Aimed(c, adbCalls[c].given)
       IN Moves(c, Over([adbCalls[c] EXCEPT !.used = @ \cup aimed], "ok"))
    /\ UNCHANGED <<Devs, file, running, field>>

-----------------------------------------------------------------------------
(* Text with special characters goes one character per command; the others *)
(* in one.                                                                 *)
Typed(c, n) == [k \in 1..n |-> [by |-> c, char |-> adbCalls[c].typed + k]]
SwallowedChar(c, ok) == \* mutant
    [Used(c, adbCalls[c].device) EXCEPT !.typed = @ + 1,
        !.pc = IF adbCalls[c].typed + 1 = TextLength THEN "end" ELSE "send",
        !.outcome = IF adbCalls[c].typed + 1 = TextLength THEN "ok" ELSE "none"]
\* The first character that fails ends the text.
AfterChar(c, ok) ==
    LET last == adbCalls[c].typed + 1 = TextLength
    IN [Used(c, adbCalls[c].device) EXCEPT !.typed = IF ok THEN @ + 1 ELSE @,
           !.pc = IF last \/ ~ok THEN "end" ELSE "send",
           !.outcome = IF ~ok THEN "failed" ELSE IF last THEN "ok" ELSE "none"]
InputChar(c) == \E ok \in BOOLEAN, done \in BOOLEAN :
    /\ adbCalls[c].pc = "send" /\ adbCalls[c].op = "text" /\ adbCalls[c].device \in Attached
    /\ ok => done
    /\ field' = IF done THEN [field EXCEPT ![adbCalls[c].device] = @ \o Typed(c, 1)] ELSE field
    /\ Moves(c, AfterChar(c, ok))
    /\ UNCHANGED <<Devs, file, running>>
InputBulk(c) == \E outcome \in {"ok", "failed"} :
    /\ adbCalls[c].pc = "send" /\ adbCalls[c].op = "text" /\ adbCalls[c].device \in Attached
    /\ adbCalls[c].typed = 0
    /\ field' = [field EXCEPT ![adbCalls[c].device] = @ \o Typed(c, TextLength)]
    /\ Moves(c, Over([Used(c, adbCalls[c].device) EXCEPT !.typed = TextLength], outcome))
    /\ UNCHANGED <<Devs, file, running>>

-----------------------------------------------------------------------------
(* A dump or a capture: write the file, read it, remove it.                *)
Written(c) == [by |-> {c}, during |-> InFlight, after |-> {b \in InFlight : adbCalls[b].wrote}]
\* uiautomator can give up without saying so; screencap cannot.
Dump(c) == \E wrote \in BOOLEAN :
    /\ adbCalls[c].pc = "send" /\ adbCalls[c].op \in Dumps /\ adbCalls[c].device \in Attached
    /\ adbCalls[c].op = "shot" => wrote
    /\ file' = IF wrote THEN [file EXCEPT ![PathOf(adbCalls[c])] = Written(c)] ELSE file
    /\ Moves(c, [Used(c, adbCalls[c].device) EXCEPT !.pc = "cat", !.wrote = wrote])
    /\ UNCHANGED <<Devs, running, field>>
Read(c) ==
    /\ adbCalls[c].pc = "cat" /\ adbCalls[c].device \in Attached
    /\ IF file[PathOf(adbCalls[c])] = NoFile THEN Ends(c, "failed")
       ELSE Moves(c, [adbCalls[c] EXCEPT !.pc = "rm", !.tree = file[PathOf(adbCalls[c])]])
    /\ UNCHANGED <<Devs, file, running, field>>
LeftFile(c) == file \* mutant
Removed(c) == [file EXCEPT ![PathOf(adbCalls[c])] = NoFile]
\* A failure to clean up is ignored.
CleanUp(c) ==
    /\ adbCalls[c].pc = "rm"
    /\ \/ adbCalls[c].device \in Attached /\ file' = Removed(c) /\ Ends(c, "ok")
       \/ UNCHANGED file /\ Ends(c, "littered")
    /\ UNCHANGED <<Devs, running, field>>
\* The time of the strategy or of the command is up: the process on the host is killed, the
\* one on the device is not.
Abort(c) ==
    /\ adbCalls[c].op \in Dumps /\ adbCalls[c].pc \in {"send", "cat", "rm"}
    /\ running' = IF adbCalls[c].pc = "send" /\ adbCalls[c].device \in Attached
                  THEN running \cup {c} ELSE running
    /\ Ends(c, "aborted") /\ UNCHANGED <<Devs, file, field>>
OrphanWrites == \E c \in running :
    /\ running' = running \ {c}
    /\ file' = IF adbCalls[c].device \in Attached
               THEN [file EXCEPT ![PathOf(adbCalls[c])] = Written(c)] ELSE file
    /\ UNCHANGED <<Devs, field, adbCalls>>

-----------------------------------------------------------------------------
(* The serial of the device React Native reports by name: an emulator of    *)
(* that name, else the first device whose model the name starts with.       *)
GetAdbIdForAvd(name) == SelectSeq(attached, LAMBDA s : Avd[s] = name)
ByModel(name) == SelectSeq(attached, LAMBDA s : Prefix[Model[s], name])
ResolveAdbSerialForDeviceName(c) ==
    /\ adbCalls[c].pc = "named"
    /\ IF adbCalls[c].asked = "none" THEN Ends(c, "failed")
       ELSE LET name == Reported[adbCalls[c].asked]
                found == IF GetAdbIdForAvd(name) # <<>> THEN GetAdbIdForAvd(name) ELSE ByModel(name)
            IN Moves(c, [adbCalls[c] EXCEPT !.pc = "end", !.outcome = IF found = <<>> THEN "failed" ELSE "ok",
                            !.device = IF found = <<>> THEN "none" ELSE Head(found)])
    /\ UNCHANGED <<Devs, file, running, field>>

Next == \/ Plug \/ OrphanWrites
        \/ \E c \in Callers :
              \/ Start(c) \/ IsAdbAvailable(c) \/ GetDefaultAndroidDevice(c) \/ CommandFails(c)
              \/ AndroidTap(c) \/ AndroidLongPress(c) \/ AndroidSwipe(c) \/ AndroidKeyEvent(c)
              \/ AndroidInstallApp(c) \/ AndroidLaunchApp(c) \/ AndroidListPackages(c)
              \/ AndroidGetScreenSize(c) \/ AndroidGetDensity(c) \/ AndroidGetStatusBarHeight(c)
              \/ InputChar(c) \/ InputBulk(c)
              \/ Dump(c) \/ Read(c) \/ CleanUp(c) \/ Abort(c)
              \/ ResolveAdbSerialForDeviceName(c)
Spec == Init /\ [][Next]_adbVars

-----------------------------------------------------------------------------
\* Calls may read each other's dumps; what a call reads is never older than its own dump.  When
\* uiautomator gave up in silence it is a dump another call finished while this one was under
\* way.  One from before the call is read only then, and only if the call that wrote it never
\* removed it: it was cut short, could not, or was still under way when this one began.
\* (android.ts:1122-1139)
TreeIsFresh == \A c \in Callers :
    LET tree == adbCalls[c].tree
    IN tree # NoFile =>
          /\ adbCalls[c].wrote => c \in tree.by \cup tree.after
          /\ c \notin tree.during =>
                \A b \in tree.by : \/ b \in adbCalls[c].with
                                   \/ adbCalls[b].outcome \in {"failed", "littered", "aborted"}

\* A call acts on one device, although the default one may change between its commands; only
\* the status bar's second command is not tied to the device of the first.  (android.ts:645-700)
OneDevicePerCall == \A c \in Callers :
    adbCalls[c].op # "status" => \A d, e \in adbCalls[c].used : d = e

\* What a call has typed into a field are the first characters of its text, in order and once
\* each, whoever else types meanwhile; all of them if it reports success.  (android.ts:785-859)
TypedInOrder == \A c \in Callers, s \in Serials :
    LET mine == {i \in DOMAIN field[s] : field[s][i].by = c}
        typed == {field[s][i].char : i \in mine}
    IN /\ \A i, j \in mine : i < j => field[s][i].char < field[s][j].char
       /\ \E n \in 0..TextLength : typed = 1..n
       /\ adbCalls[c].op = "text" /\ adbCalls[c].outcome = "ok" /\ adbCalls[c].device = s
             => typed = 1..TextLength

\* The code breaks this one (README, section 6).
\* The serial found for a name React Native reports is that of the device that reported it,
\* when that device is attached.  (android.ts:1932-1941)
SerialIsNamed == \A c \in Callers :
    adbCalls[c].op = "serial" /\ adbCalls[c].outcome = "ok" /\ adbCalls[c].asked \in Attached
    => Reported[adbCalls[c].device] = Reported[adbCalls[c].asked]
=============================================================================
