----------------------------- MODULE Simulator -----------------------------
(***************************************************************************)
(* Aiming at an iOS simulator (core/ios.ts).                               *)
(*                                                                         *)
(* The app, React Native and the accessibility dump speak the app's frame, *)
(* which turns with the device; touches and captures stay in the native    *)
(* portrait frame.  Every gesture and every capture is mapped between the  *)
(* two from two readings, the device's orientation (remembered for 3 s)    *)
(* and the root frame (remembered for 30 s), which are taken by separate   *)
(* commands while the device may turn and other calls read too.            *)
(*                                                                         *)
(* Time only expires what is remembered, so whether it still serves is a   *)
(* choice.  Every reading carries whether it was taken since the app last  *)
(* turned, with the app not about to turn: the code keeps no such stamp,   *)
(* the properties are stated with it.                                      *)
(***************************************************************************)
EXTENDS Naturals

CONSTANTS Callers,    \* tool calls in flight
          OpsOf,      \* the operations each of them makes
          Points      \* points of the app's frame a gesture aims at

VARIABLES device, orientationCache, rootFrame, lastLandscape, ios

caches == <<orientationCache, rootFrame, lastLandscape>>
simVars == <<device, caches, ios>>

-----------------------------------------------------------------------------
(* The native frame is Short points wide and Long high.                    *)
Short == 2
Long == 3

MirroredPoint(p, rotation) == \* mutant
    CASE rotation = "cw" -> <<Short - p[2], p[1]>>
      [] rotation = "ccw" -> <<p[2], Long - p[1]>>
      [] rotation = "none" -> p
\* An app-frame point as the native point the driver injects at.
ToNativePoint(p, rotation) ==
    CASE rotation = "ccw" -> <<Short - p[2], p[1]>>
      [] rotation = "cw" -> <<p[2], Long - p[1]>>
      [] rotation = "none" -> p

\* Where a native point lies in the frame of an app turned that way.
LandsAt(n, turned) ==
    CASE turned = "ccw" -> <<n[2], Short - n[1]>>
      [] turned = "cw" -> <<Long - n[2], n[1]>>
      [] turned = "none" -> n

-----------------------------------------------------------------------------
NoOrientation == [value |-> 0, now |-> FALSE]
NoFrame == [shape |-> "absent", now |-> FALSE]
IdleCall == [op |-> "none", pc |-> "idle", value |-> 0, valueNow |-> FALSE, differs |-> FALSE,
             shape |-> "absent", shapeNow |-> FALSE, rotation |-> "none", now |-> FALSE,
             reread |-> FALSE, shown |-> "absent"]

\* The turn an app that follows makes: lying flat it stays as it is.
TurnFor(orientation, turned) ==
    CASE orientation = 1 -> "none" [] orientation = 3 -> "ccw"
      [] orientation = 4 -> "cw" [] orientation = 5 -> turned
Settled == device.turned = TurnFor(device.orientation, device.turned)
Probing == {c \in Callers : ios[c].pc = "frameSeen"}

Init ==
    /\ device \in {[orientation |-> o, turned |-> TurnFor(o, t)] :
                      o \in {1, 3, 4, 5}, t \in {"none", "ccw", "cw"}}
    /\ orientationCache = NoOrientation /\ rootFrame = NoFrame
    /\ lastLandscape = [dir |-> "absent", now |-> FALSE]
    /\ ios = [c \in Callers |-> IdleCall]

(* The device turns, and an app that follows turns a moment later.         *)
DeviceTurns == \E o \in {1, 3, 4, 5} :
    /\ o # device.orientation
    /\ device' = [device EXCEPT !.orientation = o]
    /\ UNCHANGED <<caches, ios>>
AppTurns ==
    /\ ~Settled
    /\ device' = [device EXCEPT !.turned = TurnFor(device.orientation, @)]
    /\ orientationCache' = [orientationCache EXCEPT !.now = FALSE]
    /\ rootFrame' = [rootFrame EXCEPT !.now = FALSE]
    /\ lastLandscape' = [lastLandscape EXCEPT !.now = FALSE]
    /\ ios' = [c \in Callers |-> [ios[c] EXCEPT !.valueNow = FALSE, !.shapeNow = FALSE,
                                     !.now = FALSE, !.reread = FALSE,
                                     !.shown = IF @ = "absent" THEN @ ELSE "before"]]

-----------------------------------------------------------------------------
Becomes(c, call) == ios' = [ios EXCEPT ![c] = call]

\* Without a driver or a simulator, or when IDB does not connect, the call ends at once.
EnsureUiDriverReady(c) == \E op \in OpsOf[c], ready \in BOOLEAN :
    /\ ios[c].pc = "idle"
    /\ Becomes(c, IF ~ready THEN IdleCall
                  ELSE [IdleCall EXCEPT !.op = op, !.pc = IF op = "inset" THEN "frame" ELSE "orient"])
    /\ UNCHANGED <<device, caches>>

(* The orientation: remembered for a gesture, always read for a capture.   *)
UseCachedOrientation(c) ==
    /\ ios[c].pc = "orient" /\ ios[c].op # "shot" /\ orientationCache # NoOrientation
    /\ Becomes(c, [ios[c] EXCEPT !.pc = "frame", !.value = orientationCache.value,
                                 !.valueNow = orientationCache.now])
    /\ UNCHANGED <<device, caches>>
AskOrientation(c) ==
    /\ ios[c].pc = "orient"
    /\ Becomes(c, [ios[c] EXCEPT !.pc = "orientSeen", !.value = device.orientation,
             !.valueNow = Settled, !.differs = orientationCache.value # device.orientation])
    /\ UNCHANGED <<device, caches>>
KeptFrame(call) == rootFrame \* mutant
\* The root frame is stale the moment the device turns.
FrameAfter(call) == IF call.differs THEN NoFrame ELSE rootFrame
ReadDeviceOrientation(c) ==
    /\ ios[c].pc = "orientSeen"
    /\ rootFrame' = FrameAfter(ios[c])
    /\ orientationCache' = [value |-> ios[c].value, now |-> ios[c].valueNow]
    /\ Becomes(c, [ios[c] EXCEPT !.pc = "frame", !.differs = FALSE,
                     !.reread = ios[c].differs /\ ios[c].valueNow /\ Probing = {}])
    /\ UNCHANGED <<device, lastLandscape>>
OrientationUnread(c) ==
    /\ ios[c].pc = "orientSeen" /\ Becomes(c, [ios[c] EXCEPT !.pc = "frame", !.differs = FALSE, !.value = 0])
    /\ UNCHANGED <<device, caches>>

(* The root frame: a probe that failed is remembered like one that answered. *)
UseCachedFrame(c) ==
    /\ ios[c].pc = "frame" /\ rootFrame # NoFrame
    /\ Becomes(c, [ios[c] EXCEPT !.pc = "map", !.shape = rootFrame.shape, !.shapeNow = rootFrame.now])
    /\ UNCHANGED <<device, caches>>
AskFrame(c) ==
    /\ ios[c].pc = "frame"
    /\ \E shape \in {"unknown", IF device.turned = "none" THEN "tall" ELSE "wide"} :
          Becomes(c, [ios[c] EXCEPT !.pc = "frameSeen", !.shape = shape, !.shapeNow = TRUE])
    /\ UNCHANGED <<device, caches>>
ProbeIOSRootFrame(c) ==
    /\ ios[c].pc = "frameSeen" /\ Becomes(c, [ios[c] EXCEPT !.pc = "map"])
    /\ rootFrame' = [shape |-> ios[c].shape, now |-> ios[c].shapeNow]
    /\ UNCHANGED <<device, orientationCache, lastLandscape>>
GetIOSSafeAreaTop(c) ==
    /\ ios[c].pc = "map" /\ ios[c].op = "inset" /\ Becomes(c, IdleCall)
    /\ UNCHANGED <<device, caches>>

(* The way the app is turned: a wide frame says that it is, the reading     *)
(* says which way, and a flat device keeps the last direction seen.         *)
Direction(value) ==
    CASE value = 3 -> "ccw" [] value = 4 -> "cw"
      [] OTHER -> IF lastLandscape.dir = "absent" THEN "ccw" ELSE lastLandscape.dir
GetUiRotation(c) ==
    /\ ios[c].pc = "map" /\ ios[c].op # "inset"
    /\ LET found == [dir |-> Direction(ios[c].value),
                     now |-> IF ios[c].value \in {3, 4} THEN ios[c].valueNow ELSE lastLandscape.now]
           known == ios[c].shape # "unknown" /\ ios[c].shapeNow
           mapped == [ios[c] EXCEPT !.pc = "send", !.value = 0, !.valueNow = FALSE,
                        !.shape = "absent", !.shapeNow = FALSE,
                        !.reread = @ /\ ios[c].shape # "unknown" /\ ios[c].value # 5]
       IN IF ios[c].shape = "wide"
          THEN /\ lastLandscape' = found
               /\ Becomes(c, [mapped EXCEPT !.rotation = found.dir, !.now = known /\ found.now])
          ELSE UNCHANGED lastLandscape /\ Becomes(c, [mapped EXCEPT !.now = known])
    /\ UNCHANGED <<device, orientationCache, rootFrame>>

(* The driver injects at the native point; both ends of a swipe are mapped  *)
(* by the one reading.                                                      *)
Lands(c, p) == LandsAt(ToNativePoint(p, ios[c].rotation), device.turned) = p
IosTap(c) ==
    /\ ios[c].pc = "send" /\ ios[c].op = "gesture" /\ Becomes(c, IdleCall)
    /\ UNCHANGED <<device, caches>>
IosSwipe(c) ==
    /\ ios[c].pc = "send" /\ ios[c].op = "gesture" /\ Becomes(c, IdleCall)
    /\ UNCHANGED <<device, caches>>
SendFails(c) ==
    /\ ios[c].pc = "send" /\ Becomes(c, IdleCall)
    /\ UNCHANGED <<device, caches>>
\* The framebuffer is captured while the readings are taken, and turned by them.
Capture(c) ==
    /\ ios[c].op = "shot" /\ ios[c].shown = "absent"
    /\ Becomes(c, [ios[c] EXCEPT !.shown = "now"])
    /\ UNCHANGED <<device, caches>>
IosScreenshot(c) ==
    /\ ios[c].pc = "send" /\ ios[c].op = "shot" /\ ios[c].shown # "absent"
    /\ Becomes(c, IdleCall)
    /\ UNCHANGED <<device, caches>>

Next == \/ DeviceTurns \/ AppTurns
        \/ \E c \in Callers : \/ EnsureUiDriverReady(c)
                              \/ UseCachedOrientation(c) \/ AskOrientation(c)
                              \/ ReadDeviceOrientation(c) \/ OrientationUnread(c)
                              \/ UseCachedFrame(c) \/ AskFrame(c) \/ ProbeIOSRootFrame(c)
                              \/ GetIOSSafeAreaTop(c) \/ GetUiRotation(c) \/ IosTap(c)
                              \/ IosSwipe(c) \/ SendFails(c) \/ Capture(c) \/ IosScreenshot(c)

-----------------------------------------------------------------------------
\* Sent now, a gesture lands on the point the caller named; delivered now, a capture taken
\* since the app last turned is upright.
Right(c) ==
    IF ios[c].op = "gesture" THEN \A p \in Points : Lands(c, p)
    ELSE ios[c].shown = "now" => ios[c].rotation = device.turned

\* A gesture lands where the caller pointed, and a capture is delivered upright, when the
\* readings that mapped it were taken since the app last turned: the frame was read, and if
\* it is wide a landscape orientation was.  ios.ts:910-916 records the taps that missed and
\* still reported success before the mapping existed.
AimTrue == \A c \in Callers :
    ios[c].pc = "send" /\ ios[c].now => Right(c)

\* Reading that the device has turned heals what is remembered: a call that reads it, after
\* the app has turned and with no other probe in flight, is mapped right although the frame
\* remembered until then was of the app before the turn.
RereadHeals == \A c \in Callers :
    ios[c].pc = "send" /\ ios[c].reread => Right(c)
=============================================================================
