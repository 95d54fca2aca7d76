# TLA+ models of execbro

execbro is an MCP server (TypeScript, one Node process) that lets an agent read and drive
React Native, Chromium/Electron and native apps on simulators, emulators and devices. This
directory holds TLA+ modules translated from its source, TLC configurations that check them
on small instances, and proofs that TLAPS checks. Paths below are relative to `src/src/`;
`PROJECT.json` gives, for every definition, the lines it stands for.

To check: `tlc -config MCTap.cfg MCTap.tla`, and the same for the other cfg files (section 4
names their modules); `tlapm Reads_proof.tla`, and the same for the other `_proof` modules.

## 1. The system

Everything runs on one event loop. Code between two `await`s is atomic; everything else
interleaves: tool handlers of concurrent requests (only the HTTP transport used in development
queues them), timers, WebSocket events, HTTP answers, child processes (`adb`, `simctl`, `idb`,
`axe`). State is module-level maps and sets that every handler shares, and globals that
expressions leave in the app between two evaluations. So the program's races are not data races
but decisions taken before an `await` and acted on after it.

| Component | Source | State | What is hard, and what makes it correct | Modules |
|---|---|---|---|---|
| CDP connections | `core/connection.ts`, `connectionState.ts`, `probe.ts` | registry, locks, suppressions, timers, gaps | several calls, sockets and timers of one key at once. A lock is always released, a registered socket has its close event to come, a superseded socket's close spares its replacement, every call returns | Connection |
| Metro discovery and names | `core/metro.ts`, `metroIdentity.ts`, `tools/connectionTools.ts` | registry, pids per port, suspected bundles, window names | several Metros list one device, Metro restarts, listings overtake each other. A noticed restart is told; an app shown as passed answers; a name stays with its page | MetroScan, ChromiumNames |
| Bundle status | `core/bundle.ts`, `tools/bundleTools.ts` | one socket, a flag, an error buffer | closes of old sockets, reconnection, a promise that never settles. No error is cleared unseen, the link comes back | BuildEvents |
| Expression execution | `core/jsExecute.ts`, `state.ts`, `promiseHandles.ts` | pending table, message ids, slots in the app | retries repeat side effects, answers come late. A late answer never settles a newer attempt, evaluations are bounded, every call returns | Execution |
| Network capture | `core/connection.ts`, `network.ts`, `sdkMirrorPoller.ts` | ring buffer, SDK hysteresis, mute flag, epochs, cursors | three sources see one request, restarts reuse ids. One source per run, an old run's rows stay, a present SDK is found | NetworkCapture, Interceptor |
| Mock rules | `core/mockRules.ts`, `networkInterceptor.ts` | rules per device, their copy in the app | whole lists pushed over a link that drops; what is spent stays spent | MockRules implements MockTable |
| Console and native logs | `core/logs.ts`, `logEvents.ts`, `nativeLogs.ts`, `tools/logTools.ts` | ring buffers, one sequence, watermark, fingerprints | overlapping reads, evictions. An id names one entry, nothing is answered twice, no crash is passed by but in a window the caller chose | ConsoleLogs, NativeLogs |
| Vault | `core/vault.ts`, `vaultCapture.ts`, `httpRequest.ts` | entries, handles, host slots | eviction and re-binding. A handle names one secret for good; a secret goes only where it was seen | Vault |
| Tap | `pro/tap.ts`, `overlayGuard.ts`, `verifyAction.ts` | per call | five strategies under caps, drivers that lose acknowledgements. One call presses once; its answer agrees with the device | Tap |
| Looking at the screen | `core/pressables.ts`, `screenState.ts`, `screenLayout.ts`, `inspector.ts`, `screenStaleness.ts` | globals in the app, a baseline per device | late callbacks, two readers on one global. What is listed is there and reachable, or said to be unmeasured | FiberLookup, ScreenState, ScreenLayout, FiberInspect, Staleness |
| Navigation and routes | `core/navigate.ts`, `navigation.ts`, `routeHistory.ts` | a listener in the app, trails in the server | polls that fail, reloads, two readers. One visit at most is open, "from" names the screen before | Navigation |
| Text entry | `core/textEntry.ts`, `hidTypeVerify.ts`, `inputTarget.ts` | per call | fields that rewrite, raced keys, lost answers. A verified answer is true of the field it reached, no other field is set | TextEntry |
| Device resolution | `core/deviceResolver.ts`, `deviceDiscovery.ts` | inventory cached 30 s | devices come and go, listings fail. What was there all along is not denied by a list that was heard | DeviceChoice |
| Device drivers | `core/ios.ts`, `android.ts`, `exec.ts` | orientation and frame caches, files on the device | a turn between two readings, one file name for all calls | Simulator, UiFind, AdbDevice |
| Chromium input, dialogs | `core/chromium*.ts`, `pro/chromium*.ts` | page globals, open dialog per socket | a dialog pauses the page; an element global is replaced | Chromium |
| Usage gate, transport | `index.ts`, `core/serialQueue.ts`, `license.ts`, `register.ts`, `pro/usageGate.ts`, `usageNotifications.ts` | queue, verdict, caches, files | overlapping and late validations, restarts, month's turn. A verdict once told is kept, banners are rationed, the queue moves | ToolSession |

Components call each other as follows. Tools call `executeInApp` and the drivers. Execution
resolves a socket in the registry, and may close it and start a quick reconnect; the connection's
message handler settles execution's pending entries, its close handler fails them. The connection's
SDK probe decides which source of capture counts; the mirror poller reads through execution with
reconnection disabled. Tap uses device resolution, lookups (through execution), drivers, OCR and
screenshots; its misses are judged against the baseline that `get_screen_state` records.

The modules meet at those calls, and each sees its neighbours as what they can do to it: for
Execution the connection manager is sockets that open, go stale, drop and close; for Tap a lookup is
one look at a screen that may change; for the lookups an evaluation runs or is lost. `PROJECT.json`
lists under `hazards` the places where this code is hard to test, each with the properties that would
catch it going wrong, and under `components` what of each part is left out.

## 2. How the modules are built

One action is the code between two awaits, with every call it makes that changes state. Clocks are
not kept: an armed timer may fire whenever it likes, a remembered value may expire or serve, so all
orders of timeouts are included. Failures are choices: an evaluation, a command, a socket or an answer
may be lost at each await that the code guards against, and where a driver can act and still fail, it
may; a listing that fails is an empty one where the code makes it one, a focus that is asked for need not be
taken. Data is cut to what the properties tell apart: a text is a few letters, a screen a name or a few
boxes on one axis, a credential a number in the order the app came by it. History variables (what a
call saw, what was on the screen, what landed) are named as such where they are declared; no action
reads them.

Modules of calls that share no state with each other are composed into one run each, where a behaviour
is of one of them and the others stay switched off: `MCReads`, `MCDevices`, `MCWire`, `MCScan`. Their
compound properties (`TrailTrue`, `RightTarget`, ...) are conjunctions of the modules' own, which carry
the comments. A definition marked `\* mutant` is a plausible bug of the code beside the right
definition; `PROJECT.json` pairs each with the property that detects it.

The abstract specification `MockTable` says what mocking promises an agent: the app answers from one
of the lists the server has had, never an older one than it used already in this run, and a rule with a
budget fires within it in one run. `MockRules` has the server's list, a wire that drops, an app that
reloads, whole-list pushes and reports of hits; it implements the table through
`INSTANCE MockTable WITH`, where the table's lists are the lists the server has had and the one in use is
that which the app took last. The run `wire` checks it as the property `MocksAsPromised`, and `Wire_proof`
proves it step by step.

## 3. The modules

**Connection.** A *call* is one run of `attemptReconnection` and/or `connectToDevice`; it creates at
most one socket, which bears its name. `pc[c]` is its await: `scan`, `ping`, `dial`, `probe`, `vet`,
`done`. `ws` has a state of its own for "closing, close event not delivered yet": the gap between the
two is where the code's decisions go stale. `CloseEvent` is the whole close handler; `FireTimer`,
`Drop`, and the tools (`UserConnect`, `Release`, `SweepStale`, `DisconnectAll`, `ForceRefresh`, the
`Vet` outcomes) are the rest. `NothingStranded`: each held lock has a call that will release it, and each
registered socket a close still to be handled.

**Execution.** `pc[c]` is the await of one run of `executeInApp`, `phase` tells the first run from the two
retry layers, `pend[c]` is its entry in `pendingExecutions`, `reqs` and `answers` the messages under way,
`slot` and `runs` what the app holds and how often it evaluated. A socket this side closes still delivers
until its close event. `WaitsAreAnswered`: an answer, timer or close event settles exactly the attempt
that runs now, and nobody waits on a socket whose close event is past.

**NetworkCapture.** One app that is reloaded, killed and relaunched; `rows` is the buffer, each row with
the run that made the request and the run whose response it shows, which the code does not store and the
properties compare. `Deliver` is `handleCDPMessage`, `Probe` the SDK probe, `Mirror` is `mirrorOnce` after its
await. `SdkAlone`: while the SDK is there nothing else records, the app is muted, and no entry is latched
before its response. **Interceptor** is the injected script itself: fetch over XHR, late
polyfills, retries, the mute flag flipping under a request.

**Tap.** `todo` and `again` are what is left of the strategies and of the empty-screen replay, `attempted`
the attempts reported. `landed` counts touches the device received, `acked` those a driver acknowledged
while the call waited. `spent` is the only thing the code asks of time. What is on the screen is chosen
anew at every look. `AnswerTrue`: "not pressed" never follows an acknowledged touch, and success is
backed by one.

**ToolSession.** What every call passes: queue, license check, frozen verdict, banner, handler, count. The
backend answers with the verdict of the moment it handles the question, perhaps after a later one's
answer, signed or not; only a signed one is cached, and `lastSaid` is the last of those. The process may end at any step; three files survive. `BannersRationed` holds as long as no
banner is shown for a verdict of an earlier month than the last one's (`late`), which resets the file that
rations them.

**FiberLookup**, **ScreenState**, **ScreenLayout**, **FiberInspect.** A tree of fibers is a sequence, a parent
before its children. `Dispatch` walks it and leaves arrays in the app's globals, `Measure` is one late
callback that writes into whatever array the global names then, `Resolve` takes them. FiberLookup adds
tap's matching and deepening, ScreenState overlays, sheets, the keyboard and reachability, ScreenLayout
both passes that cut wrappers out of the tree, FiberInspect a promise with a budget, and the lift of what is drawn above the safe area (`Lifted`). **Staleness** is the
baseline, its three writers and the verdict on a miss; a baseline bears as history the calls that moved the
screen since, and whether one of them has returned. **Navigation** is `navigate` with its polls on the four
kinds of router, the app's listener, and the trail the server merges over restarts.

**TextEntry.** `w` is the call's local variables; each driver or app operation is one step that may fail,
and the screen may change between any two. Both fields of the screen are kept, so that writing into
the wrong one shows. `Focus` says ok whether or not the field takes the focus (`inputTarget.ts:604-610` does not
look), and what is typed goes where the focus is. `VerifiedHeld` is of a field the call reached: by its props, by
its testID, or by the focus it took. `OnlyTheField`: no other field is set, nor typed into once the call's own has
taken the focus. A field that is found but not controlled reads `Null`, which is a mismatch and is retried.

**Chromium.** A tool is a sequence of tasks the page runs in order; a dialog pauses it with the input's
answer. **Simulator**: every reading of orientation and root frame carries, as history, whether it was taken
since the app last turned. **UiFind** is the search of an accessibility dump, whose answers are the set of their places in it, and the
choice among them. **DeviceChoice** is the cached inventory and the ladder of a hint; a listing of simctl or adb may fail, and is then
remembered as an empty one. `DenialIsFresh` lets only a call deny a running device that itself heard its platform's
listing fail. **AdbDevice** is concurrent adb
commands around files of one name on the device. Calls do read each other's dumps there; `TreeIsFresh` (of
`AdbFreshAndOrdered`) says which: never one older than the call's own, one of a call under way at the same time when
uiautomator gave up in silence, and one from before the call only if its writer never removed it.

**MetroScan** is `scan_metro`, `ensure_connection`, `connect_metro`, `disconnect_metro` and `reload_app` over ports and
runtimes. An app may leave runtimes behind, of which a scan tries the first listed; a page may wait for a dialog; lsof
is asked and its answer noted in two steps, so that two scans' answers may cross. `PassedAnswers` is of "Connection
Ensured" with the health check on: who is shown as PASSED answers, or stopped after its own turn, which `fell`
remembers. `NoneLeftOut` is of a call nothing came between: every connected app is in the answer, as one that answers, as
a page with its dialog, or without the health check as one not asked. That an app answers when it is dialled is taken
as the outcome "connected" of the connection: refusals are in `ensure_connection`, where they decide the answer, and the
races of a dial are Connection's. **ChromiumNames** the names of windows that load, navigate and close under several listings;
**BuildEvents** the socket to Metro's build events, its reconnection and the tools over the error buffer.

**MockRules** has `hears`: the server's message handler is attached only after an await of the connect, so the event
of a context that starts before is lost and the context gets neither interceptor nor rules. `SettledIsSame` is of
contexts that have this execbro's interceptor.

**ConsoleLogs** is the ring buffers and the merged read, **NativeLogs** overlapping fetches from the watermark or from
the caller's `since`, earlier or later (`leftOut` is what a read that began later passed by), **Vault** the handles,
slots and requests.

## 4. The runs

| Run | Module, cfg | Instance | What it shows |
|---|---|---|---|
| connection | MCConnection, MCConnection.cfg | two keys of one device, two calls, one reconnection attempt, one forgotten timer | no lock, registry entry or gap is stranded; a replacement is spared by its predecessor's close |
| connection_live | MCConnection, Connection_live.cfg | one Chromium key, two calls, two attempts | every call of a tool returns and an attempt of the loop stops waiting for the network; dead entries leave the registry |
| execution | MCExecution, MCExecution.cfg | a call with a device name and a background call, one retry, two sockets, one poll | every wait has an answer to come, evaluations are bounded, nothing runs again while its answer can come |
| execution_live | MCExecution, Execution_live.cfg | a call and a collector of its slot, three sockets | every call returns |
| capture | MCNetworkCapture, MCNetworkCapture.cfg | a CDP network domain that answers or is silent, one request per runtime, two runtimes, one drop, two messages under way, a buffer of one | one source per run, an old run's rows stay, an SDK that stays is detected |
| tap | MCTap, MCTap.cfg | every query: platform, kind, strategy, index | one touch per call, the answer agrees with the device, a late touch only after a timeout, every call answers |
| session | MCToolSession, MCToolSession.cfg | two calls, both transports, a limit of two, one turn of the month, two starts | verdicts are kept, banners rationed but for a late verdict, the queue moves |
| reads | MCReads, MCReads.cfg | scenes of two elements with and without an overlay; trees of four fibers in every shape; two lookups at once or across a navigation; two hosts under a point; two calls that overlap, on two devices, with a passer-by's one move (the calls are alike: symmetry); two trail reads or one navigation on each kind of router | what is listed is there or said to be unmeasured, measurements are taken by their own call, a move of the agent's own is not blamed on a passer-by, the trail of screens joins up |
| devices | MCDevices, MCDevices.cfg | a page of two elements; a simulator with a gesture and a reader; dumps of two or three elements; a simulator and a phone of one name; two phones whose models start alike, of which starts, stops and failed listings make two | input reaches what was picked, dialogs are told, a denied device was not there or not listed, what adb calls read is fresh |
| wire | MCWire, MCWire.cfg | one text entry on each kind of field; three edits of the mock rules over one drop and one reload; two requests over fetch and XHR; three lines of two devices' logs, two readers of a native one; two hosts and a vault of two entries | a verified text is true, mock rules implement the abstract table, captures are complete, reads lose nothing and repeat nothing, handles name one secret |
| scan | MCScan, MCScan.cfg | two Metros and a browser, two devices of which one has two apps, one of them in two runtimes, and a page with a dialog; two calls and two events; two windows, two calls; three build calls, three sockets, a buffer of two | restarts are told, what passed answers, names stay with their pages, no build error is cleared unseen |
| build_optional | MCScan, MCScan_optional.cfg | the build link alone | violation: an optional connection that a tool waits for without end |

The larger runs have one to three million distinct states and end in one to four minutes (two workers each).

**Why the bounds are enough.** In Connection and Execution two actors suffice because every
interference in the code is between one call and one thing it did not expect (another call of the key, a
timer, a close event), and the invariants of the proofs hold for any number of calls and keys. `MaxStray`
caps the count of forgotten timers, not their effect. One reconnection attempt reaches both ends of the
backoff (a next attempt, giving up), and the liveness run has two. The live run of Execution has three
sockets so that the first is lost, the second goes stale and the third serves. In NetworkCapture two
messages under way let an answer and a context event of a restart arrive in one turn, and a buffer of one
evicts on every request. Tap has no bound: its queries are all of them and a call is finite. A tree of
four fibers holds a component with two hosts and a sibling, or a chain of three wrappers, which are the
shapes the passes of the layout tell apart. Two readers suffice where the shared state is one global of the
app or one file of the device: it remembers one writer. A vault of two entries has an eviction with the
third credential, ring buffers and dumps likewise. Two Metros that list one device are needed for the
purge, `Casts` keeps at most three of the five runtimes attached at once (an app with its leftover and its rival, or a
device of each kind), `MaxEvents` is what happens to them in a behaviour, and a start with everything attached and
the processes noted saves the events that would lead there; `MaxUpsets` = 2 allows a device to start and a
listing to fail; and three sockets for a build link that closes while its successor is being dialled.

**Deadlock** is checked for Connection, which never stops. `CHECK_DEADLOCK FALSE` is set where the system
may really stop: all calls answered, and the sockets, reloads or starts that the bounds allow used up.

**Fairness.** Connection: every await in it has a timeout of its own, a socket that is closing emits its
close event (`ws` guarantees it after `close()` and `terminate()`), and armed timers fire. Nothing is
assumed of users, of Metro or of the app. `CallsReturn` says of a call of a tool that it is answered; of an attempt of the
reconnection loop only that it stops waiting for the network, because after a failed handshake the code leaves it
pending (section 6). Execution: timers and continuations only. NetworkCapture: Node
delivers what arrived, the app runs what it is sent, a lost connection comes back, the intervals go on;
probe and poll are strongly fair, because the bound on messages under way, which the code does not have, can
disable them again and again. Tap: weak fairness of `Next`, as lookups, driver commands and screenshots
all have timeouts; it includes nothing that chooses an outcome. ToolSession: the handler that holds the
queue ends or its drain timeout fires, and queued calls are taken up. All other properties are of safety;
`LinkIsOptional` says what must be under way while a tool waits, so it needs no fairness either.

## 5. The proofs

All are by induction over the steps, with one lemma per kind of step, and use no assumption but the named
ones on the constants: `NoCall` is no call, `Chromium` are keys, the bounds are naturals, and the other
constants are of the kind their comments say (`CallsAssumption`, `KeysAssumption`, `CallersAssumption`,
`BoundsAssumption`, `SessionAssumption`, `MockAssumption`, `AsksAssumption`, `PageAssumption`; `AdbAssumption`: no serial
is "none" and what is typed is not empty; `PointsAssumption`, `ScreensAssumption`: a point is a pair of naturals and a
dump a sequence; `ScanAssumption`: ports and runtimes are numbered in the order they are
scanned and listed, and every runtime is listed by some Metro; `BuildAssumption`: a buffer and an answer hold
something and sockets are numbered; `NativeAssumption` and `NameAssumption` are explained below;
`StaleAssumption`: there is a device; `TrailAssumption`: a place is a name and a number; `ScreenAssumption`,
`LayoutAssumption`, `InspectAssumption`: frames are of whole numbers, a sheet shows more than a line of the window and holds
nothing that is above it, which it would clip, a parent comes before its children, and the first host of an app is its window); the theorems of `Wire_proof` about the vault assume that `App` is no host. TLC evaluates the assumptions on every run, and checked each
inductive invariant on its run before it was proved.

- **Connection_proof**, for any keys, calls and bounds: `Spec => []IInv`. `IInv` strengthens `LockHasOwner`,
  `RegisteredWillClose` (together `NothingStranded`) and `RegisteredGapClosed`. None is inductive alone. That a
  registered socket is `done` needs `SocketHasCall`, else a call that starts again could inherit the old
  socket. A call that fails releases the lock of `key[c]`, so `HasKey` is needed to know which. Reopening a gap
  needs `GapNeedsState`. `ReplacementSpared` proves the action property `CloseSparesReplacement`, whatever was
  connected meanwhile.
- **Execution_proof**, for any number of callers, retries, sockets and polls. `IInv`: types with the attempts
  within `MaxRetries` and polls within the ladder, `PendingMatches` (the entry in `pendingExecutions` is the
  request the waiting caller sent last) and `PendingWillEnd` (no wait on a socket whose close event is past).
  `StepsLeft` makes the bounds inductive: a caller that will count once more is still below the limit.
  `EveryWaitEnds` is `WaitsAreAnswered`. `EvaluationsBounded` is `RunsBounded`: what bounds the runs is what was
  sent, and `Counted` says that the evaluations of a caller's expression and its copies still under way are
  together at most `Sent`, which is read off its attempt, its phase and whether the present attempt has been
  sent. `FirstPlaces` (only the first run waits for fiber roots, probes or reconnects outside) is why the
  second run is the last one. `NeverRerunWhileAnswerable` is the action property `NoRerunWhileAnswerable`: ids are
  given upwards (`Numbered`), a caller has one message or slot entry at a time (`OneMessage`), and what a caller has
  given up on lies on sockets that are gone (`GivenUp`); sockets never open again, and only a gone one lets a
  probe retry.
- **NetworkCapture** (`Capture_proof`), for any requests, runtimes and drops: `SdkAlone` and the action property
  `SdkRowKeepsRun`. Rows stay under distinct keys and none is of a later epoch; the mirrored ones of one epoch are of
  one runtime, because an epoch begins with each runtime the server hears of; what is latched is finished; and the
  mute flag is the last word under way to the app (`FlagLast`). What the helpers over the buffer do to its rows is
  proved by induction over their lengths; the library's induction theorems take an operator, so `Induction` is
  proved for sets of numbers, from the least element of one.
- **Session_proof**, for any calls, months and starts: `BannersRationed` and `VerdictKept`. `Rationed` relates the
  month and threshold on file to the banners shown; `Said`, `Alone` and `Ruled` say that every verdict under way or
  ruled by is one the backend gave, that the cached one is the last it signed, and that a resolve that runs alone read
  that one. The first
  attempt failed where overlapping validations let a verdict of last month be adopted late: with four calls the
  banner of that month shows again, which the two calls of the run do not reach, so the property says `late`.
- **Reads_proof**, `tap`, for any set of queries: `OneTouch`, `AnswerTrue`, the types, and `LateOnlyAfterTimeout`. The inductive
  `TouchInv` adds `QuietBefore` (nothing acknowledged before the verification, so a later strategy starts with
  zero), `VerifiesTouch` (what is verified was acknowledged, or is one of the two iOS strategies that drop the
  driver's result) and `AnsweredOnce`. `DriftInv` says that a command left running belongs to a
  call that has nothing left to try and will answer, or has answered, that it timed out (`Adrift`); a coordinate's
  touch is the last of its strategies (`Coordinates`).
- **Reads_proof**, the tools that look at the screen, which is where a behaviour of `MCReads` is one of one tool, so
  that each invariant is kept by the tool's own steps and left alone by the others. `TakenOnce`, for any readers and
  scenes: `WalkInv` says that the globals are of a call that has walked and was not answered, and that a call which
  finds none was overtaken by one that is over (`OvertakenOnly`). `OwnMoveExcused`, for any devices, screens and
  overlapping calls: `MoveInv` says that each call that moved a screen since its baseline is about to return from a tool
  that moves screens, or one has returned and then the time of the last own move is not before the baseline's
  (`Remembered`). An earlier form of the property was false once two calls overlap, which the run now has; what
  remains true, and is proved, is that of a call that had returned. `TrailTrue`, for any places, callers, runs and any
  size of the trail: `RouteInv`. An app's buffer names each visit's predecessor, and its first has none unless the
  buffer is full (`BufferOK`). That is what a merge needs: the entries of this run go behind the visits of all the others,
  the first of them would name a visit that is not before it, but a full buffer leaves none of the others
  (`MergedOK`). Taking a run's visits out of a trail leaves no gap (`OtherRunsOK`), because a visit joins only one of
  its own run; nor does the cap, which takes visits from the front (`EndKeepsTrail`). What a call reads, it may merge when the
  app has restarted twice and the server has counted on: the proof asks nothing of the epoch it holds.
- **Reads_proof**, the screen, for any scenes, trees and views and any order of the measurements: `ReachedOrSaid`, of three
  tools. `SlotInv`: what a call of `get_screen_state` takes has a slot for everything of its own scene, so a frame
  that is of its element is lifted by the inset its own sheet shows; a header drawn elsewhere than it is laid out ends up above
  the window and is tagged. What an overlay covers was collected before the overlay was met (`Collects`), so it is no part of it
  and the hull of what was measured of the overlay holds it (`HullHolds`): it is not offered (`SlotReach`). With
  nothing unmeasured, what is on screen passes every filter, whether its sheet was measured or not (`OnScreenKept`), and
  the first collected at its centre is shown. `LayoutInv`: an arrived frame is that of its component and the answer was made of what
  survives of the same frames. `InspectInv`: what has not arrived is counted by `left`, so the answer given when it reaches
  zero is made of all the frames there can be (`ResultTrue`), and then the smallest host at the point exists, has no smaller
  rival (`BestIs`), and the nearest handler or its owner is on its line (`PickIs`, from `LinesOK`: the line of a
  fiber holds the lines of all it names). That a host is drawn where it was placed needs `BandIsEmpty`: nothing but what is as
  tall as the window starts above the safe area, else the code takes it for a modal's and lifts it. Lines and flattened lists are recursive; what they hold is
  shown by induction over a set of numbers, from `LeastNumber` (`FlatPieces`: a flattened list begins with that of
  the first lists, is of the others from there on, and misses nothing). The attempt showed that
  `ReachableReached` was true of the scenes listed only: an opaque panel of the window's own size is not
  taken for an overlay (the size gate, 15 % to 92 %), so what is under it is offered. The property now says that
  a view which is only guessed to be an overlay has the size of one, and the run has such a panel.
- **Devices_proof**. For any devices, hints and matching of names, `DenialsAreFresh`: `ChoiceInv` follows the devices
  that have been running since a call began; the refusal that is retried drops what was remembered, so what is
  answered rests on a list in which they are, or on one that this call itself saw fail (`Shown`): an earlier failure is
  in the cache like any list, and is dropped before the denial. For any page, queries and calls, `TapsWhatItPicked` and
  `PageInputIsTold`: `PageInv` says that what is on its way to or from the page was sent by a call that has got that
  far (`SentBefore`), that a collection that has not run is its call's first task and only one (`CollectsOnce`), and
  that while no other call has looked for elements the place a call was given is that of the element it
  picked, in what it was told, asks and is answered (`Located`). The late answers are the hard part: an answer is
  taken by the name of its task, so it must be known that no older one of that name is left. For any phones, calls and
  length of text, `AdbIsFreshAndOrdered` (`AdbFreshAndOrdered`): in `AdbInv`, who wrote the file on a device has still to remove
  it or never will, which a process left running by a killed call cannot upset, and a call that has dumped finds its own
  dump, a newer one or none, unless uiautomator gave up in silence; and what a call has typed is in
  the field of its device, as far as it has counted (`TypedSoFar`). For any points, screens, callers and polls,
  `AimedAndNamedRight` (`RightTarget`): `SimInv` says that a reading or a memory that counts as taken since the app turned
  says how it is turned, and `Healing` that while a call that read a turn is under way no older frame is remembered or
  on its way, without which the next probe to end would bring it back; `FindInv` that the passes tried so far have
  found nothing in this dump. That an index exists rests on `RankIsTaken`: finitely many places have one of each rank.
- **Wire_proof**. For any hosts, any size of the vault and any number of credentials: `VaultNames`, that is
  `HandleNamesOne` and `SentWasSeenThere`. `VaultInvariant` adds that handles are numbered below their host's
  counter and were issued (else a fresh handle could be an old one), and that a slot holds a credential seen on
  its host (else resolving it could send one elsewhere).
- **Wire_proof** too, for any rules, budgets and edits: `MockImplements`, every step of `MockRules` is one of `MockTable`
  or a stutter under the mapping of section 2, and `MockSettles` (`SettledIsSame`). `InOrder` says that lists reach the app
  in the order they were made, `Withheld` that an interceptor of an older runtime holds no operation back,
  `Settling` that a connected app with this execbro's interceptor has the server's rules or they are under way.
- **Wire_proof**, text entry, for every kind of field, target and order of lost answers, any faults and any changes of
  the screen: `VerifiedHeld` and `OnlyTheField`. Until the call writes, the fields show what they did (`Untyped`). From
  then on, while nobody touches the screen, it acts on its field, has left the other alone unless it typed without
  the focus (`Aimed`), and, if it reaches its field, knows what that showed, if anything (`ActsOn`); what it has read is
  what the field shows or what was shown before the write (`ReadsOK`), and nothing that was shown ends with what is sent (`ShownIsNotSent`), so a stale tree never passes
  for the text. The branch that types natively changes only what has the focus (`TypesOn`).
- **Wire_proof**, the script in the app, for any requests, retries and mutes: `InterceptorTells`. `RequestOK` says what a
  request has told at each step: one that was sent, and not muted or unmuted on its way, has told its beginning
  exactly if a layer took it and the SDK did not mute it, so its end is told by the same rule; one that a rule
  answers has told its beginning whatever is muted (`OnlyBegun`). Reports are counted (`Says`), not listed.
- **Wire_proof**, the logs: `LogsTell`. `LogParts`, for any devices and sizes: an entry held or shown is the one its
  number was given to (`KnownTo`), a buffer is in the order logged and newer than what was cleared of its device
  (`HeldInOrder`), and what was evicted since is older than what is held, so a clear forgets all of it
  (`EvictedCounted`). `NativeParts`, for any reads, floors and windows: an id is given up to the watermark
  (`GivenWasWritten`), and all of the watermark's tick is remembered (`LastTickRemembered`), because an event
  forgotten from it would mean that more than `SeenSize` were of one tick (`TickHolds`). That is why
  `NativeAssumption` asks that the fingerprints kept (800) cover one tick of the device's clock, which the
  comment at `logEvents.ts:155-162` takes for granted. A crash the watermark passes was fetched by a read that asked from
  it or before, and no floor drops it, or is in `leftOut`, passed by a read its caller told to begin later.
- **Scan_proof**, for any Metros, runtimes and devices, any lists, calls and events: `RestartsTold` and `AnswersHold`.
  `Identity` orders the processes of a port (the first seen, the last noted, the one that listens), without which
  a port noted once could go back to "unseen" and its restart be lost. `Registry` says that a device has one
  connection and that it is of a page as attached now. `Alone` carries what a call nothing came between knows at
  each stage: its lists are `Current`, no suspended app holds a device whose front app it listed (`FrontHeld`, from
  `orderAppsOnDevice` on; from the purge on all that is connected is of what a scan tries, `AllTried`), the ports it
  has done are `Served`, and while `ensure_connection` checks, each connected app is `Reported`, `Waiting` to be checked, or
  the answer will not say "Ensured". `PassedHolds` is `PassedAnswers` for a call still at its checks, and holds of every
  call, disturbed or not: whatever makes an app stop puts it into `fell` (`Fall`). And for any sockets, calls, builds and outages
  `BuildsKept`. That a link comes back is not inductive: a flag may stand while nothing is armed, so `RetryUnderWay`
  gives a flagged reconnection its timer or its own dial and `LinkStands` gives a link with none flagged its socket,
  open or closing. `LatestTells` is why a call that clears has `Told` all it could.
- **Scan_proof**, the names of windows, for any windows, pages, titles, moves and calls: `NamesHold`. `Reserved` says
  that a name is reserved once, under the title or the address it is made of; `KeptAll`, that a fixed name is
  reserved for the page it was given for; `Listed`, that what a call has listed of a window not fixed since is a name of
  that window's page still (`NameFor`), so that pinning it late disagrees with nobody. A listing is named in a loop,
  one window after the other (`NamedSince`, by the least step at which it would fail), and one of `title`, `title#2`, ... is
  always free (`OneIsFree`, by the pigeonhole). `NameAssumption` asks that no page is titled with the address of
  another, and is needed: without it TLC finds an untitled window, listed under its address, whose name another
  window, titled with that address, takes before the first is dialled. The two then share one name.

Only model-checked:

- all liveness (`CallsReturn`, `DeadEntryLeaves`, `CallEnds`, `SdkDetected`, `QueueMoves`): fairness and ENABLED are
  out of the prover's reach;
- `LookupTrue` of `MCReads`: the tree that is printed and the candidates of a lookup are made by filters of
  the library, `SelectSeq`, of which the prover knows nothing.

## 6. Where the code and its words disagree

**Shown by a run.** `build_optional`: `connectionTools.ts:217` calls the build-events connection optional, and
`bundle.ts:285` leaves the promise unsettled when a handshake fails while a reconnection is flagged, so the tool
never answers. The flag then stays for good, because the timer's own connection does not return either.

**Stated in the modules.** These properties quote the code's words; TLC violates each when it is added to the
cfg of the module's run, which does not list it (`OncePerMonth` with four calls):

- `AppendNeverDestroys` (TextEntry; `textEntry.ts:371, 402, 543`): on an iOS field without a testID an append
  replaces a text that could not be read, and is reported verified.
- `VerifiedIsThere`, `TypedIntoIt` (TextEntry; `textEntry.ts:40, 358`): `focus()` is called and not checked, so keys go to
  the field that has the focus; their text is read back from it and reported verified of the field that was named.
- `FoundIsFinal` (FiberLookup; `tap.ts:970`): an attempt that found the element but no unique match is followed
  by deeper ones, whose answer counts.
- `BlamedTruly` (Staleness; `screenStaleness.ts:7`): `get_screen_state` records what it shows
  (`componentTools.ts:364-378`), `input_text` compares its own view with it (`textEntry.ts:279-290`), and the
  difference of the views is blamed on a screen that moved.
- `UnchangedWasRead` (Navigation; `navigate.ts:30`): without a state reader every move reads "unchanged", and the
  tool adds "A guard may have blocked it" (`navigationTools.ts:72`).
- `OlderRunsKept` (Navigation; `routeHistory.ts:180, 248`): trail and epoch are keyed by the device argument as it
  was typed; for "default" or part of a name the epoch stays 1, so after a reload the merge replaces the earlier
  run's visits. `state.ts:64` warns against that key. The epoch is also read before the awaits, so a new
  run may be merged under the old one.
- `DeliveredWasSent` (Chromium; `chromiumTap.ts:111, 191`): "the input was delivered and opened a dialog" is said of
  a press that the gate of `chromiumDialogs.ts:83` never sent.
- `AnswerWasRunning`, `ExactNameWins` (DeviceChoice; `deviceResolver.ts:442, 286`): "never a wrong answer", yet a
  device is handed out after it stopped; a part of a connected device's name wins
  over the exact name of one that runs without being connected.
- `SerialIsNamed` (AdbDevice; `android.ts:1932-1975`): models are matched by prefix, so another phone's serial
  may be returned.
- `ReportedAsItself` (MetroScan; `connection.ts:2394`): a dead app's check dials the main device of its port when
  its own page is gone, and if that answers, the report shows it PASSED in the dead one's place.
- `FirstIsNotNew` (MetroScan; `metroIdentity.ts:51`): lsof's answers of two scans may cross over a restart; the older
  one, noted last, reads as a change back, and the scan says that the process seen first is new.
- `PurgeSparesListed` (MetroScan; `connection.ts:359`): the purge gets only each device's first app
  (`connectionTools.ts:107-121`), so a listed connection is closed.
- `WarningIsOwn` (MetroScan; `metroIdentity.ts:110`): when only the "Pro Max" is flagged, a "Pro" inherits it.
- `NamesApart` (ChromiumNames; `metro.ts:95`): two untitled windows of one url are connected under one name by two
  calls with listings of their own.
- `ReloadIsGreeted` (MockRules; `connection.ts:1127, 1546`): the message handler is attached after an await of the
  connect, so an app that reloads in between is not greeted, and has neither interceptor nor mocks until the next
  reload or connection.
- `SpentMeansSpent` (MockRules; `mockRules.ts:308`, `networkTools.ts:433`): the server keeps a
  rule's hits over a reload, the app's own count starts again, so a rule shown as spent fires.
- `NewestShown` (ConsoleLogs; `logs.ts:63`): a merged read caps the devices' buffers one after
  the other, so newer lines of one go before older ones of the next.
- `WindowOnlyWidens` (NativeLogs; `logTools.ts:265`): a `since` later than the watermark narrows the query instead
  (`nativeLogs.ts:268`), the watermark moves on, and a crash in between is never answered.
- `RetryShows` (NativeLogs; `nativeLogs.ts:99`): the judgement looks at what was fetched, and a refetch
  brings back what was answered before, so the retry it recommends shows nothing.
- `OncePerMonth` (ToolSession; `usageNotifications.ts:91`): with four calls, a validation that overlaps another falls
  back to the verdict it read before its await, of the month before, and that month's banner shows again.
- `CapturedIsUsable` (Vault; `vaultCapture.ts:74`): "use it with auth.secret" of a host whose slot was evicted
  (`vault.ts:145`).

**Met while modelling.** The models follow the code in these, or leave them out where it says so.

Connection and execution:
- `connection.ts:46, 1224, 1280, 1357`: the close of a socket still being probed frees the key's lock, so two calls
  pass it. `README.md:90` promises persistent retries; the backoff ends after one failed handshake: an attempt of the loop
  whose dial fails is neither resolved nor rejected (`1569-1573`), so the await of `1667` stays for good, the catch that
  schedules the next attempt (`1669-1674`) never runs and the state stays "reconnecting". (The lock of the key is
  released before, so a later call of a tool is not held up. It is the flaw that `build_optional` shows of `bundle.ts`.)
- `1336`: a suppression whose socket was already superseded survives into a good connection, whose drop is then
  not recovered. `1213`: the other-port check precedes its awaits and does not probe. `257`: the overall
  timeout of the handshake leaves its socket to open late (not modelled). A registered socket that answers
  pings is kept although its target is gone, which a quick reconnect counts as success. A fired timer's handle
  stays (`connectionState.ts:231`).
- `jsExecute.ts:485, 997`: the text of an expression's own exception may classify as a transport failure, and the
  expression runs again.

Network capture, interceptor, mocks:
- `network.ts:37`, `connection.ts:985`: a response is written into an earlier run's row of the same id. `816`: after
  a reload with a reconnect the first "no" is no edge, and the interceptor stays muted. `sdkMirrorPoller.ts:253`:
  one restart may raise the epoch twice; `391`: a poller stopped and restarted in flight runs twice.
- Console lines: one logged between a socket's real end and its close event is lost, one mirrored before the window
  is armed is doubled; the clock offset's midpoint is not modelled.
- An aborted mocked XHR still gets its load event; a native fetch whose body cannot be read reports nothing.
  "Offline: every JS-originated request now fails" (`networkTools.ts:629`) is untrue below an earlier mock rule.

Logs and vault:
- `logTools.ts:127`: "[N older events not shown — raise maxLogs]" cannot be followed, events are answered once.
  `since` takes evicted events in again; a crash hidden by a filter is not found by the escalation; merged reads
  never report evictions; `epoch: "current"` keeps only the highest number of all devices; restart dividers are
  not per device (`logTools.ts:55-69`); the recovered re-read ignores the epoch (`388`); a fingerprint of
  the first line keeps a truncated event; iOS `--start` has seconds only.
- Observing an old request again makes its token the host's current one, which `vault.ts:66-72` says it is not; "the
  same value always yields the same handle" (`vault.ts:8`) ends with eviction; `app_request` falls back to the last
  request's header whatever its host.

Tap and drivers:
- `tap.ts:70, 1364, 1498, 1665, 2672`: a strategy aborted by its cap reads as a definite miss; `1637`: one skipped for want of
  Metro reads "timed out"; `2813`: the catch for a failing touch takes a failing verification too, and the next
  strategy presses again (`OneTouch` excludes it by `swallowed`); `2479`: an ambiguous replay is dropped and OCR
  presses one of the matches; `1255` and `2694` ignore the driver's result on iOS. `android.ts:673`: a touch is
  delivered and its command fails.
- `ios.ts:948`: a turn within the remembered three seconds misaims every call in them; a failed probe of the root
  frame is kept for 30 s, a probe in flight refills the cache after its invalidation, and a pixel ratio inferred
  after one failure is kept. `idb --duration` for a tap is in ms while AXe gets seconds. Negative availability of
  adb or simctl is kept for the process. `iosWaitForElement` refuses a query by identifier.
- A finder's index beyond the exact matches falls to a looser pass; the status bar's second command is not pinned
  to the chosen device; all calls share file names on the device. `list_devices` says 5 s, discovery keeps 30.
- An error of simctl or adb is an empty list, remembered for 30 s (`deviceDiscovery.ts:61-82`): a hint is denied that one
  listing more would find, and a call without a hint may take the only device of the other platform.
- Chromium: `sent` counts a key the open dialog kept back (`chromiumKeys.ts:44-47`); a click whose answer times out may
  land; `handle_dialog` may answer another dialog than it names; overlapping calls share `__eb_domTargets`.

Looking at the screen:
- Two lookups at once read each other's measurements (`pressables.ts:645`; `LookupTrue` asks that they are the call's
  own). `pressables.ts:455` drops an ancestor with a testID of its own; `awaitMeasurements` waits only for its own array; a
  late callback beyond the array makes the resolve throw; a zero coordinate reads as "could not measure"; a
  throwing `measureInWindow` is not counted missing. `FirstDown` descends into hidden scenes, `walkForOverlays` skips them.
- `inspector.ts:257-271` lifts what is drawn above the safe area as if it were a modal's: a header drawn from y = 0,
  or content scrolled partly above, is placed an inset lower than it is, against "that band ... holds no app content"
  (`screenSpace.ts:77`; `NamedTruly` has it as its premise). Android's uniform shift is left out.
- `inspector.ts:60-66` documents the race of globals between two calls that the scroll and swipe probes still have
  (not modelled); it names components beneath modals. Layout: a collapsed screen no longer marks its root; chains
  of three wrappers leave one; `adoptsByContainment` is strict. Screen state: late callbacks of roots and sheets are
  not counted unmeasured, the keyboard is ignored under an overlay, duplicates are dropped after the audit.
- The last own move is one time for all devices, recorded when its call ends: until then another call takes the
  move for a passer-by's (`OwnMoveExcused` asks that the call had returned).

Text entry, session:
- "previous value restored" is not checked (`textEntry.ts:496-508`); a rewrite that fails after the retry's clear
  loses the text.
- `telemetry.ts:418-428` handles the exit before `gracefulShutdown` (`index.ts:337`); `index.ts:129` describes a gate the
  session does not have; overlapping refreshes of the usage gate; `telemetry.ts:314` may make two ids; activation unlinks
  `license.json`.

Metro and builds:
- `reload_app` clears a warning without knowing the reload happened and connects without checking the Metro process;
  a device attached after the scan that noticed the restart is not marked; `ensure_connection` reconnects only the
  first failing device (`connection.ts:2414`) where its comment says each, never checks for a restart, and without the
  health check says "Connection Ensured" and PASSED of apps it did not ask (`2400, 2411`).
- A second Metro is reported connected to build events although the open link is the first's; concurrent connects
  leave a socket whose events count twice; any socket's close forgets the current one; disconnecting reconnects.
  `hasError` outlives an update, errors outlive `hasError`; `clear` drops errors beyond `maxErrors` unseen; events lost
  while disconnected leave `isBuilding` set.

## 7. Not modelled

Whole components, with the reason of each in `PROJECT.json`: the WebSocket handshake (an outcome of Connection),
apps with the native SDK, screenshots and OCR, the printing of components and app state, timeline and replay,
project memory, and the tools' schemas and wording. They are single evaluations, files read and written whole,
pixel arithmetic or text, without control that a model checker would explore.

Within modelled components: context health and the log-pipeline check (Connection); the choice of an app by
label and output limits (Execution); queries, filters and statistics over the buffer (NetworkCapture); the
failure artifact (Tap); scanning for Chromium and native ports, native apps, and the automatic connection after a reload
(MetroScan); LogBox, whose dismissal may lose entries when its answer is lost, and `get_bundle_status`, which
changes no state (BuildEvents); restarts of the server, the NetInfo patch and pattern validation (MockRules); kinds
of credentials, masking and expiry (Vault); parsing of platform logs (NativeLogs) and device listings
(DeviceChoice); physical iOS devices, the emulator's gRPC and pinch (drivers); raising the keyboard (TextEntry);
reading and launching pages (Chromium); routes listed bare, a listener installed before its container is
mounted, and how the router is found (Navigation).
