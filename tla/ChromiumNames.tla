--------------------------- MODULE ChromiumNames ---------------------------
(* The names execbro gives the windows of an Electron app or a browser
   (metro.ts): Chromium lists windows by a random id, a url and a title that
   comes late, and buffers, epochs and mock rules are kept by name.  Several
   calls list, name and connect the windows of one port at once, while windows
   open, load, navigate and close. *)
EXTENDS Naturals, Sequences, FiniteSets, FiniteSetsExt

CONSTANTS
    Ids,            \* the ids windows get, 1..n; each is one window's, once
    Urls,           \* numbered in the order they sort
    Titles,         \* none is the text of an address
    Calls,          \* bound on tool calls and reconnects, 1..n in the order they begin
    MaxMoves        \* bound on navigations

VARIABLES
    window,         \* what each window shows; Gone before it opens and after it closes
    fresh,          \* ids no window has had
    byId,           \* the names fixed for the session
    shown,          \* the page each was given for
    reserved,       \* the page each fixed name was given for, in the order they were
    graceSpent,     \* untitled windows already waited for once
    registry,       \* the name each connected window is registered under
    call,           \* calls in flight
    asked,          \* the windows some call connected
    moves

vars == <<window, fresh, byId, shown, reserved, graceSpent, registry, call, asked, moves>>
names == <<byId, shown, reserved, graceSpent>>
pages == <<window, fresh, moves>>

Untitled == 0
Gone == [url |-> 0, title |-> Untitled]
NoName == <<0, 0>>
NoId == 0
Whichever == 0            \* a call that is no window's reconnect
Idle == [pc |-> "idle", for |-> Whichever, list |-> <<>>, w |-> NoId]

Open == {w \in Ids : window[w] # Gone}
IsUntitledPage(d) == d.title = Untitled
(* the title, or the url of a page that has none yet *)
BaseName(d) == IF IsUntitledPage(d) THEN d.url ELSE d.title

Init ==
    /\ window = [w \in Ids |-> Gone] /\ fresh = Ids
    /\ byId = [w \in Ids |-> NoName] /\ shown = [w \in Ids |-> 0] /\ reserved = <<>> /\ graceSpent = {}
    /\ registry = [w \in Ids |-> NoName] /\ call = [c \in Calls |-> Idle]
    /\ asked = {} /\ moves = 0

-----------------------------------------------------------------------------
(* the windows *)

WindowOpens(w, url) ==
    /\ w \in fresh /\ fresh' = fresh \ {w}
    /\ window' = [window EXCEPT ![w] = [url |-> url, title |-> Untitled]]
    /\ UNCHANGED <<names, registry, call, asked, moves>>

TitleLoads(w, title) ==
    /\ w \in Open /\ IsUntitledPage(window[w])
    /\ window' = [window EXCEPT ![w].title = title]
    /\ UNCHANGED <<names, registry, call, asked, fresh, moves>>

Navigates(w, url) ==
    /\ w \in Open /\ moves < MaxMoves /\ url # window[w].url
    /\ window' = [window EXCEPT ![w] = [url |-> url, title |-> Untitled]]
    /\ moves' = moves + 1
    /\ UNCHANGED <<names, registry, call, asked, fresh>>

WindowCloses(w) ==
    /\ w \in Open
    /\ window' = [window EXCEPT ![w] = Gone]
    /\ registry' = [registry EXCEPT ![w] = NoName]
    /\ UNCHANGED <<names, call, asked, fresh, moves>>

(* the socket alone drops; the window stays *)
Drops(w) ==
    /\ w \in Open /\ registry[w] # NoName
    /\ registry' = [registry EXCEPT ![w] = NoName]
    /\ UNCHANGED <<pages, names, call, asked>>

-----------------------------------------------------------------------------
(* naming *)

Holds(res, n) == \E i \in DOMAIN res : res[i].name = n

PinAnew(s, w, d, n) ==          \* mutant
    [byId |-> [s.byId EXCEPT ![w] = n],
     reserved |-> IF Holds(s.reserved, n) THEN s.reserved
                  ELSE Append(s.reserved, [name |-> n, url |-> d.url, base |-> BaseName(d),
                                           untitled |-> IsUntitledPage(d)])]

(* fix the name of a window for the session; one fixed before stays *)
PinChromiumName(s, w, d, n) ==
    IF s.byId[w] # NoName THEN s
    ELSE [byId |-> [s.byId EXCEPT ![w] = n],
          reserved |-> IF Holds(s.reserved, n) THEN s.reserved
                       ELSE Append(s.reserved, [name |-> n, url |-> d.url, base |-> BaseName(d),
                                                untitled |-> IsUntitledPage(d)])]

FreeUnlessLive(s, url, n) == n \notin s.live       \* mutant

(* nobody listed holds it, and no other page has it reserved *)
Free(s, url, n) ==
    /\ n \notin s.live
    /\ \A i \in DOMAIN s.reserved : s.reserved[i].name = n => s.reserved[i].url = url

(* where a name of this page is reserved that is not in use: a titled one first *)
Mine(s, d) ==
    LET unused == {i \in DOMAIN s.reserved : s.reserved[i].url = d.url /\ s.reserved[i].name \notin s.live}
        own == {i \in unused : s.reserved[i].base = BaseName(d)}
    IN  IF own # {} THEN own ELSE {i \in unused : s.reserved[i].untitled}

(* title, title#2, ...: of so many one is free *)
Numbers(s) == 1..(Len(s.reserved) + Cardinality(s.live) + 1)

NewName(s, d) ==
    IF Mine(s, d) # {} THEN s.reserved[Min(Mine(s, d))].name
    ELSE <<BaseName(d), Min({k \in Numbers(s) : Free(s, d.url, <<BaseName(d), k>>)})>>

(* one window with no fixed name: named, and the name fixed once it has a title *)
NameOne(s, w, d) ==
    LET n == NewName(s, d)
        pin == IF IsUntitledPage(d) THEN s ELSE PinChromiumName(s, w, d, n)
    IN  [byId |-> pin.byId, reserved |-> pin.reserved, live |-> s.live \union {n},
         given |-> [s.given EXCEPT ![w] = n], left |-> s.left \ {w}]

(* new windows are named in url order, then by id *)
Before(list, v, w) == list[v].url < list[w].url \/ (list[v].url = list[w].url /\ v < w)
FirstOf(list, left) == CHOOSE w \in left : \A v \in left \ {w} : Before(list, w, v)

Unnamed(list) ==
    LET new == {w \in DOMAIN list : byId[w] = NoName}
    IN  [byId |-> byId, reserved |-> reserved, left |-> new,
         live |-> {byId[w] : w \in DOMAIN list \ new}, given |-> [w \in DOMAIN list |-> byId[w]]]

NameNext(list, s) ==
    IF s.left = {} THEN s
    ELSE LET w == FirstOf(list, s.left) IN NameOne(s, w, list[w])

NameChromiumTargets(list) ==
    LET start == Unnamed(list)
        after[i \in 0..Cardinality(start.left)] ==
            IF i = 0 THEN start ELSE NameNext(list, after[i - 1])
    IN  after[Cardinality(start.left)]

-----------------------------------------------------------------------------
(* the calls: scan_metro, connect_metro and ensure_connection (for Whichever), and
   the reconnect of a window whose socket dropped *)

(* GET /json answers with the windows of that moment *)
Listing == [w \in Open |-> window[w]]

Begin(c, for) ==
    /\ call[c] = Idle /\ \A b \in Calls : b < c => call[b] # Idle
    /\ for # Whichever => for \in asked /\ registry[for] = NoName
    /\ call' = [call EXCEPT ![c] = [Idle EXCEPT !.pc = "listed", !.for = for, !.list = Listing]]
    /\ UNCHANGED <<pages, names, registry, asked>>

(* windows that may still get their title *)
Waiting(list) ==
    {w \in DOMAIN list : byId[w] = NoName /\ w \notin graceSpent /\ IsUntitledPage(list[w])}

PollAgain(c) ==
    /\ call[c].pc = "listed" /\ Waiting(call[c].list) # {}
    /\ call' = [call EXCEPT ![c].list = Listing]
    /\ UNCHANGED <<pages, names, registry, asked>>

(* none to wait for, or the grace is over *)
FetchDevices(c) ==
    LET list == call[c].list
        s == NameChromiumTargets(list)
    IN  /\ call[c].pc = "listed"
        /\ graceSpent' = graceSpent \union Waiting(list)
        /\ byId' = s.byId /\ reserved' = s.reserved
        /\ shown' = [w \in Ids |-> IF byId[w] = NoName /\ byId'[w] # NoName THEN list[w].url ELSE shown[w]]
        /\ call' = [call EXCEPT ![c].pc = "named",
                       ![c].list = [w \in DOMAIN list |->
                           [url |-> list[w].url, title |-> list[w].title, name |-> s.given[w]]]]
        /\ UNCHANGED <<pages, registry, asked>>

AnyPage(list, previous) == DOMAIN list      \* mutant

(* a page that is gone is gone: no other page is attached in its place *)
PickReconnectTarget(list, previous) == DOMAIN list \intersect {previous}

Wanted(c) == IF call[c].for = Whichever THEN DOMAIN call[c].list
              ELSE PickReconnectTarget(call[c].list, call[c].for)

(* connectToDevice: not while a socket is registered under the listed name *)
Dial(c, w) ==
    /\ call[c].pc = "named" /\ w \in Wanted(c)
    /\ \A v \in Ids : registry[v] # call[c].list[w].name
    /\ registry[w] = NoName
    /\ \A b \in Calls : call[b].pc = "dialled" => call[b].w # w     \* connectionLocks
    /\ call' = [call EXCEPT ![c].pc = "dialled", ![c].w = w]
    /\ asked' = IF call[c].for = Whichever THEN asked \union {w} ELSE asked
    /\ UNCHANGED <<pages, names, registry>>

RegisteredAsListed(s, w, d) == d.name      \* mutant

RegisteredAs(s, w, d) == s.byId[w]

(* the handshake succeeded: the name is fixed and registered *)
Attached(c) ==
    LET w == call[c].w
        d == call[c].list[w]
        s == PinChromiumName([byId |-> byId, reserved |-> reserved], w, d, d.name)
    IN  /\ call[c].pc = "dialled" /\ w \in Open
        /\ byId' = s.byId /\ reserved' = s.reserved
        /\ shown' = [shown EXCEPT ![w] = IF byId[w] = NoName THEN d.url ELSE shown[w]]
        /\ registry' = [registry EXCEPT ![w] = RegisteredAs(s, w, d)]
        /\ call' = [call EXCEPT ![c].pc = "named", ![c].w = NoId]
        /\ UNCHANGED <<pages, graceSpent, asked>>

Refused(c) ==
    /\ call[c].pc = "dialled" /\ call[c].w \notin Open
    /\ call' = [call EXCEPT ![c].pc = "named", ![c].w = NoId]
    /\ UNCHANGED <<pages, names, registry, asked>>

Answer(c) ==
    /\ call[c].pc = "named"
    /\ call' = [call EXCEPT ![c] = [Idle EXCEPT !.pc = "done"]]
    /\ UNCHANGED <<pages, names, registry, asked>>

Next ==
    \/ \E w \in Ids : WindowCloses(w) \/ Drops(w)
    \/ \E w \in Ids, u \in Urls : WindowOpens(w, u) \/ Navigates(w, u)
    \/ \E w \in Ids, t \in Titles : TitleLoads(w, t)
    \/ \E c \in Calls : PollAgain(c) \/ FetchDevices(c) \/ Attached(c) \/ Refused(c) \/ Answer(c)
    \/ \E c \in Calls, w \in Ids \union {Whichever} : Begin(c, w)
    \/ \E c \in Calls, w \in Ids : Dial(c, w)

Spec == Init /\ [][Next]_vars

-----------------------------------------------------------------------------
(* The registry and every later listing agree on a connected window's name,
   even when the call that connected it listed it long before. *)
RegistryAgrees == \A w \in Ids : registry[w] # NoName => registry[w] = byId[w]

(* "must never move to a different window" (metro.ts:75-77): windows that were
   ever given one name showed one page when it was given. *)
NamesKeepTheirPage ==
    \A v, w \in Ids : byId[v] # NoName /\ byId[v] = byId[w] => shown[v] = shown[w]

(* no page is attached that no call named *)
OnlyTheAsked == \A w \in Ids : registry[w] # NoName => w \in asked

(* The code breaks this one (README, section 6).
   two windows are never connected under one name; two untitled windows of one
   page are, when two calls dial them at once from different listings *)
NamesApart == \A v, w \in Ids : registry[v] # NoName /\ registry[v] = registry[w] => v = w
=============================================================================
