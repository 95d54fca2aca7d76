----------------------------- MODULE TextEntry -----------------------------
(***************************************************************************)
(* One call of input_text: core/textEntry.ts resolves a field, focuses it, *)
(* writes by the path the field can honour, reads it back, and rewrites it *)
(* once when what landed is not what was sent; core/hidTypeVerify.ts types *)
(* into whatever holds the focus and reads that back.  Every operation is  *)
(* a round trip to the app (core/inputTarget.ts) or to a driver process,   *)
(* and the screen may change between any two of them.                      *)
(*                                                                         *)
(* The screen has two fields, "f" that the caller means and "g" beside it. *)
(* A text is a sequence of the letters of Letters.                         *)
(***************************************************************************)
EXTENDS Naturals, Sequences, FiniteSets

CONSTANTS
    MaxLength,  \* maxLength of a field that has one
    MaxFaults,  \* bound: commands that fail or deliver something else
    MaxEvents   \* bound: changes of the screen while the call runs

ASSUME TextAssumption == /\ MaxLength \in Nat \ {0}
                         /\ MaxFaults \in Nat /\ MaxEvents \in Nat

VARIABLES
    field,      \* what kind of field f is
    platform,
    call,       \* the arguments
    text,       \* what each field shows
    focus,      \* the field that holds the focus
    mounted,
    tag,        \* native tag of f; a remount gives it a new one
    w,          \* local variables of the call
    answer,
    faults, events,
    before      \* history: texts and events when the call found its field

vars == <<field, platform, call, text, focus, mounted, tag, w, answer, faults,
          events, before>>
screen == <<text, focus, mounted, tag>>
fixed  == <<field, platform, call>>

-----------------------------------------------------------------------------
(* Texts.                                                                  *)

Fields  == {"f", "g"}
NoField == "none"
Letters == {"o", "a", "b", "e'", "$", "R", "hint"}
Ascii   == <<"a", "b">>
Accented == <<"e'">>            \* no key of the HID keyboard
Hint    == <<"hint">>           \* the placeholder

EndsWith(s, t)   == /\ Len(t) <= Len(s)
                    /\ SubSeq(s, Len(s) - Len(t) + 1, Len(s)) = t
StartsWith(s, t) == Len(t) <= Len(s) /\ SubSeq(s, 1, Len(t)) = t

Bare(s) == SelectSeq(s, LAMBDA c : c # "$")

\* What a field shows once it is given a text.
Shows(x, s) ==
    CASE x = "f" /\ field.shape = "max" /\ Len(s) > MaxLength -> SubSeq(s, 1, MaxLength)
      [] x = "f" /\ field.shape = "deco" /\ Bare(s) # <<>>    -> <<"$">> \o Bare(s)
      [] OTHER                                               -> s

\* isFieldTransform, with a decoration for all the changes it forgives.
IsTransform(sent, landed) == landed # sent /\ landed = <<"$">> \o sent

IsHidTypeable(s) == s # Accented

\* What reaches the field when a driver types s: all of it, the keystroke
\* race, another layout, a command that fails half-way.
Delivered(s) == [fine     |-> s,
                 raced    |-> IF Len(s) < 2 THEN s
                              ELSE SubSeq(s, 1, Len(s) - 2) \o <<s[Len(s)], s[Len(s) - 1]>>,
                 remapped |-> [i \in 1..Len(s) |-> "R"],
                 failed   |-> IF s = <<>> THEN s ELSE <<s[1]>>]

-----------------------------------------------------------------------------
Unknown == [known |-> FALSE, text |-> <<>>]
Read(s) == [known |-> TRUE, text |-> s]
Null    == <<"null">>           \* what the props of an uncontrolled field say: it equals no text

NoAnswer == [success |-> FALSE, path |-> "none", verified |-> FALSE,
             formatted |-> FALSE, restored |-> "no", why |-> "running"]

Idle == [pc |-> "new", pin |-> 0, focused |-> FALSE, previous |-> Unknown,
         masked |-> FALSE, snap |-> <<>>, polls |-> 0, retried |-> FALSE,
         cleared |-> FALSE, landed |-> Unknown, native |-> FALSE]

Kinds == [controlled : BOOLEAN, handler : BOOLEAN, testID : BOOLEAN,
          secure : BOOLEAN, shape : {"plain", "deco", "max"}]
Calls == [target : {"name", "value", "focus"}, replace : BOOLEAN,
          sent : {Ascii, Accented}, native : BOOLEAN]

Init ==
    /\ field \in {k \in Kinds : k.controlled => k.handler /\ k.testID}  \* its testID tells nothing
    /\ platform \in {"ios", "android"}
    /\ call \in {c \in Calls : /\ c.target = "value" => field.controlled
                               /\ c.native => c.target = "focus" /\ c.sent = Ascii}
    /\ \E old \in {<<>>, IF field.shape = "deco" THEN <<"$", "o">> ELSE <<"o">>} :
          text = [x \in Fields |-> IF x = "f" THEN old ELSE <<>>]
    /\ focus \in Fields \union {NoField}
    /\ mounted \in {Fields, Fields \ {"f"}}
    /\ focus \in mounted \union {NoField}
    /\ tag = 1
    /\ w = Idle /\ answer = NoAnswer
    /\ faults = 0 /\ events = 0
    /\ before = [text |-> text, events |-> 0]

\* The field g is uncontrolled, has a handler and a testID of its own.
Controlled(x) == x = "f" /\ field.controlled
Handler(x)    == x = "f" => field.handler
Secure(x)     == x = "f" /\ field.secure
IdOf(x)       == IF x = "g" THEN "g" ELSE IF field.testID THEN "f" ELSE "null"

-----------------------------------------------------------------------------
(* The resolver of inputTarget.ts: the pinned tag first, then the target.  *)

Pinned(pin) == IF "f" \in mounted /\ pin = tag THEN {"f"} ELSE {}

Matches ==
    CASE call.target = "name"  -> mounted \intersect {"f"}      \* its testID, label or placeholder
      [] call.target = "value"  -> {x \in mounted : Controlled(x) /\ "o" \in {text[x][i] : i \in DOMAIN text[x]}}
      [] OTHER -> IF focus # NoField THEN {focus}
                  ELSE IF Cardinality(mounted) = 1 THEN mounted ELSE {}

Resolved(pin) == IF Pinned(pin) # {} THEN Pinned(pin) ELSE Matches
Found(pin)    == Cardinality(Resolved(pin)) = 1
TheField(pin) == CHOOSE x \in Resolved(pin) : TRUE

\* The operation's answer is lost, whether or not the app carried it out.
OpFails == faults < MaxFaults /\ faults' = faults + 1
OpWorks == UNCHANGED faults
Misses(pin) == (OpWorks /\ ~Found(pin)) \/ OpFails

Goes(s) == w' = [w EXCEPT !.pc = s]

Answers(r) == answer' = r /\ Goes("done")
Miss == [NoAnswer EXCEPT !.why = "missed"]

-----------------------------------------------------------------------------
(* Resolving and focusing.                                                 *)

\* The handler: native:true types into the focus, everything else resolves.
Begins == /\ w.pc = "new"
          /\ w' = [w EXCEPT !.native = call.native,
                            !.pc = IF call.native THEN "nbefore" ELSE "find"]
          /\ UNCHANGED <<fixed, screen, answer, faults, events, before>>

\* find; a targeted miss waits RESOLVE_SETTLE_MS and is tried once more.
Find ==
    /\ w.pc \in {"find", "again"}
    /\ \/ /\ OpWorks /\ Found(0)
          /\ \E pin \in {0, IF TheField(0) = "f" THEN tag ELSE 0} :
                w' = [w EXCEPT !.pin = pin, !.focused = focus = TheField(0),
                               !.pc = IF TheField(0) = "g" THEN "other"
                                      ELSE IF focus = "f" THEN "prior" ELSE "focus"]
          /\ before' = [text |-> text, events |-> events]
          /\ UNCHANGED answer
       \/ /\ Misses(0)
          /\ IF w.pc = "find" /\ call.target # "focus"
             THEN Goes("again") /\ UNCHANGED answer
             ELSE Answers(Miss)
          /\ UNCHANGED before
       \/ /\ call.target = "focus" /\ OpFails       \* no fiber tree at all
          /\ w' = [w EXCEPT !.native = TRUE, !.pc = "nbefore"]
          /\ UNCHANGED <<answer, before>>
    /\ UNCHANGED <<fixed, screen, events>>

\* The focus was on g and the caller named nothing: g is the field it means,
\* and the model follows only calls that mean f.
MeansOther == /\ w.pc = "other"
              /\ Answers([NoAnswer EXCEPT !.why = "other"])
              /\ UNCHANGED <<fixed, screen, faults, events, before>>

\* focus() reports ok whatever the app makes of it: the field may not take the focus.
Focus ==
    /\ w.pc = "focus"
    /\ \/ /\ OpWorks /\ Found(w.pin) /\ Goes("prior")
          /\ focus' \in {TheField(w.pin), focus} /\ UNCHANGED answer
       \/ /\ Misses(w.pin)
          /\ Answers(Miss) /\ UNCHANGED focus
    /\ UNCHANGED <<fixed, text, mounted, tag, events, before>>

-----------------------------------------------------------------------------
(* The accessibility tree (nativeInputValue.ts).                           *)

Order == IF mounted = Fields THEN <<"f", "g">>
         ELSE IF mounted = {"g"} THEN <<"g">> ELSE <<>>

\* What the dump says of a field.  An empty iOS field reads as its hint.
Node(x) == [id      |-> IdOf(x),
            text    |-> IF platform = "ios" /\ text[x] = <<>> THEN Hint ELSE text[x],
            focused |-> platform = "android" /\ focus = x,
            secure  |-> Secure(x)]
Tree == [i \in DOMAIN Order |-> Node(Order[i])]

Nodes(snap) == DOMAIN snap

\* resolveWrittenField: an index into after, 0 for "could not determine".
Only(S) == IF Cardinality(S) = 1 THEN CHOOSE i \in S : TRUE ELSE 0
Written(old, new, id, sent) ==
    LET ById    == {i \in Nodes(new) : id # "null" /\ new[i].id = id}
        Focused == {i \in Nodes(new) : new[i].focused}
        Holding(s) == {i \in Nodes(s) : EndsWith(s[i].text, sent)}
        Changed == {i \in Nodes(new) : i \notin DOMAIN old \/ old[i].text # new[i].text}
    IN  IF ById # {} THEN Only(ById)
        ELSE IF Cardinality(Focused) = 1 THEN Only(Focused)
        ELSE IF /\ sent # <<>> /\ Cardinality(Holding(new)) = 1 /\ Holding(old) = {}
        THEN Only(Holding(new))
        ELSE Only(Changed)

AsItReads(s) == s                                            \* mutant
AsFieldText(s) == IF s = Hint THEN <<>> ELSE s

\* A dump: the tree, the one a command ago (the view lags), or an error.
Dumps == IF w.snap = <<>> THEN {Tree} ELSE {Tree, w.snap}

-----------------------------------------------------------------------------
(* Before the write: the prior text.                                       *)

\* A dump that fails has no fields, and the code looks no further.
Prior ==
    /\ w.pc = "prior"
    /\ IF field.controlled
       THEN w' = [w EXCEPT !.pc = "clear", !.previous = Read(text["f"])] /\ OpWorks
       ELSE \/ /\ OpWorks
               /\ LET i == Written(Tree, Tree, IdOf("f"), <<>>) IN
                  w' = [w EXCEPT !.pc = "clear", !.snap = Tree,
                          !.masked = i # 0 /\ Tree[i].secure,
                          !.previous = IF i = 0 \/ Tree[i].secure THEN Unknown
                                       ELSE Read(AsFieldText(Tree[i].text))]
            \/ OpFails /\ Goes("clear")
    /\ UNCHANGED <<fixed, screen, answer, events, before>>

Prev     == w.previous.text        \* "" when it is unknown
Desired  == IF call.replace THEN call.sent ELSE Prev \o call.sent
Hid      == ~field.controlled /\ field.handler /\ IsHidTypeable(call.sent)
Path     == IF field.controlled THEN "react" ELSE IF Hid THEN "hid" ELSE "native"

NeedsClearFirst ==
    call.replace /\ Hid /\ (~w.previous.known \/ Prev # <<>> \/ w.masked)

\* clear, of whatever the operation resolves to.
Empties == IF Found(w.pin) THEN text' = [text EXCEPT ![TheField(w.pin)] = <<>>]
              ELSE UNCHANGED text
ClearField == \/ OpWorks /\ Empties
              \/ OpFails /\ (Empties \/ UNCHANGED text)

ClearFirst ==
    /\ w.pc = "clear"
    /\ IF ~NeedsClearFirst THEN Goes("write") /\ UNCHANGED <<text, faults>>
       ELSE /\ ClearField
            /\ w' = [w EXCEPT !.pc = "write", !.cleared = TRUE]
    /\ UNCHANGED <<fixed, focus, mounted, tag, answer, events, before>>

-----------------------------------------------------------------------------
(* The write.                                                              *)

Types(s, how) == text' = IF focus = NoField THEN text
                         ELSE [text EXCEPT ![focus] = Shows(focus, @ \o Delivered(s)[how])]

\* A failed write: a replace that emptied the field tries to put it back.
Restoring == call.replace /\ field.handler /\ Prev # <<>>
WriteMissed == Answers(Miss)                                 \* mutant
WriteFailed ==
    IF w.retried THEN Answers([NoAnswer EXCEPT !.path = Path, !.why = "failed"])
    ELSE IF Restoring THEN Goes("restore") /\ UNCHANGED answer
    ELSE Answers([NoAnswer EXCEPT !.path = Path, !.why = "failed"])

Wrote == w' = [w EXCEPT !.pc = "read", !.polls = 0, !.landed = Unknown] /\ UNCHANGED answer

WriteHid ==
    /\ w.pc = "write" /\ Hid
    /\ \/ OpWorks /\ Types(IF w.cleared THEN Desired ELSE call.sent, "fine") /\ Wrote
       \/ /\ OpFails
          /\ \E how \in {"raced", "remapped"} :
                Types(IF w.cleared THEN Desired ELSE call.sent, how)
          /\ Wrote
       \/ /\ OpFails /\ Types(IF w.cleared THEN Desired ELSE call.sent, "failed")
          /\ WriteFailed
    /\ UNCHANGED <<fixed, focus, mounted, tag, events, before>>

SetsTheFocus(s) == text' = IF focus = NoField THEN text          \* mutant
                           ELSE [text EXCEPT ![focus] = Shows(focus, s)]

\* setValue shows in a controlled field only, setNative in any.
Sets(s) ==
    text' = IF Found(w.pin) /\ (field.controlled => Controlled(TheField(w.pin)))
            THEN [text EXCEPT ![TheField(w.pin)] = Shows(TheField(w.pin), s)] ELSE text

\* setValue on a controlled field, setNative on any other.  A native write
\* right after another input operation is sometimes swallowed.
WriteProps ==
    /\ w.pc = "write" /\ ~Hid
    /\ \/ OpWorks /\ Found(w.pin) /\ Wrote /\ Sets(Desired)
       \/ OpFails /\ Found(w.pin) /\ ~field.controlled /\ Wrote /\ UNCHANGED text
       \/ /\ Misses(w.pin)
          /\ WriteFailed /\ (Sets(Desired) \/ UNCHANGED text)
    /\ UNCHANGED <<fixed, focus, mounted, tag, events, before>>

\* setValue of the previous text: onChangeText tells the app, and only a
\* controlled field shows it.
Restore ==
    /\ w.pc = "restore"
    /\ \E told \in {"yes", "lost"} :
          /\ IF told = "yes" THEN OpWorks /\ Found(w.pin) /\ Handler(TheField(w.pin))
             ELSE Misses(w.pin)
          /\ Answers([NoAnswer EXCEPT !.path = Path, !.why = "failed", !.restored = told])
          /\ IF field.controlled
             THEN Sets(Prev) \/ (told = "lost" /\ UNCHANGED text)
             ELSE UNCHANGED text
    /\ UNCHANGED <<fixed, focus, mounted, tag, events, before>>

-----------------------------------------------------------------------------
(* The read-back.                                                          *)

\* A field that is not found is unknown; one found that has no value reads as null.
ReadProps ==
    /\ w.pc = "read" /\ field.controlled
    /\ \/ /\ OpWorks /\ Found(w.pin)
          /\ w' = [w EXCEPT !.pc = "judge", !.landed =
                       Read(IF Controlled(TheField(w.pin)) THEN text[TheField(w.pin)] ELSE Null)]
       \/ /\ Misses(w.pin)
          /\ w' = [w EXCEPT !.pc = "judge", !.landed = Unknown]
    /\ UNCHANGED <<fixed, screen, answer, events, before>>

\* Three dumps, 0, 250 and 500 ms apart, until one shows the text.
Seen(dump) ==
    LET i == Written(w.snap, dump, IdOf("f"), call.sent)
        got == IF i = 0 THEN Unknown ELSE Read(AsFieldText(dump[i].text))
    IN  IF i # 0 /\ dump[i].secure
        THEN [w EXCEPT !.pc = "judge", !.masked = TRUE, !.landed = Unknown]
        ELSE [w EXCEPT !.pc = IF got = Read(Desired) \/ w.polls = 2 THEN "judge" ELSE "read",
                       !.polls = @ + 1, !.landed = got]
ReadTree ==
    /\ w.pc = "read" /\ ~field.controlled
    /\ \/ OpWorks /\ \E dump \in Dumps : w' = Seen(dump)
       \/ /\ OpFails
          /\ w' = [w EXCEPT !.pc = IF w.polls = 2 THEN "judge" ELSE "read",
                            !.polls = @ + 1, !.landed = Unknown]
    /\ UNCHANGED <<fixed, screen, answer, events, before>>

-----------------------------------------------------------------------------
(* The verdict.                                                            *)

Landed == w.landed.text
AtMaxLength == /\ field.shape = "max" /\ Landed # Null
               /\ Len(Landed) = MaxLength /\ Len(Desired) > MaxLength
AppendedOntoUnknown == /\ ~w.previous.known /\ ~call.replace
                       /\ EndsWith(Landed, call.sent)
Retries == /\ w.landed.known /\ Landed # Desired
           /\ ~IsTransform(Desired, Landed) /\ ~AtMaxLength /\ ~AppendedOntoUnknown

Success(verified, formatted) ==
    [NoAnswer EXCEPT !.success = TRUE, !.path = Path, !.verified = verified,
                     !.formatted = formatted, !.why = "wrote"]

Judge ==
    /\ w.pc = "judge"
    /\ UNCHANGED <<fixed, screen, faults, events, before>>
    /\ \/ ~w.landed.known /\ Answers(Success(FALSE, FALSE))
       \/ w.landed.known /\ Landed = Desired /\ Answers(Success(TRUE, FALSE))
       \/ /\ w.landed.known /\ Landed # Desired
          /\ \/ /\ ~w.retried /\ Retries /\ UNCHANGED answer
                /\ w' = [w EXCEPT !.pc = "reclear", !.retried = TRUE]
             \/ /\ AppendedOntoUnknown /\ ~w.retried
                /\ Answers(Success(TRUE, FALSE))
             \/ /\ IsTransform(Desired, Landed) /\ (w.retried \/ ~AppendedOntoUnknown)
                /\ Answers(Success(TRUE, TRUE))
             \/ /\ ~IsTransform(Desired, Landed)
                /\ w.retried \/ (AtMaxLength /\ ~AppendedOntoUnknown)
                /\ Answers([NoAnswer EXCEPT !.path = Path, !.why = "mismatch"])

\* The retry: HID types at the caret, so the field is cleared and the whole
\* text typed; the other paths wait 300 ms and set it again.
ClearAgain ==
    /\ w.pc = "reclear"
    /\ IF ~Hid THEN Goes("write") /\ UNCHANGED <<text, faults>>
       ELSE /\ ClearField
            /\ w' = [w EXCEPT !.pc = "write", !.cleared = TRUE]
    /\ UNCHANGED <<fixed, focus, mounted, tag, answer, events, before>>

-----------------------------------------------------------------------------
(* native:true (hidTypeVerify.ts).                                         *)

NativeBefore ==
    /\ w.pc = "nbefore"
    /\ \/ OpWorks /\ w' = [w EXCEPT !.pc = IF call.replace THEN "nclear" ELSE "ntype", !.snap = Tree]
       \/ OpFails /\ Goes(IF call.replace THEN "nclear" ELSE "ntype")
    /\ before' = [text |-> text, events |-> events]
    /\ UNCHANGED <<fixed, screen, answer, events>>

NativeClear ==
    /\ w.pc = "nclear"
    /\ \/ /\ OpWorks /\ Found(0) /\ Empties /\ Goes("ntype") /\ UNCHANGED answer
       \/ /\ Misses(0)
          /\ Answers([NoAnswer EXCEPT !.why = "failed"])
          /\ Empties \/ UNCHANGED text
    /\ UNCHANGED <<fixed, focus, mounted, tag, events, before>>

NativeType ==
    /\ w.pc = "ntype"
    /\ \/ /\ OpWorks /\ Types(call.sent, "fine")
          /\ Goes("nread") /\ UNCHANGED answer
       \/ /\ OpFails /\ \E how \in {"raced", "remapped"} : Types(call.sent, how)
          /\ Goes("nread") /\ UNCHANGED answer
       \/ /\ OpFails /\ Types(call.sent, "failed")
          /\ Answers([NoAnswer EXCEPT !.path = "hid", !.why = "failed"])
    /\ UNCHANGED <<fixed, focus, mounted, tag, events, before>>

\* pickWrittenField: an index into new, 0 for null.
Picked(old, new) ==
    LET Changed == {i \in Nodes(new) : old[i].text # new[i].text}
    IN  IF Len(old) = Len(new) /\ new # <<>>
        THEN IF Changed = {} /\ Len(new) = 1 THEN 1 ELSE Only(Changed)
        ELSE IF Len(new) = 1 THEN 1 ELSE 0

PriorOf(old, new, i) == IF call.replace \/ old = <<>> \/ Len(old) # Len(new) THEN <<>>
                        ELSE old[i].text
Matched(landed, prior) == landed = prior \o call.sent \/ EndsWith(landed, call.sent)

NativeSeen(dump) ==
    LET i == Picked(w.snap, dump)
        good == i # 0 /\ Matched(dump[i].text, PriorOf(w.snap, dump, i))
    IN  IF i # 0 /\ dump[i].secure
        THEN [w EXCEPT !.pc = "nverdict", !.masked = TRUE, !.landed = Unknown]
        ELSE [w EXCEPT !.pc = IF good \/ w.polls = 2 THEN "nverdict" ELSE "nread",
                       !.polls = @ + 1, !.cleared = good,
                       !.landed = IF i = 0 THEN @ ELSE Read(dump[i].text)]
NativeRead ==
    /\ w.pc = "nread"
    /\ \/ OpWorks /\ \E dump \in Dumps : w' = NativeSeen(dump)
       \/ /\ OpFails
          /\ w' = [w EXCEPT !.pc = IF w.polls = 2 THEN "nverdict" ELSE "nread", !.polls = @ + 1]
    /\ UNCHANGED <<fixed, screen, answer, events, before>>

\* verdictForTypedText; an unverified entry is a success.
NativeVerdict ==
    /\ w.pc = "nverdict"
    /\ Answers([NoAnswer EXCEPT !.path = "hid",
                                !.success = ~w.landed.known \/ w.cleared,
                                !.verified = w.landed.known /\ w.cleared,
                                !.why = IF w.landed.known /\ ~w.cleared THEN "mismatch" ELSE "wrote"])
    /\ UNCHANGED <<fixed, screen, faults, events, before>>

-----------------------------------------------------------------------------
(* The screen moves on its own.                                            *)

Running == w.pc # "done" /\ events < MaxEvents /\ events' = events + 1
Untouched == UNCHANGED <<fixed, w, answer, faults, before>>

\* The user taps elsewhere, or the app moves the focus.
FocusMoves == /\ Running /\ focus' \in (mounted \union {NoField}) \ {focus}
              /\ UNCHANGED <<text, mounted, tag>> /\ Untouched

\* f appears, once the transition to its screen is over.
Mounts == /\ Running /\ "f" \notin mounted
          /\ mounted' = Fields
          /\ UNCHANGED <<text, focus, tag>> /\ Untouched

\* f is mounted anew: a new tag, and an uncontrolled field is empty.
Remounts == /\ Running /\ "f" \in mounted
            /\ tag' = tag + 1
            /\ focus' = IF focus = "f" THEN NoField ELSE focus
            /\ text' = IF field.controlled THEN text ELSE [text EXCEPT !["f"] = <<>>]
            /\ UNCHANGED mounted /\ Untouched

Next == \/ Begins \/ Find \/ MeansOther \/ Focus \/ Prior \/ ClearFirst
        \/ WriteHid \/ WriteProps \/ Restore \/ ReadProps \/ ReadTree \/ Judge
        \/ ClearAgain
        \/ NativeBefore \/ NativeClear \/ NativeType \/ NativeRead \/ NativeVerdict
        \/ FocusMoves \/ Mounts \/ Remounts

Spec == Init /\ [][Next]_vars

-----------------------------------------------------------------------------
(* Properties.                                                             *)

Done == w.pc = "done"
Calm == events = before.events     \* nobody touched the screen meanwhile
Landings == [known : BOOLEAN, text : Seq(Letters)]
TypeOK ==
    /\ field \in Kinds /\ call \in Calls /\ platform \in {"ios", "android"}
    /\ text \in [Fields -> Seq(Letters)]
    /\ focus \in Fields \union {NoField} /\ mounted \subseteq Fields
    /\ tag \in 1..(MaxEvents + 1) /\ faults \in 0..MaxFaults /\ events \in 0..MaxEvents
    /\ answer \in [success : BOOLEAN, path : {"none", "react", "hid", "native"},
                   verified : BOOLEAN, formatted : BOOLEAN,
                   restored : {"no", "yes", "lost"},
                   why : {"running", "missed", "other", "failed", "mismatch", "wrote"}]
    /\ w.pin \in 0..tag /\ w.polls \in 0..3
    /\ w.previous \in Landings /\ w.landed \in Landings \union {Read(Null)}
    /\ answer.why = "running" <=> ~Done

Wanted == (IF call.replace THEN <<>> ELSE before.text["f"]) \o call.sent

\* The call reaches f by its props or by its testID, or by the focus, if f took it.
Reached == field.controlled \/ field.testID \/ focus = "f"

\* A verified answer is true: on a screen nobody else touched, a field that the
\* call reaches, or typed into wherever the focus was, holds the text that was
\* asked for, give or take its own decoration; what was appended to a text that
\* could not be read ends it.
VerifiedHeld ==
    Done /\ answer.verified /\ Calm /\ (w.native \/ Reached) =>
       IF w.native THEN EndsWith(text[focus], call.sent)
       ELSE IF ~call.replace /\ ~w.previous.known THEN EndsWith(text["f"], call.sent)
       ELSE text["f"] \in {Wanted, <<"$">> \o Wanted}

\* No call writes into a field it does not name, unless it typed while the field
\* it names had not taken the focus.
OthersKept == Done /\ ~w.native /\ Calm /\ (answer.path = "hid" => focus = "f") =>
                 text["g"] = before.text["g"]

\* An answer that says no field was found has changed none.
MissUntouched == Done /\ answer.why = "missed" /\ Calm => text = before.text

\* input_text sets no field but the one the caller meant, and types into no other
\* once that field has taken the focus; an answer that found none changed none.
\* (textEntry.ts)
OnlyTheField == OthersKept /\ MissUntouched

\* The code breaks this one (README, section 6).
\* "True only when the landed text was read back and matched" (textEntry.ts:40):
\* matched, that is, in the field the caller meant.
VerifiedIsThere ==
    Done /\ answer.verified /\ Calm /\ ~w.native => EndsWith(text["f"], call.sent)

\* The code breaks this one (README, section 6).
\* "Focus it ourselves if needed" (textEntry.ts:358): what is typed then goes
\* into the field.
TypedIntoIt == Done /\ ~w.native /\ Calm => text["g"] = before.text["g"]

\* The code breaks this one (README, section 6).
\* textEntry.ts: left to the retry, an append onto an unread text would clear
\* the field and destroy the text the caller asked to append to.
AppendNeverDestroys ==
    Done /\ answer.verified /\ ~call.replace /\ ~w.native /\ Calm
       => StartsWith(Bare(text["f"]), Bare(before.text["f"]))
=============================================================================
