---------------------------- MODULE Interceptor ----------------------------
(* The script execbro puts into the app (networkInterceptor.ts): it wraps
   fetch and patches XMLHttpRequest, which may not exist yet, and reports each
   request as a console event.  React Native's fetch rides on XHR, so the two
   layers see the same request; a page's fetch does not.  The SDK mutes the
   reports, except those of a request a mock rule answered. *)
EXTENDS Naturals, Sequences, FiniteSets, SequencesExt

CONSTANTS Req, MaxRetries, MaxFlips     \* requests; the code retries 40 times; changes of muted

VARIABLES
    native,         \* a browser page: its fetch is its own
    xhr,            \* XMLHttpRequest: "absent", "bare" or "patched"
    fetch,          \* fetch: "absent", "bare" or "wrapped"
    trapped,        \* did defineProperty on fetch take?
    retries,
    muted, flips,
    call            \* the requests the app makes

vars == <<native, xhr, fetch, trapped, retries, muted, flips, call>>
script == <<native, xhr, fetch, trapped, retries>>

Active == xhr = "patched"               \* __RN_NET_XHR_ACTIVE__
Rules == {"none", "replace", "fail", "tamper"}

(* outer: the fetch wrapper reports it; inner: the XHR patch has a state for it *)
Idle == [step |-> "idle", outer |-> FALSE, inner |-> FALSE, rule |-> "none",
         log |-> <<>>, flipped |-> FALSE]

(* the script runs in phase 1, before the bundle may have defined anything *)
Init ==
    /\ native \in BOOLEAN /\ trapped \in BOOLEAN
    /\ xhr \in {"absent", "patched"} /\ fetch \in {"absent", "wrapped"}
    /\ retries = 0 /\ muted \in BOOLEAN /\ flips = 0
    /\ call = [r \in Req |-> Idle]

BundleDefines ==
    /\ \/ xhr = "absent" /\ xhr' = "bare" /\ UNCHANGED fetch
       \/ fetch = "absent" /\ fetch' = (IF trapped THEN "wrapped" ELSE "bare") /\ UNCHANGED xhr
    /\ UNCHANGED <<native, trapped, retries, muted, flips, call>>

(* phase 2: every 250 ms until the patch holds, and then no more *)
Retry ==
    /\ retries < MaxRetries
    /\ xhr' = IF xhr = "absent" THEN xhr ELSE "patched"
    /\ fetch' = IF fetch = "absent" THEN fetch ELSE "wrapped"
    /\ retries' = IF xhr' = "patched" THEN MaxRetries ELSE retries + 1
    /\ UNCHANGED <<native, trapped, muted, flips, call>>

Mute ==
    /\ flips < MaxFlips /\ flips' = flips + 1 /\ muted' = ~muted
    /\ call' = [r \in Req |-> [call[r] EXCEPT !.flipped = @ \/ call[r].step \notin {"idle", "done"}]]
    /\ UNCHANGED script

EmitUnlessMuted(log, what, layer, mocked) ==            \* mutant
    IF muted THEN log ELSE Append(log, [what |-> what, layer |-> layer])

(* _report: a mocked request is reported whatever the SDK does *)
Emit(log, what, layer, mocked) ==
    IF muted /\ ~mocked THEN log ELSE Append(log, [what |-> what, layer |-> layer])

Becomes(r, q) == call' = [call EXCEPT ![r] = q] /\ UNCHANGED <<script, muted, flips>>

AfterMatch(rule) == CASE rule = "none" -> "sent" [] rule = "tamper" -> "shadow" [] OTHER -> "mock"

(* send on a patched XHR that open has seen *)
Sent(q, rule) ==
    IF q.inner
    THEN [q EXCEPT !.step = AfterMatch(rule), !.rule = rule,
                   !.log = Emit(@, "request", "xhr", rule # "none")]
    ELSE [q EXCEPT !.step = "sent"]

XhrOpen(r) ==
    /\ call[r].step = "idle" /\ xhr # "absent"
    /\ Becomes(r, [call[r] EXCEPT !.step = "open", !.inner = Active])

XhrSend(r, rule) ==
    /\ call[r].step = "open" /\ (rule # "none" => call[r].inner)
    /\ Becomes(r, Sent(call[r], rule))

ReportedNow(q) == fetch = "wrapped" /\ ~Active          \* mutant

(* whether the fetch layer reports a call is decided once, when it is made *)
Reported(q) == q.outer

(* React Native's fetch opens and sends its XHR within the call *)
RnFetch(r, rule) ==
    LET outer == fetch = "wrapped" /\ ~Active
        q == [call[r] EXCEPT !.outer = outer, !.inner = Active,
                             !.log = IF outer THEN Emit(@, "request", "fetch", FALSE) ELSE @]
    IN  /\ ~native /\ call[r].step = "idle" /\ fetch # "absent" /\ xhr # "absent"
        /\ rule # "none" => Active
        /\ Becomes(r, Sent(q, rule))

(* a page's fetch is matched by the wrapper itself *)
PageFetch(r, rule) ==
    /\ native /\ call[r].step = "idle" /\ fetch # "absent"
    /\ rule # "none" => fetch = "wrapped"
    /\ LET outer == fetch = "wrapped" /\ ~Active
       IN  IF rule = "none"
           THEN Becomes(r, [call[r] EXCEPT !.step = "sent", !.outer = outer,
                               !.log = IF outer THEN Emit(@, "request", "fetch", FALSE) ELSE @])
           ELSE Becomes(r, [call[r] EXCEPT !.step = AfterMatch(rule), !.rule = rule,
                               !.log = Emit(@, "request", "mock", TRUE)])

(* tamper runs the real request on a shadow of the app's; one that fails is
   delivered as a failure.  A page's response may still fail to be read. *)
ShadowFetch(r) ==
    /\ call[r].step = "shadow"
    /\ \/ \E rule \in {"replace", "fail"} : Becomes(r, [call[r] EXCEPT !.step = "mock", !.rule = rule])
       \/ native /\ ~call[r].inner /\ Becomes(r, [call[r] EXCEPT !.step = "unread"])

(* after the rule's delay, the hit and the terminal event go out, then the app's handlers run *)
DeliverMock(r) ==
    /\ call[r].step = "mock"
    /\ Becomes(r, [call[r] EXCEPT !.step = "done",
           !.log = Emit(Emit(@, "mock", "mock", TRUE),
                        IF call[r].rule = "fail" THEN "error" ELSE "response", "mock", TRUE)])

(* a textual blob is read out of band, and its body reported after the response *)
Finish(r, kind, blob) ==
    /\ call[r].step = "sent" /\ (blob => call[r].inner /\ kind = "response")
    /\ Becomes(r, [call[r] EXCEPT
           !.step = IF blob THEN "reading" ELSE "done",
           !.log = IF call[r].inner THEN Emit(@, kind, "xhr", FALSE)
                   ELSE IF Reported(call[r]) THEN Emit(@, kind, "fetch", FALSE) ELSE @])

ReadBlobText(r) ==
    /\ call[r].step = "reading"
    /\ \/ Becomes(r, [call[r] EXCEPT !.step = "done", !.log = Emit(@, "body", "xhr", FALSE)])
       \/ Becomes(r, [call[r] EXCEPT !.step = "done"])

Next ==
    \/ BundleDefines \/ Retry \/ Mute
    \/ \E r \in Req :
        \/ XhrOpen(r) \/ ShadowFetch(r) \/ DeliverMock(r) \/ ReadBlobText(r)
        \/ \E rule \in Rules : XhrSend(r, rule) \/ RnFetch(r, rule) \/ PageFetch(r, rule)
        \/ \E kind \in {"response", "error"}, blob \in BOOLEAN : Finish(r, kind, blob)

InterceptorSpec == Init /\ [][Next]_vars

-----------------------------------------------------------------------------
Whats(q) == [i \in DOMAIN q.log |-> q.log[i].what]
Told(q, what) == Cardinality({i \in DOMAIN q.log : q.log[i].what = what})
Ends(q) == Told(q, "response") + Told(q, "error")

(* A request a rule answered is told once and whole, its use before its end,
   whether or not the SDK mutes the rest (networkInterceptor.ts:56, :75): else
   hit counts freeze and altered traffic goes unmarked. *)
MockedIsTold == \A r \in Req : LET q == call[r] IN
    q.step = "done" /\ q.rule # "none" =>
        \E end \in {"response", "error"} : Whats(q) = <<"request", "mock", end>>

(* A request is told by one layer, and one told to have begun is told to have
   ended, once, whenever the patch landed meanwhile (:723): no request is listed
   twice, and none hangs as pending, unless the SDK muted it on its way. *)
ToldOnce == \A r \in Req : LET q == call[r] IN
    /\ Told(q, "request") <= 1 /\ Ends(q) <= 1 /\ (Told(q, "body") > 0 => q.flipped \/ Ends(q) = 1)
    /\ q.step = "done" /\ ~q.flipped => Ends(q) = Told(q, "request")
=============================================================================
